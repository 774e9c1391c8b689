------------------------------ MODULE Timeline ------------------------------
(***************************************************************************)
(* The promise of undo and redo: the states of a document in one line, of  *)
(* which one is the present.                                               *)
(***************************************************************************)
EXTENDS Integers, Sequences, SequencesExt

CONSTANT Depth
VARIABLES past, present, future

\* What is changed can be had back, up to the depth; what was undone before is gone.
Edit ==
    /\ future' = <<>>
    /\ past' = IF Len(past) = Depth THEN Append(Tail(past), present) ELSE Append(past, present)
\* A change may join the one before it, if that is the last of the line.
Join == future = <<>> /\ UNCHANGED <<past, future>>
Undo ==
    /\ past # <<>>
    /\ past' = Front(past) /\ present' = Last(past) /\ future' = <<present>> \o future
Redo ==
    /\ future # <<>>
    /\ past' = Append(past, present) /\ present' = Head(future) /\ future' = Tail(future)
\* Another document
Renew == past' = <<>> /\ future' = <<>>

Init == past = <<>> /\ future = <<>>
Next == Edit \/ Join \/ Undo \/ Redo \/ Renew
Spec == Init /\ [][Next]_<<past, present, future>>
=============================================================================
