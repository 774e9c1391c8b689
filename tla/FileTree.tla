------------------------------ MODULE FileTree ------------------------------
(***************************************************************************)
(* What the file system promises a program: named bytes in two trees, one  *)
(* of them kept by saves.  There are no nodes, blocks, extents, pins or    *)
(* roots here; a path is a sequence that starts with the tree's name.      *)
(*                                                                         *)
(*  - A call does one of these steps as a whole, or nothing.               *)
(*  - A write changes the bytes it names, and fills a gap with zeros.      *)
(*  - What is open stays, wherever it is moved.                            *)
(*  - A restart brings back exactly the volume of one save.                *)
(***************************************************************************)
EXTENDS Integers, Sequences

CONSTANTS
    Handle,     \* descriptors of all processes
    Value,      \* bytes, besides 0
    Closed      \* a descriptor that is free

VARIABLES
    files,      \* path -> [kind, bytes]
    handles,    \* [path, at, mode] or Closed
    cwd,        \* path of a process's working directory
    saved,      \* the volume as a restart would bring it back
    frozen      \* the volume may not be changed until the next restart

vars == <<files, handles, cwd, saved, frozen>>

Home      == <<"home">>
Tmp       == <<"tmp">>
Directory == [kind |-> "dir", bytes |-> <<>>]
File(b)   == [kind |-> "file", bytes |-> b]

Parent(p)     == SubSeq(p, 1, Len(p) - 1)
Under(p, q)   == Len(p) <= Len(q) /\ SubSeq(q, 1, Len(p)) = p
Moved(p, q, x) == IF Under(p, x) THEN q \o SubSeq(x, Len(p) + 1, Len(x)) ELSE x
Volume        == {p \in DOMAIN files : Under(Home, p)}
Kept          == [p \in Volume |-> files[p]]
Mutable(p)    == Under(Home, p) => ~frozen
OpenAt(p)     == \E h \in Handle : handles[h] # Closed /\ handles[h].path = p
New(p)        == p \notin DOMAIN files /\ Parent(p) \in DOMAIN files
                 /\ files[Parent(p)].kind = "dir" /\ Mutable(p)

With(p, item) == [x \in DOMAIN files \cup {p} |-> IF x = p THEN item ELSE files[x]]
Without(p)    == [x \in DOMAIN files \ {p} |-> files[x]]

\* b after v has been written from position at on, n times
Overlaid(b, at, n, v) ==
    [i \in 1 .. (IF Len(b) > at + n THEN Len(b) ELSE at + n) |->
        IF i \in at + 1 .. at + n THEN v ELSE IF i <= Len(b) THEN b[i] ELSE 0]

Init ==
    /\ files = [p \in {Home, Tmp} |-> Directory]
    /\ handles = [h \in Handle |-> Closed]
    /\ cwd = Home
    /\ saved = [p \in {Home} |-> Directory]
    /\ frozen = FALSE

Open(h, p, mode) ==
    /\ handles[h] = Closed
    /\ \/ p \in DOMAIN files /\ files' = files
       \/ p \in DOMAIN files /\ files[p].kind = "file" /\ mode # "read" /\ Mutable(p)
          /\ files' = With(p, File(<<>>))
       \/ New(p) /\ files' = With(p, File(<<>>))
    /\ handles' = [handles EXCEPT ![h] =
         [path |-> p, at |-> IF mode = "append" THEN Len(files'[p].bytes) ELSE 0, mode |-> mode]]
    /\ UNCHANGED <<cwd, saved, frozen>>

Close(h) == handles' = [handles EXCEPT ![h] = Closed] /\ UNCHANGED <<files, cwd, saved, frozen>>

\* Reading moves the position, too; what is read is what files say.
Seek(h, at) ==
    /\ handles[h] # Closed
    /\ handles' = [handles EXCEPT ![h].at = at]
    /\ UNCHANGED <<files, cwd, saved, frozen>>

Write(h, n, v) ==
    /\ handles[h] # Closed /\ handles[h].mode # "read"
    /\ LET p  == handles[h].path
           at == IF handles[h].mode = "append" THEN Len(files[p].bytes) ELSE handles[h].at
       IN  /\ Mutable(p) /\ files[p].kind = "file"
           /\ files' = With(p, File(Overlaid(files[p].bytes, at, n, v)))
           /\ handles' = [handles EXCEPT ![h].at = at + n]
    /\ UNCHANGED <<cwd, saved, frozen>>

MakeDirectory(p) == New(p) /\ files' = With(p, Directory) /\ UNCHANGED <<handles, cwd, saved, frozen>>

Chdir(p) == p \in DOMAIN files /\ files[p].kind = "dir" /\ cwd' = p /\ UNCHANGED <<files, handles, saved, frozen>>

Remove(p) ==
    /\ p \in DOMAIN files \ {Home, Tmp} /\ Mutable(p)
    /\ ~OpenAt(p) /\ cwd # p
    /\ \A x \in DOMAIN files : Under(p, x) => x = p
    /\ files' = Without(p)
    /\ UNCHANGED <<handles, cwd, saved, frozen>>

\* Whatever is below p goes with it; what is open is open at its new place.
Move(p, q) ==
    /\ p \in DOMAIN files \ {Home, Tmp} /\ Mutable(p) /\ Mutable(q)
    /\ New(q) /\ ~Under(p, q) /\ p[1] = q[1]
    /\ files' = [x \in {Moved(p, q, y) : y \in DOMAIN files} |->
                    files[CHOOSE y \in DOMAIN files : Moved(p, q, y) = x]]
    /\ handles' = [h \in Handle |-> IF handles[h] = Closed THEN Closed
                     ELSE [handles[h] EXCEPT !.path = Moved(p, q, handles[h].path)]]
    /\ cwd' = Moved(p, q, cwd)
    /\ UNCHANGED <<saved, frozen>>

Replace(p, q) ==
    /\ p # q /\ {p, q} \subseteq DOMAIN files
    /\ files[p].kind = "file" /\ files[q].kind = "file"
    /\ Mutable(p) /\ p[1] = q[1] /\ ~OpenAt(p) /\ ~OpenAt(q)
    /\ files' = [x \in DOMAIN files \ {p} |-> IF x = q THEN files[p] ELSE files[x]]
    /\ UNCHANGED <<handles, cwd, saved, frozen>>

Save == saved' = Kept /\ ~frozen /\ UNCHANGED <<files, handles, cwd, frozen>>

\* Nobody knows which of the two it will be.
Doubt ==
    /\ ~frozen /\ frozen' = TRUE
    /\ saved' \in {saved, Kept}
    /\ UNCHANGED <<files, handles, cwd>>

Restart ==
    /\ files' = [p \in DOMAIN saved \cup {Tmp} |-> IF p = Tmp THEN Directory ELSE saved[p]]
    /\ handles' = [h \in Handle |-> Closed]
    /\ cwd' = Home
    /\ frozen' = FALSE
    /\ UNCHANGED saved

\* A step is found from where it leads: the path that is new, gone or at hand.
Next ==
    \/ \E h \in Handle :
          \/ \E p \in DOMAIN files', mode \in {"read", "write", "append"} : Open(h, p, mode)
          \/ Close(h)
          \/ handles'[h] # Closed /\ Seek(h, handles'[h].at)
          \/ /\ Closed \notin {handles[h], handles'[h]}
             /\ \E v \in Value, n \in 1 .. handles'[h].at : Write(h, n, v)
    \/ \E p \in DOMAIN files' \ DOMAIN files : MakeDirectory(p)
    \/ \E p \in DOMAIN files \ DOMAIN files' :
          \/ Remove(p)
          \/ \E q \in DOMAIN files' : Move(p, q) \/ Replace(p, q)
    \/ Chdir(cwd')
    \/ Save \/ Doubt \/ Restart

Spec == Init /\ [][Next]_vars
=============================================================================
