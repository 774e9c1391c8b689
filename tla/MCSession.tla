------------------------------ MODULE MCSession -------------------------------
(* Session with users and passwords that TLC may exchange. *)
EXTENDS Session

Alike == Permutations(Names) \cup Permutations(Passwords)
=============================================================================
