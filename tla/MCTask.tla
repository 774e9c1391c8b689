------------------------------- MODULE MCTask --------------------------------
(* Task with few slots and few pids, for TLC. *)
EXTENDS Task

\* Pids other than 1 are told apart by the order in which allocate_pid comes to
\* them and by nothing else: count them from nextPid.  A pid last waited for is
\* not looked at unless the task is waiting, nor what a zombie was running.
Since(p) == IF p \in {0, 1} THEN p
            ELSE 2 + (IF p >= nextPid THEN p - nextPid ELSE p - nextPid + MaxPid - 1)
View ==
    LET seen(e) == [e EXCEPT !.pid = Since(@), !.parent = Since(@),
                             !.waitPid = IF e.state = "waiting" THEN Since(@) ELSE 0,
                             !.linux = @ /\ e.state # "zombie", !.group = Since(@)]
    IN  <<[i \in Slot |-> seen(task[i])],
          {<<Since(g), group[g]>> : g \in {p \in Pid : group[p] # NoGroup}},
          current, at, Since(manager)>>
\* Bound: whoever sleeps does nothing, and one at a time is enough to be woken,
\* stopped or signalled.
FewSleepers == Cardinality(In(Table, "sleeping")) <= 1
=============================================================================
