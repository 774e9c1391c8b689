-------------------------------- MODULE Threads --------------------------------
(***************************************************************************)
(* What the threads of one Linux program share in Nuvora Core, and what    *)
(* each keeps: compat_enter and compat_leave of linux_threads.h, signals   *)
(* of linux_signal.h, and the open files of kernel/fs.c.                   *)
(*                                                                         *)
(*  - task     the program's slots of tasks.  Every task has a copy of the *)
(*             descriptors, the directory and the handlers ("actions",     *)
(*             which stands for all that is refreshed at entry only: maps, *)
(*             brk and the flags of descriptors go the same way)           *)
(*  - group    compat_group; NoGroup until the first clone                 *)
(*  - running  current, or Nobody while another program or nobody runs     *)
(*  - files    reference counts of nodes and of shared descriptors, and    *)
(*             the nodes that exist                                        *)
(*                                                                         *)
(* Slot 1 is the leader's.  A call is one step from entry to exit: the     *)
(* kernel does not give up the CPU in between.  Which ready task is next,  *)
(* pids and counts of a group are module Task's.                           *)
(***************************************************************************)
EXTENDS Integers, FiniteSets, SequencesExt

CONSTANTS
    Slots,     \* tasks the program may have
    Nobody,
    FD,        \* descriptors, 3 .. NV_OPEN_MAX - 1
    Node,      \* files and directories, positive
    Signals,   \* signal numbers, by which they are looked at in order
    MaxDepth   \* 4: handlers on top of each other

ASSUME ThreadsAssumption ==
    /\ Slots \in Nat \ {0} /\ Nobody \notin 1 .. Slots
    /\ FD \subseteq Nat \ (0 .. 2) /\ IsFiniteSet(FD)
    /\ Node \subseteq Nat \ {0} /\ Signals \subseteq 1 .. 64 /\ MaxDepth \in Nat

VARIABLES task, group, running, files

threads == <<task, group, running, files>>

Slot == 1 .. Slots
Leader == 1
Root == 0
Closed == [node |-> 0, share |-> 0, offset |-> 0]
Share == 1 .. Cardinality(FD)
Descriptors == [FD -> {Closed} \cup [node : Node, share : {0} \cup Share, offset : {0, 1}]]
Actions == [Signals -> {"default", "ignore", "handler", "once"}]
NoGroup == [fd |-> <<>>]
AllClosed == [d \in FD |-> Closed]
FreeSlot == [state |-> "free", fd |-> AllClosed, cwd |-> Root, futex |-> 0,
             actions |-> [s \in Signals |-> "default"],
             pending |-> {}, blocked |-> {}, saved |-> <<>>]

ThreadsTypeOK ==
    /\ \A i \in Slot :
          LET t == task[i]
          IN  /\ t.state \in {"free", "ready", "sleeping", "zombie"}
              /\ t.fd \in Descriptors /\ t.cwd \in Node \cup {Root}
              /\ t.actions \in Actions /\ t.futex \in Nat
              /\ t.pending \subseteq Signals /\ t.blocked \subseteq Signals
              /\ t.saved \in Seq(SUBSET Signals) /\ Len(t.saved) <= MaxDepth
    /\ group = NoGroup \/ (group.fd \in Descriptors /\ group.cwd \in Node \cup {Root}
                           /\ group.actions \in Actions)
    /\ running = Nobody \/ (running \in Slot /\ task[running].state = "ready")
    /\ files.refs \in [Node -> 0 .. Cardinality(FD)]
    /\ files.sharing \in [Share -> 0 .. Cardinality(FD)]
    /\ files.there \subseteq Node

Loaded(action) ==
    [i \in Slot |-> IF i = Leader
                    THEN [FreeSlot EXCEPT !.state = "ready", !.actions = [s \in Signals |-> action]]
                    ELSE FreeSlot]
ThreadsInit(action) ==
    /\ task = Loaded(action) /\ group = NoGroup /\ running = Nobody
    /\ files = [refs |-> [n \in Node |-> 0], sharing |-> [s \in Share |-> 0], there |-> {}]
-----------------------------------------------------------------------------
Lowest(S) == CHOOSE x \in S : \A y \in S : x <= y
In(tasks, state) == {i \in Slot : tasks[i].state = state}
Ended == group = NoGroup /\ task[Leader].state = "zombie"

\* compat_enter, for the task that is about to run
Entered(t) ==
    IF group = NoGroup THEN t
    ELSE [t EXCEPT !.fd = group.fd, !.cwd = group.cwd, !.actions = group.actions]

\* The copies that compat_leave makes for the others, also those that ended.
\* (Mutated: none.)
PublishedAlone(tasks, i) == tasks
Published(tasks, i) ==
    [j \in Slot |-> IF j = i \/ tasks[j].state = "free" THEN tasks[j]
                    ELSE [tasks[j] EXCEPT !.fd = tasks[i].fd, !.cwd = tasks[i].cwd]]
Shared(t) == [fd |-> t.fd, cwd |-> t.cwd, actions |-> t.actions]

\* compat_leave of i, which goes on unless the call put it to sleep.
Left(tasks, i, grouped, fs) ==
    /\ task' = IF grouped THEN Published(tasks, i) ELSE tasks
    /\ group' = IF grouped THEN Shared(tasks[i]) ELSE NoGroup
    /\ running' = IF tasks[i].state = "ready" THEN i ELSE Nobody
    /\ files' = fs

\* finish_notify of the leader: it closes what its own copy shows.
ClosedAll(table, fs) ==
    [fs EXCEPT !.refs = [n \in Node |-> @[n] - Cardinality({d \in FD : table[d].node = n})],
               !.sharing = [s \in Share |-> @[s] - Cardinality({d \in FD : table[d].share = s})]]
Zombie(t) == [t EXCEPT !.state = "zombie", !.fd = AllClosed]

\* The whole program ends: task_linux_exit_group, compat_stop_group.
Terminated(tasks, fs) ==
    /\ task' = [i \in Slot |-> IF tasks[i].state = "free" THEN tasks[i] ELSE Zombie(tasks[i])]
    /\ group' = NoGroup /\ running' = Nobody
    /\ files' = ClosedAll(tasks[Leader].fd, fs)

\* task_reap: the slot of a thread is free once it does not run any more.
Reaped(tasks) ==
    [i \in Slot |-> IF i \notin {Leader, running} /\ tasks[i].state = "zombie"
                    THEN FreeSlot ELSE tasks[i]]
-----------------------------------------------------------------------------
(* Signals                                                                 *)

\* linux_interrupt_wait
Interrupted(t) ==
    IF t.state = "sleeping" /\ t.futex # 0
    THEN [t EXCEPT !.state = "ready", !.futex = 0] ELSE t

Delivers(t, s) ==
    t.actions[s] \in {"handler", "once"} /\ s \notin t.blocked /\ Len(t.saved) < MaxDepth

\* linux_deliver: the handler runs with its signal blocked; SA_RESETHAND, once.
Delivered(t, s) ==
    [t EXCEPT !.saved = Append(@, t.blocked), !.blocked = @ \cup {s},
              !.actions = IF t.actions[s] = "once" THEN [@ EXCEPT ![s] = "default"] ELSE @]

\* linux_pending: the lowest that is neither blocked nor ignored is delivered or
\* ends the program; ignored ones before it are gone.
Due(t) == t.pending \ t.blocked
Acting(t) == {s \in Due(t) : t.actions[s] # "ignore"}
Fatal(t) == Acting(t) # {} /\ ~Delivers(t, Lowest(Acting(t)))
Handled(t) ==
    IF Acting(t) = {} THEN [t EXCEPT !.pending = @ \ Due(t)]
    ELSE LET s == Lowest(Acting(t))
             u == [Interrupted(t) EXCEPT !.pending = @ \ {x \in Due(t) : x <= s}]
         IN  IF Delivers(t, s) THEN Delivered(u, s) ELSE u

\* The end of a call of i (linux_dispatch), and linux_resume.
Returned(tasks, i, grouped, fs) ==
    LET all == [tasks EXCEPT ![i] = Handled(@)]
    IN  IF Fatal(tasks[i]) THEN Terminated(all, fs) ELSE Left(all, i, grouped, fs)

\* A call of the running task, which has nothing else to do than to change its
\* own record to t.
Me == Entered(task[running])
With(t) == [Reaped(task) EXCEPT ![running] = t]
Return(t, fs) == Returned(With(t), running, group # NoGroup, fs)

\* schedule and, before anything else, the signals of whoever is next
ScheduleTo(i) ==
    /\ running = Nobody /\ task[i].state = "ready"
    /\ Returned([Reaped(task) EXCEPT ![i] = Entered(@)], i, group # NoGroup, files)

\* schedule halts until a device or the timer interrupts.
idle_once ==
    /\ running = Nobody /\ In(task, "ready") = {}
    /\ UNCHANGED threads

\* The timer, or sched_yield.
Preempt ==
    /\ running # Nobody /\ running' = Nobody
    /\ UNCHANGED <<task, group, files>>

Sigaction(s, action) ==
    /\ running # Nobody /\ Return([Me EXCEPT !.actions[s] = action], files)

Sigprocmask(mask) ==
    /\ running # Nobody /\ Return([Me EXCEPT !.blocked = mask], files)

Sigreturn ==
    /\ running # Nobody /\ Me.saved # <<>>
    /\ Return([Me EXCEPT !.blocked = Last(Me.saved), !.saved = Front(@)], files)

\* task_linux_signal
Tgkill(i, s) ==
    /\ running # Nobody /\ task[i].state \notin {"free", "zombie"}
    /\ LET t == [With(Me)[i] EXCEPT !.pending = @ \cup {s}]
           u == IF s \in t.blocked \/ Me.actions[s] = "ignore" THEN t ELSE Interrupted(t)
       IN  Returned([With(Me) EXCEPT ![i] = u], running, group # NoGroup, files)

\* linux_fault, which takes the copies as they are.
Fault(s) ==
    /\ running # Nobody
    /\ LET t == task[running]
       IN  IF Delivers(t, s)
           THEN Left([task EXCEPT ![running] = Delivered(t, s)], running, group # NoGroup, files)
           ELSE Terminated(task, files)
-----------------------------------------------------------------------------
(* Threads                                                                 *)

Vacant == {i \in Slot : With(Me)[i].state = "free"}
\* task_linux_clone: the child is a copy of its creator.
CloneInto(i) ==
    LET child == [Me EXCEPT !.pending = {}, !.saved = <<>>]
    IN  Returned([With(Me) EXCEPT ![i] = child], running, TRUE, files)
Clone ==
    /\ running # Nobody /\ Vacant # {} /\ CloneInto(Lowest(Vacant))

\* exit: one thread ends, and with the last of them the program.  tasks are the
\* others as linux_clear_tid leaves them.
ExitFrom(tasks) ==
    LET all == Published([tasks EXCEPT ![running] = Me], running)
        left == Shared(Me)
        i == running
    IN  IF group = NoGroup \/ \A j \in Slot \ {i} : all[j].state \in {"free", "zombie"}
        THEN Terminated(all, files)
        ELSE /\ task' = [all EXCEPT ![i] = IF i = Leader THEN [@ EXCEPT !.state = "zombie"]
                                           ELSE Zombie(@)]
             /\ group' = left /\ running' = Nobody /\ files' = files
Exit ==
    /\ running # Nobody /\ ExitFrom(Reaped(task))
ExitGroup ==
    /\ running # Nobody
    /\ Terminated(IF group = NoGroup THEN With(Me) ELSE Published(With(Me), running), files)

\* Another program stops this one, or its session ends.
Stop ==
    /\ running = Nobody /\ ~Ended
    /\ Terminated(task, files)

\* It was waited for; the next program starts.
Start(action) ==
    /\ Ended /\ task' = Loaded(action)
    /\ UNCHANGED <<group, running, files>>
-----------------------------------------------------------------------------
(* Files                                                                   *)

Unused == {d \in FD : Me.fd[d] = Closed}

\* fs_open: creates what is not there.
Open(n) ==
    /\ running # Nobody /\ Unused # {}
    /\ Return([Me EXCEPT !.fd[Lowest(Unused)] = [Closed EXCEPT !.node = n]],
              [files EXCEPT !.refs[n] = @ + 1, !.there = @ \cup {n}])

\* fs_duplicate: the first copy makes a shared descriptor of the original.
Dup(d) ==
    /\ running # Nobody /\ Unused # {} /\ Me.fd[d] # Closed
    /\ LET first == Me.fd[d].share = 0
           s == IF first THEN Lowest({x \in Share : files.sharing[x] = 0}) ELSE Me.fd[d].share
           e == [Me.fd[d] EXCEPT !.share = s]
       IN  Return([Me EXCEPT !.fd = [@ EXCEPT ![d] = e, ![Lowest(Unused)] = e]],
                  [files EXCEPT !.refs[e.node] = @ + 1, !.sharing[s] = IF first THEN 2 ELSE @ + 1])

\* fs_close.
Released(e, fs) ==
    [fs EXCEPT !.refs[e.node] = @ - 1,
               !.sharing = [s \in Share |-> IF s = e.share THEN @[s] - 1 ELSE @[s]]]
Close(d) ==
    /\ running # Nobody /\ Me.fd[d] # Closed
    /\ Return([Me EXCEPT !.fd[d] = Closed], Released(Me.fd[d], files))

\* A read, a write or a seek, and fs_descriptor_sync.
Seek(d, offset) ==
    /\ running # Nobody /\ Me.fd[d] # Closed
    /\ LET e == [Me.fd[d] EXCEPT !.offset = offset]
       IN  Return([Me EXCEPT !.fd =
                     [x \in FD |-> IF x = d \/ (e.share # 0 /\ @[x].share = e.share)
                                   THEN e ELSE @[x]]], files)

Chdir(n) ==
    /\ running # Nobody /\ n \in files.there \cup {Root}
    /\ Return([Me EXCEPT !.cwd = n], files)

\* By another program: what nobody has open, nor as its directory.
fs_remove(n) ==
    /\ running = Nobody /\ n \in files.there /\ files.refs[n] = 0
    /\ \A i \in Slot : task[i].state \in {"free", "zombie"} \/ task[i].cwd # n
    /\ files' = [files EXCEPT !.there = @ \ {n}]
    /\ UNCHANGED <<task, group, running>>
-----------------------------------------------------------------------------
\* The one table of descriptors the threads believe to have.
Table == IF Ended THEN AllClosed ELSE IF group = NoGroup THEN task[Leader].fd ELSE group.fd

\* "Keep those views current even for sleeping tasks": all threads, and a leader
\* that has ended, have the descriptors and the directory of the group, and the
\* one that runs has its handlers; whichever thread ends last, or is stopped,
\* closes every descriptor once: the counts of the nodes and of the shared
\* descriptors are the entries of that one table; shared entries agree; and no
\* entry and no directory in use is of a node that was removed.  (And everything
\* has its type.)
OneTable ==
    /\ ThreadsTypeOK
    /\ group # NoGroup =>
          /\ \A i \in Slot : task[i].state \in {"ready", "sleeping"} \/ i = Leader =>
                task[i].fd = group.fd /\ task[i].cwd = group.cwd
          /\ running # Nobody => task[running].actions = group.actions
    /\ \A n \in Node : files.refs[n] = Cardinality({d \in FD : Table[d].node = n})
    /\ \A s \in Share : files.sharing[s] = Cardinality({d \in FD : Table[d].share = s})
    /\ \A d, e \in FD : Table[d].share # 0 /\ Table[d].share = Table[e].share =>
          Table[d] = Table[e]
    /\ \A d \in FD : Table[d].node \in files.there \cup {0}
    /\ ~Ended => \A i \in Slot :
          task[i].state \in {"ready", "sleeping"} => task[i].cwd \in files.there \cup {Root}
=============================================================================
