--------------------------------- MODULE Futex ---------------------------------
(***************************************************************************)
(* The futex of Nuvora Core (linux_threads.h, compat/task.h) under the     *)
(* locks that programs build on it.                                        *)
(*                                                                         *)
(*  - word   the memory that the threads share, at its addresses: a lock,  *)
(*           the sequence of a condition, and for each thread the word     *)
(*           that is zeroed when it ends (CLONE_CHILD_CLEARTID)            *)
(*                                                                         *)
(* The program under "sync" is a model of a pthread library's mutex,       *)
(* condition variable and join: the leader starts the threads, sets ready  *)
(* and broadcasts, and joins them; they wait until it is set and end.      *)
(* pc, ready, read (what a thread read of the sequence) and woken (waits   *)
(* cut short so far) are the program's and the model's own.                *)
(*                                                                         *)
(* Bitsets, nanosleep and the results of a wait, which such a program does *)
(* not look at, are left out.                                              *)
(***************************************************************************)
EXTENDS Threads

CONSTANTS
    Workloads, \* bound: a behaviour exercises "files", "signals" or "sync"
    MaxSeq,    \* bound: broadcasts, by the sequence
    Idle,      \* bound: slots left free under "signals"
    MaxCuts    \* bound: time-outs and signals that cut a wait short

ASSUME FutexAssumption ==
    /\ Workloads \subseteq {"files", "signals", "sync"}
    /\ MaxSeq \in Nat /\ MaxCuts \in Nat /\ Idle \in Nat

VARIABLES workload, word, pc, ready, read, woken

program == <<pc, ready, read, woken>>
vars == <<threads, workload, word, program>>

Lock == 1
Seqno == 2
Tid(i) == i + 2
Address == 1 .. Slots + 2
Place == {"start", "lock", "contend", "sleep", "inside", "pause", "pausewake", "wait",
          "broadcast", "unlock", "wake", "join", "end"}

ProgramInit ==
    /\ word = [a \in Address |-> 0]
    /\ pc = [i \in Slot |-> "start"] /\ ready = FALSE
    /\ read = [i \in Slot |-> 0] /\ woken = 0

\* The program has installed handlers.
Installed == IF workload = "sync" THEN "handler" ELSE "default"
Init == workload \in Workloads /\ ThreadsInit(Installed) /\ ProgramInit
-----------------------------------------------------------------------------
(* The calls                                                               *)

Waiting(tasks, a) == {i \in Slot : tasks[i].state = "sleeping" /\ tasks[i].futex = a}
First(S, n) == {i \in S : Cardinality({j \in S : j < i}) < n}

\* linux_futex_wake, of n at most
Woken(tasks, a, n) ==
    [i \in Slot |-> IF i \in First(Waiting(tasks, a), n)
                    THEN [tasks[i] EXCEPT !.futex = 0, !.state = "ready"] ELSE tasks[i]]
Moved(tasks, a, b) ==
    [i \in Slot |-> IF i \in Waiting(tasks, a) THEN [tasks[i] EXCEPT !.futex = b] ELSE tasks[i]]

Called(tasks) == Returned(tasks, running, group # NoGroup, files)

\* (Mutated: the word is not looked at.)
Outdated(a, value) == FALSE
Changed(a, value) == word[a] # value
FutexWait(a, value) ==
    Called(With(IF Changed(a, value) THEN Me
                ELSE [Me EXCEPT !.futex = a, !.state = "sleeping"]))

FutexWake(a, n) == Called(Woken(With(Me), a, n))

\* FUTEX_CMP_REQUEUE of all that n leaves
FutexRequeue(a, value, n, b) ==
    Called(IF Changed(a, value) THEN With(Me) ELSE Moved(Woken(With(Me), a, n), a, b))

\* task_tick: a deadline is over.
TimedOut(i) ==
    /\ task[i].state = "sleeping" /\ woken < MaxCuts
    /\ task' = [task EXCEPT ![i].futex = 0, ![i].state = "ready"]
    /\ woken' = woken + 1
    /\ UNCHANGED <<group, running, files, workload, word, pc, ready, read>>

\* exit, and linux_clear_tid on its way
ThreadExit ==
    /\ word' = [word EXCEPT ![Tid(running)] = 0]
    /\ ExitFrom(Woken(Reaped(task), Tid(running), 1))
-----------------------------------------------------------------------------
(* A program: mutex, condition variable, join                              *)

At(i, place) ==
    /\ workload = "sync" /\ running = i /\ pc[i] = place /\ task[i].saved = <<>>
Goto(i, place) == pc' = [pc EXCEPT ![i] = place]
Store(a, v) == word' = [word EXCEPT ![a] = v]
Instruction == UNCHANGED <<threads, workload, woken>>
Call == UNCHANGED <<workload, word, ready, read, woken>>

\* The leader starts the others.
Begin(i) ==
    /\ At(i, "start")
    /\ IF Vacant = {} THEN Goto(i, "lock") /\ UNCHANGED <<threads, word>>
       ELSE LET j == Lowest(Vacant)
            IN  /\ CloneInto(j) /\ Store(Tid(j), 1)
                /\ pc' = [pc EXCEPT ![j] = "lock"]
    /\ UNCHANGED <<workload, ready, read, woken>>

\* A free lock is 0, a taken one 1, or 2 if somebody may wait for it.
Acquire(i) ==
    /\ At(i, "lock")
    /\ IF word[Lock] = 0 THEN Store(Lock, 1) /\ Goto(i, "inside")
       ELSE UNCHANGED word /\ Goto(i, "contend")
    /\ Instruction /\ UNCHANGED <<ready, read>>
Contend(i) ==
    /\ At(i, "contend") /\ Store(Lock, 2)
    /\ Goto(i, IF word[Lock] = 0 THEN "inside" ELSE "sleep")
    /\ Instruction /\ UNCHANGED <<ready, read>>
Sleep(i) == At(i, "sleep") /\ FutexWait(Lock, 2) /\ Goto(i, "contend") /\ Call

Inside(i) ==
    /\ At(i, "inside")
    /\ IF i = Leader
       THEN /\ ready' = TRUE /\ Store(Seqno, word[Seqno] + 1) /\ Goto(i, "broadcast")
            /\ UNCHANGED read
       ELSE /\ Goto(i, IF ready THEN "unlock" ELSE "pause")
            /\ read' = [read EXCEPT ![i] = word[Seqno]] /\ UNCHANGED <<word, ready>>
    /\ Instruction

Unlock(i, from, wake, to) ==
    /\ At(i, from) /\ Store(Lock, 0) /\ Goto(i, IF word[Lock] = 2 THEN wake ELSE to)
    /\ Instruction /\ UNCHANGED <<ready, read>>
Wake(i, from, to) == At(i, from) /\ FutexWake(Lock, 1) /\ Goto(i, to) /\ Call
After(i) == IF i = Leader THEN "join" ELSE "end"

Wait(i) == At(i, "wait") /\ FutexWait(Seqno, read[i]) /\ Goto(i, "contend") /\ Call
Broadcast(i) ==
    /\ At(i, "broadcast") /\ FutexRequeue(Seqno, word[Seqno], 1, Lock)
    /\ Goto(i, "unlock") /\ Call

Join(i) ==
    /\ At(i, "join")
    /\ LET others == {j \in Slot \ {i} : word[Tid(j)] # 0}
       IN  IF others = {} THEN Goto(i, "end") /\ UNCHANGED threads
           ELSE FutexWait(Tid(Lowest(others)), 1) /\ UNCHANGED pc
    /\ Call
End(i) ==
    /\ At(i, "end")
    /\ IF i = Leader THEN ExitGroup /\ UNCHANGED word ELSE ThreadExit
    /\ UNCHANGED <<workload, pc, ready, read, woken>>

HandlerReturns(i) ==
    /\ workload = "sync" /\ running = i /\ Sigreturn
    /\ UNCHANGED <<workload, word, program>>

Step(i) ==
    \/ Begin(i) \/ Acquire(i) \/ Contend(i) \/ Sleep(i) \/ Inside(i)
    \/ Unlock(i, "pause", "pausewake", "wait") \/ Wake(i, "pausewake", "wait") \/ Wait(i)
    \/ Unlock(i, "unlock", "wake", After(i)) \/ Wake(i, "wake", After(i))
    \/ Broadcast(i) \/ Join(i) \/ End(i) \/ HandlerReturns(i)

\* One thread sends another a signal meanwhile.
Signal(i, s) ==
    /\ workload = "sync" /\ woken < MaxCuts /\ task[i].state = "sleeping"
    /\ Tgkill(i, s) /\ woken' = woken + 1
    /\ UNCHANGED <<workload, word, pc, ready, read>>
-----------------------------------------------------------------------------
Schedule(i) == ScheduleTo(i) /\ UNCHANGED <<workload, word, program>>
Again ==
    /\ Start(Installed) /\ word' = [a \in Address |-> 0]
    /\ pc' = [i \in Slot |-> "start"] /\ ready' = FALSE
    /\ read' = [i \in Slot |-> 0] /\ woken' = 0 /\ UNCHANGED workload
Interrupt == Preempt /\ UNCHANGED <<workload, word, program>>
Idling == idle_once /\ UNCHANGED <<workload, word, program>>

\* Any order of calls on files or signals.
Calls ==
    /\ \/ /\ workload # "sync" /\ Clone
          /\ Cardinality(In(task, "free")) > IF workload = "signals" THEN Idle ELSE 0
       \/ workload \in {"files", "signals"} /\ (Exit \/ Stop)
       \/ workload = "files" /\
          \/ ExitGroup
          \/ \E n \in Node : Open(n) \/ Chdir(n) \/ fs_remove(n)
          \/ \E d \in FD : Dup(d) \/ Close(d) \/ \E o \in {0, 1} : Seek(d, o)
       \/ workload = "signals" /\
          \/ Sigreturn \/ \E n \in Node : Open(n)
          \/ \E m \in SUBSET Signals : Sigprocmask(m)
          \/ \E s \in Signals :
               \/ Fault(s)
               \/ \E a \in {"default", "ignore", "handler", "once"} : Sigaction(s, a)
               \/ \E i \in Slot : Tgkill(i, s)
    /\ UNCHANGED <<workload, word, program>>

Next ==
    \/ Interrupt \/ Idling \/ Calls \/ Again
    \/ \E i \in Slot :
         Schedule(i) \/ Step(i) \/ TimedOut(i) \/ \E s \in Signals : Signal(i, s)

\* The timer interrupts who runs; round robin (ReadyRuns of module Task) comes to
\* every thread that stays ready, and its time is enough for an instruction.
Spec ==
    /\ Init /\ [][Next]_vars /\ WF_vars(Interrupt)
    /\ \A i \in Slot : SF_vars(Schedule(i)) /\ SF_vars(Step(i))
-----------------------------------------------------------------------------
\* No wakeup is lost: threads that wait for a lock, a condition and each other,
\* some of them moved from one queue to the other, some of them cut short by a
\* deadline or a signal, all get through, and their leader with them.
EverybodyFinishes == workload = "sync" => []<>Ended
=============================================================================
