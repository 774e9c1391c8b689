-------------------------------- MODULE Task ---------------------------------
(***************************************************************************)
(* The process table of Nuvora Core: kernel/task.c with the thread groups  *)
(* of compat/task.h and compat/linux/linux_threads.h, the session manager  *)
(* of kernel/account.c that ends everything with it, and the scheduler.    *)
(*                                                                         *)
(*  - task      the slots of tasks[]: what a process is and what it waits  *)
(*              for; held is "its address space and kernel stack exist"    *)
(*  - group     struct compat_group, by the pid of the group's leader      *)
(*  - current   the slot whose program or kernel stack the CPU is on       *)
(*  - at        "user": current runs; "scan": schedule looks for a task    *)
(*  - nextPid   the pid allocate_pid tries first                           *)
(*  - manager   manager_pid of account.c, 0 if nobody manages the session  *)
(*                                                                         *)
(* Kernel calls are serialized, so a call is one step: the reaping at its  *)
(* entry, its body, and the reaping of schedule if it gives up the CPU.    *)
(* Calls that fail leave everything as it was and are not steps, except    *)
(* for the reaping, which Yield and Preempt do as well.  Pid 1 cannot end: *)
(* the machine halts.  Deadlines are not counted: a tick may wake any      *)
(* sleeper.                                                                *)
(***************************************************************************)
EXTENDS Integers, FiniteSets

CONSTANTS
    Slots,        \* NV_TASK_MAX
    MaxPid,       \* the last pid before allocate_pid starts again at 2
    NativeThreads \* the native calls that Linux programs make as well

Slot == 0 .. Slots - 1
Pid  == 1 .. MaxPid

\* Whenever a slot is free, so is a pid other than 1.
ASSUME TaskAssumption ==
    /\ Slots \in Nat \ {0}
    /\ MaxPid \in Nat /\ MaxPid >= Slots /\ MaxPid > 1
    /\ NativeThreads \subseteq {"spawn", "exec", "wait", "stop"}

VARIABLES task, group, current, at, nextPid, manager

vars == <<task, group, current, at, nextPid, manager>>

State == {"free", "ready", "sleeping", "waiting", "zombie"}
Entry == [state : State, pid : Pid \cup {0}, parent : Pid \cup {0},
          waitPid : Pid \cup {0}, collected : BOOLEAN, linux : BOOLEAN,
          group : Pid \cup {0}, held : BOOLEAN]
Count == [alive : Int, references : Int]

TypeOK ==
    /\ task \in [Slot -> Entry]
    /\ group \in [Pid -> Count]
    /\ current \in Slot
    /\ at \in {"user", "scan"}
    /\ nextPid \in Pid
    /\ manager \in Pid \cup {0}

\* memset(t, 0, sizeof(*t)).
Free == [state |-> "free", pid |-> 0, parent |-> 0, waitPid |-> 0,
         collected |-> FALSE, linux |-> FALSE, group |-> 0, held |-> FALSE]
NoGroup == [alive |-> 0, references |-> 0]
-----------------------------------------------------------------------------
(* A table is the slots and the groups; the helpers of a call map tables.  *)

Table == [task |-> task, group |-> group]
Becomes(T) == task' = T.task /\ group' = T.group

Used(T) == {i \in Slot : T.task[i].state # "free"}
Live(T) == {i \in Slot : T.task[i].state \notin {"free", "zombie"}}
In(T, state) == {i \in Slot : T.task[i].state = state}
Members(T, g) == {i \in Used(T) : g # 0 /\ T.task[i].group = g}

GroupAlive(T, i) ==
    T.task[i].group # 0 /\ T.group[T.task[i].group].alive > 0

\* A zombie leader stays until the last thread of its group has ended.
\* (Mutated: it does not.)
ReapFreely(T, i) == FALSE
ReapBlocked(T, i) == GroupAlive(T, i) /\ T.task[i].pid = T.task[i].group

\* A zombie nobody will ask about any more.  (Mutated: or has not yet.)
ForgetAll(e) == TRUE
Forgettable(e) == e.collected \/ e.parent = 0

\* The zombies but the one whose stack, slot c, the kernel is on.
\* (Mutated: that one too.)
ReapableAll(T, c) == {i \in In(T, "zombie") : ~ReapBlocked(T, i)}
Reapable(T, c) == {i \in In(T, "zombie") \ {c} : ~ReapBlocked(T, i)}

\* task_reap: memory goes at once, the slot once its status is of no use.
Reaped(T, c) ==
    LET Z == Reapable(T, c)
    IN  IF Z = {} THEN T ELSE
        [task |-> [i \in Slot |-> IF i \notin Z THEN T.task[i]
                                  ELSE IF Forgettable(T.task[i]) THEN Free
                                  ELSE [T.task[i] EXCEPT !.group = 0, !.held = FALSE]],
         group |-> [g \in Pid |-> [T.group[g] EXCEPT
                        !.references = @ - Cardinality(Z \cap Members(T, g))]]]

\* finish, for the slots of S in slot order: finish_notify for a process, and
\* for the leader of a group whose last threads these are (compat_finish).
\* (Mutated: for a process alone.)
ToldAlone(T, S) == {i \in S : T.task[i].group = 0}
Told(T, S) ==
    {i \in Used(T) :
        LET mine == S \cap Members(T, T.task[i].pid)
        IN  \/ i \in S /\ T.task[i].group = 0
            \/ mine # {} /\ T.group[T.task[i].pid].alive = Cardinality(mine)}

\* p waits for i, and still does when i ends in the same call.
Awaits(T, S, p, i) ==
    /\ T.task[p].state = "waiting"
    /\ T.task[p].waitPid = T.task[i].pid /\ T.task[p].pid = T.task[i].parent
    /\ p \in S => \A j \in S : j = i \/ T.task[j].group = T.task[i].pid => j < p

\* (Mutated: the children keep their parent's pid.)
KeptParent(e, gone) == e.parent
OrphanedParent(e, gone) == IF e.parent \in gone THEN 0 ELSE e.parent

Finished(T, S) ==
    LET told == Told(T, S)
        gone == {T.task[i].pid : i \in told}
        woken == {p \in Slot : \E i \in told : Awaits(T, S, p, i)}
    IN  [task |-> [i \in Slot |-> [T.task[i] EXCEPT
                      !.state = IF i \in S THEN "zombie"
                                ELSE IF i \in woken THEN "ready" ELSE @,
                      !.parent = OrphanedParent(T.task[i], gone),
                      !.collected = \/ @
                                    \/ i \in told /\ \E p \in woken : Awaits(T, S, p, i)]],
         group |-> [g \in Pid |-> [T.group[g] EXCEPT
                       !.alive = @ - Cardinality(S \cap Members(T, g))]]]

\* task_end_session.
SessionEnded(T, except, c) ==
    Reaped(Finished(T, {i \in Live(T) : T.task[i].pid \notin {1, except}}), c)

\* finish_notify of the session manager ends its session first.
Ended(T, S, c) ==
    IF \E i \in S : T.task[i].pid = manager
    THEN Finished(SessionEnded(T, manager, c), S)
    ELSE Finished(T, S)
Unmanaged(T, S) ==
    IF \E i \in S : T.task[i].pid = manager THEN 0 ELSE manager

\* What compat_stop_group and task_linux_exit_group end with slot i.
Company(T, i) == IF T.task[i].group = 0 THEN {i} ELSE Live(T) \cap Members(T, T.task[i].group)

\* allocate_pid: from next_pid upwards, then from 2, past the pids in use.
\* (Mutated: not past them; never back to 2.)
Turn(p) == IF p >= nextPid THEN p - nextPid ELSE p - nextPid + MaxPid
FreshPidUnchecked(T) == nextPid
FreshPid(T) ==
    CHOOSE p \in Pid \ {T.task[i].pid : i \in Slot} :
        /\ p # 1
        /\ \A q \in Pid \ {T.task[i].pid : i \in Slot} : q = 1 \/ Turn(p) <= Turn(q)
PidAfter(p) == IF p = MaxPid THEN 2 ELSE p + 1

\* The first free slot, as spawn and clone find it.
FirstFree(T) == CHOOSE i \in In(T, "free") : \A j \in In(T, "free") : i <= j
-----------------------------------------------------------------------------
Init ==
    /\ task = [i \in Slot |-> IF i # 0 THEN Free
                              ELSE [Free EXCEPT !.state = "ready", !.pid = 1, !.held = TRUE]]
    /\ group = [g \in Pid |-> NoGroup]
    /\ current = 0
    /\ at = "user"
    /\ nextPid = 2
    /\ manager = 0

Me == task[current]

\* Every call begins with task_reap.
Entered == Reaped(Table, current)

\* Linux programs have their own calls; the kernel does not keep them from
\* making native ones as well.
NativeCall(name) == at = "user" /\ (Me.linux => name \in NativeThreads)
LinuxCall == at = "user" /\ Me.linux

\* A new entry in the first free slot.
Installed(T, e) == [T EXCEPT !.task[FirstFree(T)] = e]

\* task_spawn and compat_spawn.
Spawn(foreign) ==
    /\ NativeCall("spawn")
    /\ In(Entered, "free") # {}
    /\ Becomes(Installed(Entered,
           [Free EXCEPT !.state = "ready", !.pid = FreshPid(Entered),
                        !.parent = Me.pid, !.linux = foreign, !.held = TRUE]))
    /\ nextPid' = PidAfter(FreshPid(Entered))
    /\ UNCHANGED <<current, at, manager>>

\* task_exec, compat_exec and linux_execve: not for a thread group, and not
\* for pid 1 or the session manager.
Exec(foreign) ==
    /\ NativeCall("exec") \/ (LinuxCall /\ foreign)
    /\ Me.pid \notin {1, manager}
    /\ Me.group # 0 =>
          Entered.group[Me.group] = [alive |-> 1, references |-> 1] /\ Me.pid = Me.group
    /\ Becomes([task |-> [Entered.task EXCEPT ![current].linux = foreign, ![current].group = 0],
                group |-> IF Me.group = 0 THEN Entered.group
                          ELSE [Entered.group EXCEPT ![Me.group] = NoGroup]])
    /\ UNCHANGED <<current, at, nextPid, manager>>

\* task_linux_clone: a thread, in a group that its first clone creates.
Clone ==
    /\ LinuxCall
    /\ In(Entered, "free") # {}
    /\ LET leader == IF Me.group = 0 THEN Me.pid ELSE Me.group
           counts == IF Me.group = 0 THEN [alive |-> 1, references |-> 1]
                     ELSE Entered.group[leader]
           child == [Me EXCEPT !.pid = FreshPid(Entered), !.parent = leader, !.waitPid = 0,
                               !.collected = TRUE, !.group = leader]
           joined == [task |-> [Entered.task EXCEPT ![current].group = leader],
                      group |-> [Entered.group EXCEPT ![leader] =
                          [alive |-> counts.alive + 1, references |-> counts.references + 1]]]
       IN  Becomes(Installed(joined, child))
    /\ nextPid' = PidAfter(FreshPid(Entered))
    /\ UNCHANGED <<current, at, manager>>

\* task_exit: a thread that ends may release one that sleeps on its tid.
Exit ==
    /\ at = "user"
    /\ Me.pid # 1
    /\ LET T == Ended(Entered, {current}, current)
           joiners == IF Me.group = 0 THEN {}
                      ELSE In(T, "sleeping") \cap Members(T, Me.group)
       IN  \E j \in joiners \cup {current} :
              Becomes(Reaped(IF j = current THEN T ELSE [T EXCEPT !.task[j].state = "ready"],
                             current))
    /\ at' = "scan"
    /\ manager' = Unmanaged(Entered, {current})
    /\ UNCHANGED <<current, nextPid>>

\* task_linux_exit_group: the call, a signal, or a processor fault (where
\* schedule alone reaps); a native program that faults ends alone.
ExitGroup ==
    /\ at = "user"
    /\ Me.pid # 1
    /\ LET S == Company(Entered, current)
       IN  Becomes(Reaped(Ended(Entered, S, current), current)) /\ manager' = Unmanaged(Entered, S)
    /\ at' = "scan"
    /\ UNCHANGED <<current, nextPid>>

\* task_wait for a child: its status if it has ended, else sleep until then.
Done(T, i) == T.task[i].state = "zombie" /\ ~GroupAlive(T, i)
Wait ==
    /\ NativeCall("wait")
    /\ \E i \in Used(Entered) :
         /\ Entered.task[i].parent = Me.pid /\ ~Entered.task[i].collected
         /\ IF Done(Entered, i)
            THEN Becomes([Entered EXCEPT !.task[i].collected = TRUE]) /\ at' = "user"
            ELSE /\ Becomes([Entered EXCEPT
                        !.task[current].state = "waiting",
                        !.task[current].waitPid = Entered.task[i].pid])
                 /\ at' = "scan"
    /\ UNCHANGED <<current, nextPid, manager>>

\* task_stop: pid 1 may end anyone, others their children; never pid 1, never
\* the caller.
Stop ==
    /\ NativeCall("stop")
    /\ \E i \in Used(Entered) \ {current} :
         /\ ~Done(Entered, i)
         /\ Entered.task[i].pid # 1
         /\ Me.pid = 1 \/ Entered.task[i].parent = Me.pid
         /\ Becomes(Ended(Entered, Company(Entered, i), current))
         /\ manager' = Unmanaged(Entered, Company(Entered, i))
    /\ UNCHANGED <<current, at, nextPid>>

\* NV_ACCOUNT_CLAIM, by a program that is the desktop or the recovery shell.
Claim ==
    /\ at = "user" /\ ~Me.linux
    /\ Me.pid = 1 \/ Me.parent = 1
    /\ manager = 1 => Me.parent = 1
    /\ manager \in {0, 1}
    /\ manager' = Me.pid
    /\ Becomes(Entered)
    /\ UNCHANGED <<current, at, nextPid>>

\* NV_ACCOUNT_LOGOUT, by the manager.
Logout ==
    /\ at = "user"
    /\ Me.pid = manager
    /\ Becomes(SessionEnded(Entered, manager, current))
    /\ UNCHANGED <<current, at, nextPid, manager>>

\* NV_SLEEP, nanosleep or a futex wait.
Sleep ==
    /\ at = "user"
    /\ Becomes([Entered EXCEPT !.task[current].state = "sleeping"])
    /\ at' = "scan"
    /\ UNCHANGED <<current, nextPid, manager>>

\* A futex wake or a signal: threads of the same group stop sleeping.
Wake ==
    /\ LinuxCall
    /\ \E S \in SUBSET (In(Entered, "sleeping") \cap Members(Entered, Me.group)) \ {{}} :
         Becomes([Entered EXCEPT !.task =
             [i \in Slot |-> IF i \in S THEN [@[i] EXCEPT !.state = "ready"] ELSE @[i]]])
    /\ UNCHANGED <<current, at, nextPid, manager>>

\* NV_YIELD, or the timer on every second tick.
Preempt ==
    /\ at = "user"
    /\ Becomes(Entered)
    /\ at' = "scan"
    /\ UNCHANGED <<current, nextPid, manager>>

\* task_tick, from a program or while schedule idles.
Tick ==
    /\ at = "user" \/ In(Table, "ready") = {}
    /\ \E S \in SUBSET In(Table, "sleeping") \ {{}} :
         task' = [i \in Slot |-> IF i \in S THEN [task[i] EXCEPT !.state = "ready"] ELSE task[i]]
    /\ UNCHANGED <<group, current, at, nextPid, manager>>

\* schedule: the first ready slot after the current one, round and round.
\* (Mutated: the first ready slot.)
Distance(i) == (i + Slots - current - 1) % Slots
NextReadyLowest == CHOOSE i \in In(Table, "ready") : \A j \in In(Table, "ready") : i <= j
NextReady ==
    CHOOSE i \in In(Table, "ready") : \A j \in In(Table, "ready") : Distance(i) <= Distance(j)

Dispatch ==
    /\ at = "scan" /\ In(Table, "ready") # {}
    /\ current' = NextReady
    /\ at' = "user"
    /\ UNCHANGED <<task, group, nextPid, manager>>

\* compat_resume: a pending signal ends the group of the task about to run.
DispatchDoomed ==
    /\ at = "scan" /\ In(Table, "ready") # {}
    /\ task[NextReady].linux
    /\ current' = NextReady
    /\ Becomes(Finished(Table, Company(Table, NextReady)))
    /\ UNCHANGED <<at, nextPid, manager>>

Next ==
    \/ \E foreign \in BOOLEAN : Spawn(foreign) \/ Exec(foreign)
    \/ Clone \/ Exit \/ ExitGroup \/ Wait \/ Stop
    \/ Claim \/ Logout \/ Sleep \/ Wake
    \/ Preempt \/ Tick \/ Dispatch \/ DispatchDoomed

Spec == Init /\ [][Next]_vars

\* The timer keeps interrupting programs, and schedule returns once a task is
\* ready.
Fairness == WF_vars(Preempt) /\ WF_vars(Dispatch)
FairSpec == Spec /\ Fairness
-----------------------------------------------------------------------------
(* Properties *)

\* The process with pid p has not ended: its status is still to come.
Undead(p) == \E i \in Slot : task[i].state # "free" /\ task[i].pid = p /\ ~Done(Table, i)

\* Whoever waits for a child waits for one that still has to end and whose end
\* will wake it: no wakeup is lost between task_wait, the end of a thread group
\* whose leader ended first, the end of a session, and reaping.
WaitersWillWake ==
    \A i \in In(Table, "waiting") : \E j \in Used(Table) :
        /\ task[j].pid = task[i].waitPid /\ task[j].parent = task[i].pid
        /\ ~task[j].collected /\ ~Done(Table, j)

\* The two counts of a group are its live threads and the slots that still
\* share its address space, and its leader keeps its slot while a thread lives:
\* the panics of compat_finish and linux_space_release are out of reach.
GroupsCounted ==
    \A g \in Pid :
        /\ group[g].alive = Cardinality(Live(Table) \cap Members(Table, g))
        /\ group[g].references = Cardinality(Members(Table, g))
        /\ group[g].alive > 0 => \E i \in Members(Table, g) : task[i].pid = g

\* A parent named in the table is a process that can still collect: orphans
\* lose their parent's pid in the very call that ends it, so that a later
\* process with the same pid never inherits them (ARCHITECTURE.md:47).
ParentsUndead ==
    \A i \in Used(Table) : task[i].parent # 0 => Undead(task[i].parent)

\* The table keeps its types, no two slots share a pid, across the wrap of the
\* counter, and pid 1 stays.
PidsUnique ==
    /\ TypeOK
    /\ \A i, j \in Used(Table) : task[i].pid = task[j].pid => i = j
    /\ task[0].pid = 1 /\ task[0].state # "zombie"

\* The kernel stack under the CPU exists, also while its owner is a zombie, and
\* a program that runs has not ended (task.c: never free the stack we are on).
StackUnderFoot ==
    /\ task[current].held
    /\ at = "user" => task[current].state = "ready"

\* An exit status nobody has claimed outlives everything but its parent, or the
\* claim (ABI.md:66): the slot stays unless in that call the parent ends, or is
\* woken by the child's end, which is the claim it was waiting to make.
UnclaimedKept ==
    [][\A i \in Slot, p \in Pid :
          /\ task[i].state = "zombie" /\ ~task[i].collected /\ task[i].parent = p
          /\ Undead(p) /\ Undead(p)'
          => \/ task'[i].pid = task[i].pid
             \/ \E j \in Slot :
                  /\ task[j].pid = p /\ task[j].state = "waiting"
                  /\ task[j].waitPid = task[i].pid /\ task'[j].state # "waiting"]_vars

\* STOP never ends its caller (ABI.md:66): who makes that call, or any other
\* than exit, returns to its program alive.
CallerSurvivesStop == at = "user" => task[current].state # "zombie"

\* Round robin: whoever is ready gets the CPU, unless it is ended first.
ReadyRuns ==
    \A i \in Slot :
        task[i].state = "ready" ~> (current = i /\ at = "user") \/ task[i].state # "ready"
=============================================================================
