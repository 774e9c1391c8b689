------------------------------ MODULE FutexProofs ------------------------------
(***************************************************************************)
(* Proofs about Threads and Futex: the threads of a program have one table *)
(* of descriptors, and the file system counts exactly what is in it.       *)
(*                                                                         *)
(* Almost every step ends in Returned, Left or Terminated, which take the  *)
(* tasks as the call made them.  Callable says what those must be.         *)
(***************************************************************************)
EXTENDS Futex, TLAPS, SequenceTheorems, FiniteSetTheorems, WellFoundedInduction

Entry == [node : Node, share : {0} \cup Share, offset : {0, 1}]
TaskType ==
    [state : {"free", "ready", "sleeping", "zombie"}, fd : Descriptors, cwd : Node \cup {Root},
     futex : Nat, actions : Actions, pending : SUBSET Signals, blocked : SUBSET Signals,
     saved : Seq(SUBSET Signals)]
GroupType == [fd : Descriptors, cwd : Node \cup {Root}, actions : Actions]
FilesType ==
    [refs : [Node -> Int], sharing : [Share -> Int], there : SUBSET Node]

IsTask(t) == t \in TaskType /\ Len(t.saved) <= MaxDepth
Alive(t) == t.state \in {"ready", "sleeping"}

\* The leader keeps its slot; without a group it is the only thread.
Tasks(tasks, grouped) ==
    /\ DOMAIN tasks = Slot /\ \A i \in Slot : IsTask(tasks[i])
    /\ tasks[Leader].state # "free"
    /\ ~grouped => \A i \in Slot \ {Leader} : ~Alive(tasks[i])

OfNode(table, n) == {d \in FD : table[d].node = n}
OfShare(table, s) == {d \in FD : table[d].share = s}
\* The counts are what is in the table.
Counted(table, fs) ==
    /\ table \in Descriptors /\ fs \in FilesType
    /\ \A n \in Node : fs.refs[n] = Cardinality(OfNode(table, n))
    /\ \A s \in Share : fs.sharing[s] = Cardinality(OfShare(table, s))
    /\ \A d, e \in FD : table[d].share # 0 /\ table[d].share = table[e].share => table[d] = table[e]
    /\ \A d \in FD : table[d].node \in fs.there \cup {0}

Over(tasks, grp) == grp = NoGroup /\ tasks[Leader].state = "zombie"
TableOf(tasks, grp) ==
    IF Over(tasks, grp) THEN AllClosed ELSE IF grp = NoGroup THEN tasks[Leader].fd ELSE grp.fd

Sound(tasks, grp, run, fs) ==
    /\ Tasks(tasks, grp # NoGroup) /\ grp \in GroupType \cup {NoGroup}
    /\ run = Nobody \/ (run \in Slot /\ tasks[run].state = "ready")
    /\ grp # NoGroup =>
          /\ \A i \in Slot : Alive(tasks[i]) \/ i = Leader =>
                tasks[i].fd = grp.fd /\ tasks[i].cwd = grp.cwd
          /\ run # Nobody => tasks[run].actions = grp.actions
    /\ Counted(TableOf(tasks, grp), fs)
    /\ \A i \in Slot : Alive(tasks[i]) => tasks[i].cwd \in fs.there \cup {Root}

\* With one signal nothing is left to deliver when a thread runs.
Settled(tasks, run) == run # Nobody => Due(tasks[run]) = {}

Inv == Sound(task, group, running, files)

\* What a call may leave to its end.  The thread's own copy of the table is
\* published then; but if a signal ends the program, the leader's is closed.
Callable(tasks, i, grouped, fs) ==
    /\ Tasks(tasks, grouped) /\ i \in Slot /\ Alive(tasks[i])
    /\ Counted(tasks[i].fd, fs) /\ tasks[i].cwd \in fs.there \cup {Root}
    /\ Fatal(tasks[i]) => Counted(tasks[Leader].fd, fs)

\* A thread that is not the leader, and is about to be ended by a signal, does
\* not open, duplicate or close a descriptor in that call.
FilesSettled ==
    (running # Leader /\ ((\E n \in Node : Open(n)) \/ \E d \in FD : Dup(d) \/ Close(d))) =>
        ~Fatal(Me)

-----------------------------------------------------------------------------
(***************************************************************************)
(* Sets of numbers, and of descriptors                                     *)
(***************************************************************************)
LEMMA LeastOf ==
    ASSUME NEW S \in SUBSET Nat, S # {}, IsFiniteSet(S)
    PROVE  \E x \in S : \A y \in S : x <= y
<1> DEFINE Below(x) == {y \in S : y <= x}
           All == {Below(x) : x \in S}
<1>1. All \subseteq FiniteSubsetsOf(S)
  BY FS_Subset DEF FiniteSubsetsOf
<1>2. PICK B \in All : \A C \in All : ~(<<C, B>> \in StrictSubsetOrdering(S))
  <2>1. All # {}
    OBVIOUS
  <2> HIDE DEF All
  <2> QED
    BY <1>1, <2>1, FS_StrictSubsetOrderingWellFounded, WFMin, Zenon
<1>3. PICK x \in S : B = Below(x)
  BY <1>2
<1>4. ASSUME NEW y \in S, y < x PROVE FALSE
  <2>1. x \in Nat /\ y \in Nat
    OBVIOUS
  <2>2. Below(y) \subseteq Below(x) /\ x \in Below(x) /\ x \notin Below(y)
    <3>1. (\A z \in S : z <= y => z <= x) /\ x <= x /\ ~(x <= y)
      BY <2>1, <1>4
    <3> QED
      BY <3>1, <2>1
  <2>3. Below(y) \in SUBSET S /\ Below(x) \in SUBSET S
    OBVIOUS
  <2>4. <<Below(y), Below(x)>> \in StrictSubsetOrdering(S)
    <3> HIDE DEF Below
    <3> QED
      BY <2>2, <2>3, Zenon DEF StrictSubsetOrdering
  <2> QED
    BY <1>2, <1>3, <2>4
<1> QED
  BY <1>4

LEMMA LowestIn ==
    ASSUME NEW S \in SUBSET Nat, S # {}, IsFiniteSet(S) PROVE Lowest(S) \in S
<1>1. \E x \in S : \A y \in S : x <= y
  BY LeastOf
<1> QED
  BY <1>1 DEF Lowest

LEMMA FDFinite ==
    /\ IsFiniteSet(FD) /\ Cardinality(FD) \in Nat /\ FD \in SUBSET Nat
    /\ \A S \in SUBSET FD : IsFiniteSet(S) /\ Cardinality(S) \in 0 .. Cardinality(FD)
<1>1. IsFiniteSet(FD) /\ Cardinality(FD) \in Nat /\ FD \in SUBSET Nat
  BY ThreadsAssumption, FS_CardinalityType
<1>2. ASSUME NEW S \in SUBSET FD PROVE IsFiniteSet(S) /\ Cardinality(S) \in 0 .. Cardinality(FD)
  <2>1. IsFiniteSet(S) /\ Cardinality(S) <= Cardinality(FD) /\ Cardinality(S) \in Nat
    BY <1>1, FS_Subset, FS_CardinalityType
  <2> QED
    BY <1>1, <2>1
<1> QED
  BY <1>1, <1>2

\* An entry more or less.
LEMMA OneMore ==
    ASSUME NEW S \in SUBSET FD, NEW d \in FD
    PROVE  /\ d \notin S => Cardinality(S \cup {d}) = Cardinality(S) + 1
           /\ d \in S => Cardinality(S \ {d}) = Cardinality(S) - 1
<1>1. IsFiniteSet(S)
  BY FDFinite
<1>2. d \notin S => Cardinality(S \cup {d}) = Cardinality(S) + 1
  BY <1>1, FS_AddElement
<1>3. d \in S => Cardinality(S \ {d}) = Cardinality(S) - 1
  BY <1>1, FS_RemoveElement
<1> QED
  BY <1>2, <1>3

Change(b) == IF b THEN 1 ELSE 0
Opens(table, d, n) == IF table[d].node = n THEN 1 ELSE 0
Shares(table, d, s) == IF table[d].share = s THEN 1 ELSE 0
\* Entry d of a table becomes e: the counts of what it was and of what it is change.
LEMMA OneEntry ==
    ASSUME NEW t, NEW u, NEW d \in FD, \A x \in FD \ {d} : u[x] = t[x], NEW n
    PROVE  /\ Cardinality(OfNode(u, n)) = Cardinality(OfNode(t, n)) + Opens(u, d, n) - Opens(t, d, n)
           /\ Cardinality(OfShare(u, n)) = Cardinality(OfShare(t, n)) + Shares(u, d, n) - Shares(t, d, n)
<1>1. ASSUME NEW A \in SUBSET FD, NEW B \in SUBSET FD, \A x \in FD \ {d} : x \in A <=> x \in B
      PROVE  Cardinality(B) = Cardinality(A) + Change(d \in B) - Change(d \in A)
  <2>1. Cardinality(A) \in Int /\ Cardinality(B) \in Int
    BY FDFinite
  <2>2. CASE d \in A /\ d \in B
    <3>1. A = B
      BY <1>1, <2>2
    <3> QED
      BY <2>1, <2>2, <3>1 DEF Change
  <2>3. CASE d \notin A /\ d \notin B
    <3>1. A = B
      BY <1>1, <2>3
    <3> QED
      BY <2>1, <2>3, <3>1 DEF Change
  <2>4. CASE d \in A /\ d \notin B
    <3>1. B = A \ {d}
      BY <1>1, <2>4
    <3> QED
      BY <2>1, <2>4, <3>1, OneMore DEF Change
  <2>5. CASE d \notin A /\ d \in B
    <3>1. B = A \cup {d}
      BY <1>1, <2>5
    <3> QED
      BY <2>1, <2>5, <3>1, OneMore DEF Change
  <2> QED
    BY <2>2, <2>3, <2>4, <2>5
<1>2. OfNode(t, n) \in SUBSET FD /\ OfNode(u, n) \in SUBSET FD
      /\ OfShare(t, n) \in SUBSET FD /\ OfShare(u, n) \in SUBSET FD
  BY DEF OfNode, OfShare
<1>3. \A x \in FD \ {d} : x \in OfNode(t, n) <=> x \in OfNode(u, n)
  BY DEF OfNode
<1>4. \A x \in FD \ {d} : x \in OfShare(t, n) <=> x \in OfShare(u, n)
  BY DEF OfShare
<1>5. /\ Change(d \in OfNode(u, n)) = Opens(u, d, n) /\ Change(d \in OfNode(t, n)) = Opens(t, d, n)
      /\ Change(d \in OfShare(u, n)) = Shares(u, d, n) /\ Change(d \in OfShare(t, n)) = Shares(t, d, n)
  BY DEF OfNode, OfShare, Change, Opens, Shares
<1> QED
  BY <1>1, <1>2, <1>3, <1>4, <1>5

LEMMA EntryParts ==
    ASSUME NEW t \in Descriptors, NEW d \in FD
    PROVE  /\ t[d] \in {Closed} \cup Entry /\ t[d].node \in Node \cup {0} /\ t[d].share \in Share \cup {0}
           /\ t[d] = Closed <=> t[d].node = 0
           /\ t[d].offset \in {0, 1}
<1>1. t[d] \in {Closed} \cup Entry
  BY DEF Descriptors, Entry
<1>2. 0 \notin Node /\ Closed.node = 0 /\ Closed.share = 0 /\ Closed.offset = 0
  BY ThreadsAssumption DEF Closed
<1>3. CASE t[d] \in Entry
  BY <1>2, <1>3 DEF Entry
<1> QED
  BY <1>1, <1>2, <1>3

\* Nothing is open, and nothing is counted.
LEMMA NothingOpen ==
    ASSUME NEW fs \in FilesType, \A n \in Node : fs.refs[n] = 0, \A s \in Share : fs.sharing[s] = 0
    PROVE  Counted(AllClosed, fs)
<1>1. AllClosed \in Descriptors /\ \A d \in FD : AllClosed[d] = Closed
  BY DEF AllClosed, Descriptors
<1>2. Closed.node = 0 /\ Closed.share = 0 /\ 0 \notin Node /\ 0 \notin Share
  BY ThreadsAssumption DEF Closed, Share
<1>3. \A n \in Node : OfNode(AllClosed, n) = {}
  BY <1>1, <1>2 DEF OfNode
<1>4. \A s \in Share : OfShare(AllClosed, s) = {}
  BY <1>1, <1>2 DEF OfShare
<1>5. Cardinality({}) = 0
  BY FS_EmptySet
<1> QED
  BY <1>1, <1>2, <1>3, <1>4, <1>5 DEF Counted

\* finish_notify leaves nothing behind.
LEMMA AllAreClosed ==
    ASSUME NEW table, NEW fs, Counted(table, fs)
    PROVE  Counted(AllClosed, ClosedAll(table, fs)) /\ ClosedAll(table, fs).there = fs.there
<1> DEFINE out == ClosedAll(table, fs)
<1>1. fs \in FilesType /\ \A n \in Node : fs.refs[n] = Cardinality(OfNode(table, n)) /\ fs.refs[n] \in Int
  BY DEF Counted, FilesType
<1>2. \A s \in Share : fs.sharing[s] = Cardinality(OfShare(table, s)) /\ fs.sharing[s] \in Int
  BY <1>1 DEF Counted, FilesType
<1>3. out = [fs EXCEPT !.refs = [n \in Node |-> fs.refs[n] - Cardinality(OfNode(table, n))],
                       !.sharing = [s \in Share |-> fs.sharing[s] - Cardinality(OfShare(table, s))]]
  BY DEF ClosedAll, OfNode, OfShare
<1>4. [n \in Node |-> fs.refs[n] - Cardinality(OfNode(table, n))] = [n \in Node |-> 0]
  BY <1>1
<1>5. [s \in Share |-> fs.sharing[s] - Cardinality(OfShare(table, s))] = [s \in Share |-> 0]
  BY <1>2
<1>6. out = [fs EXCEPT !.refs = [n \in Node |-> 0], !.sharing = [s \in Share |-> 0]]
  BY <1>3, <1>4, <1>5
<1> HIDE DEF out
<1>7. out \in FilesType /\ out.refs = [n \in Node |-> 0] /\ out.sharing = [s \in Share |-> 0]
      /\ out.there = fs.there
  <2>1. [n \in Node |-> 0] \in [Node -> Int] /\ [s \in Share |-> 0] \in [Share -> Int]
    OBVIOUS
  <2> DEFINE refs == [n \in Node |-> 0]
             sharing == [s \in Share |-> 0]
  <2> HIDE DEF refs, sharing
  <2>2. refs \in [Node -> Int] /\ sharing \in [Share -> Int] /\ out = [fs EXCEPT !.refs = refs, !.sharing = sharing]
    BY <1>6, <2>1 DEF refs, sharing
  <2>3. out \in FilesType /\ out.refs = refs /\ out.sharing = sharing /\ out.there = fs.there
    BY <1>1, <2>2 DEF FilesType
  <2> QED
    BY <2>3 DEF refs, sharing
<1> QED
  BY <1>7, NothingOpen DEF out

-----------------------------------------------------------------------------
(***************************************************************************)
(* Signals: what linux_pending makes of a task                             *)
(***************************************************************************)
Parts(t) ==
    /\ t.state \in {"free", "ready", "sleeping", "zombie"} /\ t.fd \in Descriptors
    /\ t.cwd \in Node \cup {Root} /\ t.futex \in Nat /\ t.actions \in Actions
    /\ t.pending \subseteq Signals /\ t.blocked \subseteq Signals
    /\ t.saved \in Seq(SUBSET Signals) /\ Len(t.saved) <= MaxDepth

LEMMA TaskParts == ASSUME NEW t, IsTask(t) PROVE t \in TaskType /\ Parts(t)
BY DEF IsTask, TaskType, Parts

LEMMA InterruptedOK ==
    ASSUME NEW t, IsTask(t)
    PROVE  /\ IsTask(Interrupted(t)) /\ Interrupted(t).fd = t.fd /\ Interrupted(t).cwd = t.cwd
           /\ Interrupted(t).pending = t.pending /\ Interrupted(t).blocked = t.blocked
           /\ Interrupted(t).actions = t.actions /\ Interrupted(t).saved = t.saved
           /\ Alive(t) <=> Alive(Interrupted(t))
           /\ t.state = "free" <=> Interrupted(t).state = "free"
           /\ t.state = "ready" => Interrupted(t) = t
<1> DEFINE v == [t EXCEPT !.state = "ready", !.futex = 0]
<1>1. t \in TaskType /\ Parts(t)
  BY TaskParts
<1>2. v \in TaskType
  BY <1>1 DEF TaskType
<1>3. /\ v.state = "ready" /\ v.fd = t.fd /\ v.cwd = t.cwd /\ v.pending = t.pending /\ v.blocked = t.blocked
      /\ v.actions = t.actions /\ v.saved = t.saved
  BY <1>1 DEF TaskType
<1>4. Interrupted(t) = IF t.state = "sleeping" /\ t.futex # 0 THEN v ELSE t
  BY DEF Interrupted
<1> HIDE DEF v
<1> QED
  BY <1>1, <1>2, <1>3, <1>4 DEF IsTask, Alive, Parts

LEMMA FiniteRange == ASSUME NEW n \in Nat PROVE IsFiniteSet(0 .. n)
BY FS_Interval

LEMMA ActingOK ==
    ASSUME NEW t, IsTask(t), Acting(t) # {} PROVE Lowest(Acting(t)) \in Acting(t) /\ Acting(t) \subseteq Signals
<1>1. Acting(t) \subseteq Signals
  BY TaskParts DEF Acting, Due, Parts
<1>2. Signals \subseteq 0 .. 64
  BY ThreadsAssumption
<1>3. IsFiniteSet(Acting(t)) /\ Acting(t) \in SUBSET Nat
  <2>1. IsFiniteSet(0 .. 64)
    BY FiniteRange, 64 \in Nat
  <2>2. Acting(t) \subseteq 0 .. 64
    BY <1>1, <1>2
  <2>3. 0 .. 64 \subseteq Nat
    OBVIOUS
  <2> HIDE DEF Acting
  <2> QED
    BY <2>1, <2>2, <2>3, FS_Subset
<1> QED
  BY <1>1, <1>3, LowestIn

LEMMA DeliveredOK ==
    ASSUME NEW t, IsTask(t), NEW s \in Signals, Len(t.saved) < MaxDepth
    PROVE  /\ IsTask(Delivered(t, s)) /\ Delivered(t, s).fd = t.fd /\ Delivered(t, s).cwd = t.cwd
           /\ Delivered(t, s).state = t.state /\ Delivered(t, s).pending = t.pending
           /\ t.blocked \subseteq Delivered(t, s).blocked
<1> DEFINE saved == Append(t.saved, t.blocked)
           blocked == t.blocked \cup {s}
           actions == IF t.actions[s] = "once" THEN [t.actions EXCEPT ![s] = "default"] ELSE t.actions
           v == [t EXCEPT !.saved = saved, !.blocked = blocked, !.actions = actions]
<1>1. t \in TaskType /\ Parts(t)
  BY TaskParts
<1>2. Delivered(t, s) = v
  BY DEF Delivered
<1>3. saved \in Seq(SUBSET Signals) /\ Len(saved) <= MaxDepth
  <2>1. t.saved \in Seq(SUBSET Signals) /\ t.blocked \in SUBSET Signals
    BY <1>1 DEF Parts
  <2>2. saved \in Seq(SUBSET Signals) /\ Len(saved) = Len(t.saved) + 1 /\ Len(t.saved) \in Nat
    BY <2>1, AppendProperties, LenProperties
  <2> QED
    BY <2>2, ThreadsAssumption
<1>4. actions \in Actions
  BY <1>1 DEF Parts, Actions
<1>5. blocked \in SUBSET Signals
  BY <1>1 DEF Parts
<1> HIDE DEF saved, blocked, actions
<1>6. v \in TaskType
  BY <1>1, <1>3, <1>4, <1>5 DEF TaskType
<1>7. /\ v.fd = t.fd /\ v.cwd = t.cwd /\ v.state = t.state /\ v.pending = t.pending
      /\ v.saved = saved /\ v.blocked = blocked
  BY <1>1 DEF TaskType
<1> HIDE DEF v
<1> QED
  BY <1>2, <1>3, <1>6, <1>7 DEF IsTask, blocked

\* linux_pending keeps the task's copies; and if there is one signal, it is gone.
LEMMA HandledOK ==
    ASSUME NEW t, IsTask(t)
    PROVE  /\ IsTask(Handled(t)) /\ Handled(t).fd = t.fd /\ Handled(t).cwd = t.cwd
           /\ Alive(t) => Alive(Handled(t))
           /\ t.state # "free" => Handled(t).state # "free"
           /\ (\A x, y \in Signals : x = y) => Due(Handled(t)) = {}
<1>1. t \in TaskType /\ Parts(t)
  BY TaskParts
<1>2. CASE Acting(t) = {}
  <2> DEFINE v == [t EXCEPT !.pending = t.pending \ Due(t)]
  <2>1. Handled(t) = v
    BY <1>2 DEF Handled
  <2>2. t.pending \ Due(t) \in SUBSET Signals
    BY <1>1 DEF Parts
  <2> HIDE DEF Due
  <2>3. v \in TaskType
    BY <1>1, <2>2 DEF TaskType
  <2>4. /\ v.fd = t.fd /\ v.cwd = t.cwd /\ v.state = t.state /\ v.saved = t.saved
        /\ v.pending = t.pending \ Due(t) /\ v.blocked = t.blocked
    BY <1>1 DEF TaskType
  <2> HIDE DEF v
  <2>5. Due(v) = {}
    BY <2>4 DEF Due
  <2> QED
    BY <1>1, <2>1, <2>3, <2>4, <2>5 DEF IsTask, Parts, Alive
<1>3. CASE Acting(t) # {}
  <2> DEFINE s == Lowest(Acting(t))
             i == Interrupted(t)
             pending == i.pending \ {x \in Due(t) : x <= s}
             u == [i EXCEPT !.pending = pending]
  <2>1. s \in Acting(t) /\ s \in Signals
    BY <1>3, ActingOK
  <2>2. /\ IsTask(i) /\ i.fd = t.fd /\ i.cwd = t.cwd /\ i.saved = t.saved
        /\ i.pending = t.pending /\ i.blocked = t.blocked
        /\ (Alive(t) <=> Alive(i)) /\ (t.state = "free" <=> i.state = "free")
    BY InterruptedOK
  <2>3. Handled(t) = IF Delivers(t, s) THEN Delivered(u, s) ELSE u
    BY <1>3 DEF Handled
  <2>4. i \in TaskType /\ pending \in SUBSET Signals
    BY <2>2, TaskParts DEF Parts
  <2>5. (\A x, y \in Signals : x = y) => pending \ t.blocked = {}
    <3>1. SUFFICES ASSUME \A x, y \in Signals : x = y, NEW z \in pending \ t.blocked PROVE FALSE
      OBVIOUS
    <3>2. z \in Due(t) /\ z \in Signals
      BY <2>2, <2>4, <3>1 DEF Due
    <3>3. z = s /\ s <= s
      BY <2>1, <3>1, <3>2, ThreadsAssumption
    <3> QED
      BY <3>1, <3>2, <3>3
  <2> HIDE DEF pending, i, s
  <2>6. u \in TaskType
    BY <2>4 DEF TaskType
  <2>7. /\ u.fd = i.fd /\ u.cwd = i.cwd /\ u.state = i.state /\ u.saved = i.saved
        /\ u.pending = pending /\ u.blocked = i.blocked
    BY <2>4 DEF TaskType
  <2> HIDE DEF u
  <2>8. IsTask(u) /\ u.saved = t.saved
    BY <2>2, <2>6, <2>7 DEF IsTask
  <2>9. CASE Delivers(t, s)
    <3>1. Len(u.saved) < MaxDepth
      BY <2>8, <2>9 DEF Delivers
    <3>2. /\ IsTask(Delivered(u, s)) /\ Delivered(u, s).fd = u.fd /\ Delivered(u, s).cwd = u.cwd
          /\ Delivered(u, s).state = u.state /\ Delivered(u, s).pending = u.pending
          /\ u.blocked \subseteq Delivered(u, s).blocked
      BY <2>1, <2>8, <3>1, DeliveredOK
    <3>3. (\A x, y \in Signals : x = y) => Due(Delivered(u, s)) = {}
      BY <2>2, <2>5, <2>7, <3>2 DEF Due
    <3> QED
      BY <2>2, <2>3, <2>7, <2>9, <3>2, <3>3 DEF Alive
  <2>10. CASE ~Delivers(t, s)
    <3>1. (\A x, y \in Signals : x = y) => Due(u) = {}
      BY <2>2, <2>5, <2>7 DEF Due
    <3> QED
      BY <2>2, <2>3, <2>7, <2>8, <2>10, <3>1 DEF Alive
  <2> QED
    BY <2>9, <2>10
<1> QED
  BY <1>2, <1>3

-----------------------------------------------------------------------------
(***************************************************************************)
(* The end of a call                                                       *)
(***************************************************************************)
LEMMA NotNoGroup == ASSUME NEW t PROVE Shared(t) # NoGroup /\ Shared(t).fd = t.fd
                                       /\ Shared(t).cwd = t.cwd /\ Shared(t).actions = t.actions
BY DEF Shared, NoGroup

LEMMA SharedTyped == ASSUME NEW t, IsTask(t) PROVE Shared(t) \in GroupType
BY TaskParts DEF Shared, GroupType, Parts

LEMMA SlotFacts == Leader \in Slot /\ Slot \in SUBSET Nat /\ Nobody \notin Slot /\ IsFiniteSet(Slot)
<1>1. Slots \in Nat \ {0} /\ Nobody \notin 1 .. Slots
  BY ThreadsAssumption
<1> QED
  BY <1>1, FS_Interval DEF Slot, Leader

LEMMA ZombieOK ==
    ASSUME NEW t, IsTask(t) PROVE IsTask(Zombie(t)) /\ Zombie(t).state = "zombie"
<1> DEFINE v == [t EXCEPT !.state = "zombie", !.fd = AllClosed]
<1>1. t \in TaskType /\ AllClosed \in Descriptors
  BY TaskParts DEF AllClosed, Descriptors
<1>2. v \in TaskType /\ v.saved = t.saved /\ v.state = "zombie"
  BY <1>1 DEF TaskType
<1> QED
  BY <1>2 DEF IsTask, Zombie

LEMMA FreeSlotOK == IsTask(FreeSlot) /\ ~Alive(FreeSlot)
<1>1. AllClosed \in Descriptors /\ [s \in Signals |-> "default"] \in Actions /\ <<>> \in Seq(SUBSET Signals)
  BY DEF AllClosed, Descriptors, Actions
<1>2. Len(<<>>) <= MaxDepth
  BY ThreadsAssumption
<1> DEFINE actions == [s \in Signals |-> "default"]
<1> HIDE DEF actions
<1>3. FreeSlot = [state |-> "free", fd |-> AllClosed, cwd |-> Root, futex |-> 0,
             actions |-> actions, pending |-> {}, blocked |-> {}, saved |-> <<>>]
  BY DEF FreeSlot, actions
<1>4. actions \in Actions
  BY <1>1 DEF actions
<1>5. FreeSlot \in TaskType
  BY <1>1, <1>3, <1>4 DEF TaskType
<1> QED
  BY <1>2, <1>3, <1>5 DEF IsTask, Alive

\* The program ends: everything is closed once, from the leader's copy.
LEMMA TerminatedSound ==
    ASSUME NEW tasks, Tasks(tasks, TRUE), NEW fs, Counted(tasks[Leader].fd, fs), Terminated(tasks, fs)
    PROVE  Inv' /\ running' = Nobody
<1>1. /\ task' = [i \in Slot |-> IF tasks[i].state = "free" THEN tasks[i] ELSE Zombie(tasks[i])]
      /\ group' = NoGroup /\ running' = Nobody /\ files' = ClosedAll(tasks[Leader].fd, fs)
  BY DEF Terminated
<1>2. \A i \in Slot : IsTask(task'[i]) /\ ~Alive(task'[i])
  BY <1>1, ZombieOK DEF Tasks, Alive
<1>3. task'[Leader].state = "zombie" /\ DOMAIN task' = Slot
  BY <1>1, SlotFacts, ZombieOK DEF Tasks
<1>4. Tasks(task', FALSE)
  BY <1>2, <1>3 DEF Tasks
<1>5. TableOf(task', group') = AllClosed
  BY <1>1, <1>3 DEF TableOf, Over
<1>6. Counted(AllClosed, files')
  BY <1>1, AllAreClosed
<1>7. Sound(task', group', running', files')
  BY <1>1, <1>2, <1>4, <1>5, <1>6 DEF Sound
<1> QED
  BY <1>1, <1>7 DEF Inv

\* The others get the table and the directory of i.
LEMMA PublishedOK ==
    ASSUME NEW tasks, Tasks(tasks, TRUE), NEW i \in Slot
    PROVE  /\ Tasks(Published(tasks, i), TRUE) /\ Published(tasks, i)[i] = tasks[i]
           /\ \A j \in Slot : /\ Published(tasks, i)[j].state = tasks[j].state
                              /\ tasks[j].state # "free" => /\ Published(tasks, i)[j].fd = tasks[i].fd
                                                            /\ Published(tasks, i)[j].cwd = tasks[i].cwd
<1> DEFINE out == Published(tasks, i)
<1>1. DOMAIN tasks = Slot /\ (\A j \in Slot : IsTask(tasks[j])) /\ tasks[Leader].state # "free"
  BY DEF Tasks
<1>2. tasks[i].fd \in Descriptors /\ tasks[i].cwd \in Node \cup {Root}
  BY <1>1, TaskParts DEF Parts
<1>3. out = [j \in Slot |-> IF j = i \/ tasks[j].state = "free" THEN tasks[j]
                  ELSE [tasks[j] EXCEPT !.fd = tasks[i].fd, !.cwd = tasks[i].cwd]]
  BY DEF Published
<1> HIDE DEF out
<1>4. ASSUME NEW j \in Slot
      PROVE  /\ IsTask(out[j]) /\ out[j].state = tasks[j].state
             /\ tasks[j].state # "free" => out[j].fd = tasks[i].fd /\ out[j].cwd = tasks[i].cwd
  <2> DEFINE v == [tasks[j] EXCEPT !.fd = tasks[i].fd, !.cwd = tasks[i].cwd]
  <2>1. tasks[j] \in TaskType
    BY <1>1, TaskParts
  <2>2. v \in TaskType /\ v.state = tasks[j].state /\ v.saved = tasks[j].saved
        /\ v.fd = tasks[i].fd /\ v.cwd = tasks[i].cwd
    BY <1>2, <2>1 DEF TaskType
  <2>3. out[j] = IF j = i \/ tasks[j].state = "free" THEN tasks[j] ELSE v
    BY <1>3
  <2> HIDE DEF v
  <2> QED
    BY <1>1, <2>2, <2>3 DEF IsTask
<1>5. out[i] = tasks[i] /\ DOMAIN out = Slot
  BY <1>3
<1>6. Tasks(out, TRUE)
  BY <1>1, <1>4, <1>5, SlotFacts DEF Tasks
<1> QED
  BY <1>4, <1>5, <1>6 DEF out

\* The table is published, and the call goes on or sleeps.
LEMMA LeftSound ==
    ASSUME NEW tasks, NEW i \in Slot, NEW grouped \in BOOLEAN, Tasks(tasks, grouped), Alive(tasks[i]),
           NEW fs, Counted(tasks[i].fd, fs), tasks[i].cwd \in fs.there \cup {Root},
           Left(tasks, i, grouped, fs)
    PROVE  /\ Inv' /\ running' \in {i, Nobody}
           /\ running' # Nobody => task'[running'].pending = tasks[i].pending /\ task'[running'].blocked = tasks[i].blocked
<1>1. /\ task' = IF grouped THEN Published(tasks, i) ELSE tasks
      /\ group' = IF grouped THEN Shared(tasks[i]) ELSE NoGroup
      /\ running' = IF tasks[i].state = "ready" THEN i ELSE Nobody
      /\ files' = fs
  BY DEF Left
<1>2. DOMAIN tasks = Slot /\ (\A j \in Slot : IsTask(tasks[j])) /\ tasks[Leader].state # "free"
  BY DEF Tasks
<1>3. tasks[i].fd \in Descriptors /\ tasks[i].cwd \in Node \cup {Root}
  BY <1>2, TaskParts DEF Parts
<1>4. CASE grouped
  <2>1. task' = Published(tasks, i) /\ group' = Shared(tasks[i]) /\ Tasks(tasks, TRUE)
    BY <1>1, <1>4 DEF Tasks
  <2>2. \A j \in Slot : /\ task'[j].state = tasks[j].state
                        /\ tasks[j].state # "free" => task'[j].fd = tasks[i].fd /\ task'[j].cwd = tasks[i].cwd
    BY <2>1, PublishedOK, ZenonT(40)
  <2>3. task'[i] = tasks[i]
    BY <2>1, PublishedOK
  <2>4. Tasks(task', TRUE)
    BY <2>1, PublishedOK
  <2>5. \A j \in Slot : Alive(task'[j]) \/ j = Leader => tasks[j].state # "free"
    BY <1>2, <2>2 DEF Alive
  <2>6. group' # NoGroup /\ group' \in GroupType /\ group'.fd = tasks[i].fd /\ group'.cwd = tasks[i].cwd
        /\ group'.actions = tasks[i].actions
    BY <1>2, <2>1, NotNoGroup, SharedTyped
  <2>7. TableOf(task', group') = tasks[i].fd
    BY <2>6 DEF TableOf, Over
  <2>8. Sound(task', group', running', files')
    BY <1>1, <2>2, <2>3, <2>4, <2>5, <2>6, <2>7 DEF Sound
  <2> QED
    BY <1>1, <2>3, <2>8, SlotFacts DEF Inv
<1>5. CASE ~grouped
  <2>1. task' = tasks /\ group' = NoGroup
    BY <1>1, <1>5
  <2>2. i = Leader /\ ~Over(task', group')
    BY <1>5, <2>1 DEF Tasks, Over, Alive
  <2>3. TableOf(task', group') = tasks[i].fd
    BY <2>1, <2>2 DEF TableOf
  <2>4. \A j \in Slot : Alive(tasks[j]) => j = i
    BY <1>5, <2>2 DEF Tasks
  <2>5. Tasks(task', group' # NoGroup)
    BY <1>5, <2>1 DEF Tasks
  <2>6. Sound(task', group', running', files')
    BY <1>1, <2>1, <2>3, <2>4, <2>5 DEF Sound
  <2> QED
    BY <1>1, <2>1, <2>6 DEF Inv
<1> QED
  BY <1>4, <1>5

LEMMA ReturnedSound ==
    ASSUME NEW tasks, NEW i, NEW grouped \in BOOLEAN, NEW fs, Callable(tasks, i, grouped, fs),
           Returned(tasks, i, grouped, fs)
    PROVE  /\ Inv' /\ running' \in {i, Nobody}
           /\ (\A x, y \in Signals : x = y) => Settled(task', running')
<1> DEFINE all == [tasks EXCEPT ![i] = Handled(tasks[i])]
<1>1. /\ Tasks(tasks, grouped) /\ i \in Slot /\ Alive(tasks[i])
      /\ Counted(tasks[i].fd, fs) /\ tasks[i].cwd \in fs.there \cup {Root}
      /\ Fatal(tasks[i]) => Counted(tasks[Leader].fd, fs)
  BY DEF Callable
<1>2. IF Fatal(tasks[i]) THEN Terminated(all, fs) ELSE Left(all, i, grouped, fs)
  BY DEF Returned
<1>3. /\ DOMAIN all = Slot /\ all[i] = Handled(tasks[i]) /\ \A j \in Slot \ {i} : all[j] = tasks[j]
  BY <1>1 DEF Tasks
<1>4. /\ IsTask(Handled(tasks[i])) /\ Handled(tasks[i]).fd = tasks[i].fd /\ Handled(tasks[i]).cwd = tasks[i].cwd
      /\ Alive(Handled(tasks[i])) /\ Handled(tasks[i]).state # "free"
      /\ (\A x, y \in Signals : x = y) => Due(Handled(tasks[i])) = {}
  BY <1>1, HandledOK DEF Tasks, Alive
<1> HIDE DEF all
<1>5. \A j \in Slot : /\ IsTask(all[j]) /\ all[j].fd = tasks[j].fd
                      /\ Alive(all[j]) => Alive(tasks[j])
                      /\ tasks[j].state # "free" => all[j].state # "free"
  BY <1>1, <1>3, <1>4 DEF Tasks
<1>6. Tasks(all, grouped)
  BY <1>1, <1>3, <1>5, SlotFacts DEF Tasks
<1>7. CASE Fatal(tasks[i])
  <2>1. Tasks(all, TRUE) /\ Counted(all[Leader].fd, fs)
    BY <1>1, <1>5, <1>6, <1>7, SlotFacts DEF Tasks
  <2> QED
    BY <1>2, <1>7, <2>1, TerminatedSound DEF Settled
<1>8. CASE ~Fatal(tasks[i])
  <2>1. /\ Inv' /\ running' \in {i, Nobody}
        /\ running' # Nobody => task'[running'].pending = all[i].pending /\ task'[running'].blocked = all[i].blocked
    BY <1>1, <1>2, <1>3, <1>4, <1>6, <1>8, LeftSound
  <2> QED
    BY <1>3, <1>4, <2>1 DEF Settled, Due
<1> QED
  BY <1>7, <1>8

-----------------------------------------------------------------------------
(***************************************************************************)
(* The thread that calls, and the others                                   *)
(***************************************************************************)
\* A live thread sees the table at entry, which is what is counted.
LEMMA EnteredOK ==
    ASSUME Inv, NEW i \in Slot, Alive(task[i])
    PROVE  /\ IsTask(Entered(task[i])) /\ Entered(task[i]).state = task[i].state
           /\ Counted(Entered(task[i]).fd, files) /\ Entered(task[i]).cwd \in files.there \cup {Root}
           /\ task[Leader].fd = Entered(task[i]).fd
           /\ group # NoGroup => Entered(task[i]).actions = group.actions
           /\ Entered(task[i]).blocked = task[i].blocked /\ Entered(task[i]).pending = task[i].pending
           /\ group = NoGroup => i = Leader
<1>1. /\ Tasks(task, group # NoGroup) /\ group \in GroupType \cup {NoGroup}
      /\ group # NoGroup => \A j \in Slot : Alive(task[j]) \/ j = Leader =>
                               task[j].fd = group.fd /\ task[j].cwd = group.cwd
      /\ Counted(TableOf(task, group), files)
      /\ \A j \in Slot : Alive(task[j]) => task[j].cwd \in files.there \cup {Root}
  BY DEF Inv, Sound
<1>2. IsTask(task[i]) /\ task[i] \in TaskType /\ Leader \in Slot
  BY <1>1, TaskParts, SlotFacts DEF Tasks
<1>3. CASE group = NoGroup
  <2>1. i = Leader /\ Entered(task[i]) = task[i]
    BY <1>1, <1>3 DEF Tasks, Entered
  <2>2. TableOf(task, group) = task[i].fd
    BY <1>3, <2>1 DEF TableOf, Over, Alive
  <2> QED
    BY <1>1, <1>2, <1>3, <2>1, <2>2
<1>4. CASE group # NoGroup
  <2> DEFINE v == [task[i] EXCEPT !.fd = group.fd, !.cwd = group.cwd, !.actions = group.actions]
  <2>1. group \in GroupType /\ Entered(task[i]) = v /\ TableOf(task, group) = group.fd
    BY <1>1, <1>4 DEF Entered, TableOf, Over
  <2>2. group.fd \in Descriptors /\ group.cwd \in Node \cup {Root} /\ group.actions \in Actions
    BY <2>1 DEF GroupType
  <2>3. /\ v \in TaskType /\ v.fd = group.fd /\ v.cwd = group.cwd /\ v.actions = group.actions
        /\ v.saved = task[i].saved /\ v.pending = task[i].pending /\ v.blocked = task[i].blocked
        /\ v.state = task[i].state
    BY <1>2, <2>2 DEF TaskType
  <2> HIDE DEF v
  <2>4. task[i].cwd = group.cwd /\ task[Leader].fd = group.fd
    BY <1>1, <1>2, <1>4
  <2>5. IsTask(v)
    BY <1>2, <2>3 DEF IsTask
  <2> QED
    BY <1>1, <1>4, <2>1, <2>3, <2>4, <2>5
<1> QED
  BY <1>3, <1>4

LEMMA Running ==
    ASSUME Inv, running # Nobody
    PROVE  running \in Slot /\ task[running].state = "ready" /\ Alive(task[running])
           /\ IsTask(task[running])
BY DEF Inv, Sound, Tasks, Alive

LEMMA MeOK ==
    ASSUME Inv, running # Nobody
    PROVE  /\ IsTask(Me) /\ Me.state = "ready" /\ Alive(Me)
           /\ Counted(Me.fd, files) /\ Me.cwd \in files.there \cup {Root}
           /\ task[Leader].fd = Me.fd
           /\ group # NoGroup => Me.actions = group.actions
           /\ Me.pending = task[running].pending /\ Me.blocked = task[running].blocked
           /\ group = NoGroup => running = Leader
BY EnteredOK, Running DEF Me, Alive

\* The others, whatever a call of i has made of their waits and signals.
Others(tasks, i, grouped) ==
    /\ DOMAIN tasks = Slot
    /\ \A j \in Slot \ {i} :
          /\ IsTask(tasks[j]) /\ (~grouped => ~Alive(tasks[j]))
          /\ j = Leader => tasks[j].fd = task[j].fd /\ tasks[j].state # "free"

LEMMA ReapedOK ==
    ASSUME Inv
    PROVE  /\ DOMAIN Reaped(task) = Slot
           /\ \A j \in Slot : /\ IsTask(Reaped(task)[j]) /\ (group = NoGroup /\ j # Leader => ~Alive(Reaped(task)[j]))
                              /\ Alive(task[j]) \/ j = Leader \/ j = running => Reaped(task)[j] = task[j]
                              /\ Reaped(task)[j] = task[j] \/ Reaped(task)[j] = FreeSlot
           /\ Tasks(task, group # NoGroup) /\ Tasks(Reaped(task), group # NoGroup)
<1>1. Tasks(task, group # NoGroup)
  BY DEF Inv, Sound
<1>2. DOMAIN Reaped(task) = Slot /\
      \A j \in Slot : Reaped(task)[j] = IF j \notin {Leader, running} /\ task[j].state = "zombie"
                                        THEN FreeSlot ELSE task[j]
  BY DEF Reaped
<1>3. \A j \in Slot : /\ IsTask(Reaped(task)[j]) /\ (group = NoGroup /\ j # Leader => ~Alive(Reaped(task)[j]))
                      /\ Alive(task[j]) \/ j = Leader \/ j = running => Reaped(task)[j] = task[j]
                      /\ Reaped(task)[j] = task[j] \/ Reaped(task)[j] = FreeSlot
  BY <1>1, <1>2, FreeSlotOK DEF Tasks, Alive
<1>4. Tasks(Reaped(task), group # NoGroup)
  BY <1>1, <1>2, <1>3, SlotFacts DEF Tasks
<1> QED
  BY <1>1, <1>2, <1>3, <1>4

LEMMA OthersOK ==
    ASSUME Inv, NEW i \in Slot, NEW t, group = NoGroup => i = Leader
    PROVE  /\ Others([Reaped(task) EXCEPT ![i] = t], i, group # NoGroup)
           /\ [Reaped(task) EXCEPT ![i] = t][i] = t
           /\ \A j \in Slot \ {i} : [Reaped(task) EXCEPT ![i] = t][j] = Reaped(task)[j]
<1> DEFINE tasks == [Reaped(task) EXCEPT ![i] = t]
<1>1. DOMAIN tasks = Slot /\ tasks[i] = t /\ \A j \in Slot \ {i} : tasks[j] = Reaped(task)[j]
  BY ReapedOK
<1>2. task[Leader].state # "free"
  BY ReapedOK DEF Tasks
<1> HIDE DEF tasks
<1>3. Others(tasks, i, group # NoGroup)
  BY <1>1, <1>2, ReapedOK, SlotFacts DEF Others
<1> QED
  BY <1>1, <1>3 DEF tasks

LEMMA WithOK ==
    ASSUME Inv, running # Nobody, NEW t
    PROVE  /\ Others(With(t), running, group # NoGroup) /\ With(t)[running] = t
           /\ \A j \in Slot \ {running} : With(t)[j] = Reaped(task)[j]
BY OthersOK, Running, MeOK DEF With

\* The call may come to its end.
LEMMA CallOK ==
    ASSUME Inv, NEW i \in Slot, NEW tasks, NEW grouped \in BOOLEAN, Others(tasks, i, grouped),
           ~grouped => i = Leader,
           IsTask(tasks[i]), Alive(tasks[i]), NEW fs,
           Counted(tasks[i].fd, fs), tasks[i].cwd \in fs.there \cup {Root},
           Fatal(tasks[i]) /\ i # Leader => Counted(task[Leader].fd, fs)
    PROVE  Callable(tasks, i, grouped, fs)
<1>1. Tasks(tasks, grouped)
  <2>1. \A j \in Slot : IsTask(tasks[j])
    BY DEF Others
  <2>2. tasks[Leader].state # "free"
    BY SlotFacts DEF Others, Alive
  <2> QED
    BY <2>1, <2>2 DEF Tasks, Others
<1>2. Fatal(tasks[i]) => Counted(tasks[Leader].fd, fs)
  BY SlotFacts DEF Others
<1> QED
  BY <1>1, <1>2 DEF Callable

One == \A x, y \in Signals : x = y
\* What a step leaves behind.
Kept == Inv' /\ (One => Settled(task', running'))

LEMMA Answered ==
    ASSUME NEW tasks, NEW i, NEW grouped \in BOOLEAN, NEW fs, Callable(tasks, i, grouped, fs),
           Returned(tasks, i, grouped, fs)
    PROVE  Kept
BY ReturnedSound DEF Kept, One

\* A call that leaves files alone.
LEMMA PlainCall ==
    ASSUME Inv, running # Nobody, NEW tasks, Others(tasks, running, group # NoGroup),
           IsTask(tasks[running]), Alive(tasks[running]),
           \E d \in Descriptors : tasks[running].fd = d /\ Counted(d, files),
           tasks[running].cwd \in files.there \cup {Root},
           Returned(tasks, running, group # NoGroup, files)
    PROVE  Kept
<1>1. Callable(tasks, running, group # NoGroup, files)
  BY CallOK, MeOK, Running
<1> QED
  BY <1>1, Answered

\* The same, of one that changes no more than the caller's own record.
LEMMA OwnCall ==
    ASSUME Inv, running # Nobody, NEW t, IsTask(t), Alive(t), t.fd = Me.fd, t.cwd = Me.cwd,
           Return(t, files)
    PROVE  Kept
<1>1. /\ Others(With(t), running, group # NoGroup) /\ With(t)[running] = t
      /\ Counted(Me.fd, files) /\ Me.cwd \in files.there \cup {Root}
      /\ Me.fd \in Descriptors
  BY WithOK, MeOK DEF Counted
<1> QED
  BY <1>1, PlainCall DEF Return

-----------------------------------------------------------------------------
(***************************************************************************)
(* Steps: the scheduler, signals                                           *)
(***************************************************************************)
LEMMA Scheduling == ASSUME Inv, NEW i \in Slot, ScheduleTo(i) PROVE Kept
<1> DEFINE t == Entered(task[i])
           tasks == [Reaped(task) EXCEPT ![i] = t]
<1>1. task[i].state = "ready" /\ Alive(task[i])
  BY DEF ScheduleTo, Alive
<1>2. tasks = [Reaped(task) EXCEPT ![i] = Entered(@)]
  BY <1>1, ReapedOK
<1>3. Returned(tasks, i, group # NoGroup, files)
  BY <1>2 DEF ScheduleTo
<1>4. /\ IsTask(t) /\ Alive(t) /\ Counted(t.fd, files) /\ t.cwd \in files.there \cup {Root}
      /\ group = NoGroup => i = Leader
      /\ task[Leader].fd = t.fd
  BY <1>1, EnteredOK DEF Alive
<1> HIDE DEF t
<1>5. Others(tasks, i, group # NoGroup) /\ tasks[i] = t
  BY <1>4, OthersOK
<1> HIDE DEF tasks
<1>6. Callable(tasks, i, group # NoGroup, files)
  BY <1>4, <1>5, CallOK
<1> QED
  BY <1>3, <1>6, Answered

LEMMA Unchanged ==
    ASSUME Inv, One => Settled(task, running), UNCHANGED <<task, group, files>>,
           running' \in {running, Nobody}
    PROVE  Kept
BY DEF Inv, Sound, Kept, Settled

LEMMA Preempting == ASSUME Inv, One => Settled(task, running), Preempt PROVE Kept
BY Unchanged DEF Preempt

LEMMA Idles == ASSUME Inv, One => Settled(task, running), idle_once PROVE Kept
BY Unchanged DEF idle_once, threads

LEMMA Sigactions ==
    ASSUME Inv, NEW s \in Signals, NEW a \in {"default", "ignore", "handler", "once"}, Sigaction(s, a)
    PROVE  Kept
<1> DEFINE actions == [Me.actions EXCEPT ![s] = a]
           t == [Me EXCEPT !.actions = actions]
<1>1. running # Nobody /\ Return(t, files)
  BY DEF Sigaction
<1>2. IsTask(Me) /\ Me \in TaskType /\ Alive(Me)
  BY <1>1, MeOK, TaskParts
<1>3. actions \in Actions
  BY <1>2 DEF TaskType, Actions
<1> HIDE DEF actions
<1>4. t \in TaskType /\ t.saved = Me.saved /\ t.fd = Me.fd /\ t.cwd = Me.cwd /\ t.state = Me.state
  BY <1>2, <1>3 DEF TaskType
<1> HIDE DEF t
<1> QED
  BY <1>1, <1>2, <1>4, OwnCall DEF IsTask, Alive

LEMMA Sigprocmasks == ASSUME Inv, NEW m \in SUBSET Signals, Sigprocmask(m) PROVE Kept
<1> DEFINE t == [Me EXCEPT !.blocked = m]
<1>1. running # Nobody /\ Return(t, files)
  BY DEF Sigprocmask
<1>2. IsTask(Me) /\ Me \in TaskType /\ Alive(Me)
  BY <1>1, MeOK, TaskParts
<1>3. t \in TaskType /\ t.saved = Me.saved /\ t.fd = Me.fd /\ t.cwd = Me.cwd /\ t.state = Me.state
  BY <1>2 DEF TaskType
<1> HIDE DEF t
<1> QED
  BY <1>1, <1>2, <1>3, OwnCall DEF IsTask, Alive

LEMMA LastAndFront ==
    ASSUME NEW S, NEW q \in Seq(S), q # <<>>
    PROVE  Last(q) \in S /\ Front(q) \in Seq(S) /\ Len(Front(q)) = Len(q) - 1
<1>1. Len(q) \in Nat \ {0}
  BY EmptySeq, LenProperties
<1>2. Last(q) \in S
  BY <1>1, LenProperties DEF Last
<1>3. Front(q) \in Seq(S) /\ Len(Front(q)) = Len(q) - 1
  <2>1. 1 \in Int /\ Len(q) - 1 \in Int /\ \A i \in 1 .. Len(q) - 1 : q[i] \in S
    BY <1>1, LenProperties
  <2>2. SubSeq(q, 1, Len(q) - 1) \in Seq(S)
        /\ Len(SubSeq(q, 1, Len(q) - 1)) = IF 1 <= Len(q) - 1 THEN (Len(q) - 1) - 1 + 1 ELSE 0
    BY <2>1, SubSeqProperties
  <2>3. Len(SubSeq(q, 1, Len(q) - 1)) = Len(q) - 1
    <3> DEFINE k == Len(q)
    <3>1. k \in Int /\ k >= 1
      BY <1>1
    <3> HIDE DEF k
    <3>2. (IF 1 <= k - 1 THEN (k - 1) - 1 + 1 ELSE 0) = k - 1
      BY <3>1
    <3> QED
      BY <2>2, <3>2 DEF k
  <2> QED
    BY <2>2, <2>3 DEF Front
<1> QED
  BY <1>2, <1>3

LEMMA Sigreturns == ASSUME Inv, Sigreturn PROVE Kept
<1> DEFINE front == Front(Me.saved)
           blocked == Last(Me.saved)
           t == [Me EXCEPT !.blocked = blocked, !.saved = front]
<1>1. running # Nobody /\ Return(t, files) /\ Me.saved # <<>>
  BY DEF Sigreturn
<1>2. IsTask(Me) /\ Me \in TaskType /\ Alive(Me) /\ Parts(Me)
  BY <1>1, MeOK, TaskParts
<1>3. front \in Seq(SUBSET Signals) /\ blocked \in SUBSET Signals /\ Len(front) <= MaxDepth
  <2>1. Me.saved \in Seq(SUBSET Signals) /\ Len(Me.saved) <= MaxDepth /\ Len(Me.saved) \in Nat
    BY <1>2 DEF Parts
  <2>2. blocked \in SUBSET Signals /\ front \in Seq(SUBSET Signals) /\ Len(front) = Len(Me.saved) - 1
    BY <1>1, <2>1, LastAndFront
  <2> QED
    BY <2>1, <2>2, ThreadsAssumption
<1> HIDE DEF front, blocked
<1>4. t \in TaskType /\ t.saved = front /\ t.fd = Me.fd /\ t.cwd = Me.cwd /\ t.state = Me.state
  BY <1>2, <1>3 DEF TaskType
<1> HIDE DEF t
<1> QED
  BY <1>1, <1>2, <1>3, <1>4, OwnCall DEF IsTask, Alive

LEMMA Killing == ASSUME Inv, NEW i \in Slot, NEW s \in Signals, Tgkill(i, s) PROVE Kept
<1> DEFINE own == With(Me)
           pending == own[i].pending \cup {s}
           t == [own[i] EXCEPT !.pending = pending]
           u == IF s \in t.blocked \/ Me.actions[s] = "ignore" THEN t ELSE Interrupted(t)
           tasks == [own EXCEPT ![i] = u]
<1>1. running # Nobody /\ task[i].state \notin {"free", "zombie"}
      /\ Returned(tasks, running, group # NoGroup, files)
  BY DEF Tgkill
<1>2. IsTask(Me) /\ Alive(Me) /\ Me.state = "ready" /\ Counted(Me.fd, files) /\ Me.cwd \in files.there \cup {Root}
      /\ running \in Slot
  BY <1>1, MeOK, Running
<1>3. Others(own, running, group # NoGroup) /\ own[running] = Me
      /\ \A j \in Slot \ {running} : own[j] = Reaped(task)[j]
  BY <1>1, WithOK
<1>4. Alive(task[i]) /\ Reaped(task)[i] = task[i]
  <2>1. IsTask(task[i])
    BY ReapedOK DEF Tasks
  <2>2. Alive(task[i])
    BY <1>1, <2>1, TaskParts DEF Parts, Alive
  <2> QED
    BY <2>2, ReapedOK
<1>5. IsTask(own[i]) /\ Alive(own[i]) /\ DOMAIN own = Slot
  BY <1>2, <1>3, <1>4 DEF Others
<1> HIDE DEF own
<1>6. own[i] \in TaskType /\ pending \in SUBSET Signals
  BY <1>5, TaskParts DEF Parts
<1> HIDE DEF pending
<1>7. /\ t \in TaskType /\ t.saved = own[i].saved /\ t.fd = own[i].fd /\ t.cwd = own[i].cwd
      /\ t.state = own[i].state
  BY <1>6 DEF TaskType
<1> HIDE DEF t
<1>8. IsTask(t) /\ Alive(t)
  BY <1>5, <1>7 DEF IsTask, Alive
<1>9. /\ IsTask(u) /\ Alive(u) /\ u.fd = own[i].fd /\ u.cwd = own[i].cwd
  BY <1>7, <1>8, InterruptedOK
<1> HIDE DEF u
<1>10. DOMAIN tasks = Slot /\ tasks[i] = u /\ \A j \in Slot \ {i} : tasks[j] = own[j]
  BY <1>5
<1> HIDE DEF tasks
<1>11. Others(tasks, running, group # NoGroup)
  BY <1>3, <1>5, <1>9, <1>10 DEF Others, Alive
<1>12. /\ IsTask(tasks[running]) /\ Alive(tasks[running]) /\ tasks[running].fd = Me.fd
       /\ tasks[running].cwd = Me.cwd
  BY <1>2, <1>3, <1>9, <1>10
<1> QED
  BY <1>1, <1>2, <1>11, <1>12, PlainCall DEF Counted

LEMMA Faulting == ASSUME Inv, One => Settled(task, running), NEW s \in Signals, Fault(s) PROVE Kept
<1> DEFINE t == task[running]
<1>1. running # Nobody /\ running \in Slot /\ IsTask(t) /\ Alive(t) /\ t.state = "ready"
  BY Running DEF Fault
<1>2. /\ Counted(Me.fd, files) /\ task[Leader].fd = Me.fd /\ t.cwd \in files.there \cup {Root}
      /\ t.fd = Me.fd
  <2>1. /\ Tasks(task, group # NoGroup)
        /\ group # NoGroup => t.fd = group.fd /\ task[Leader].fd = group.fd
        /\ t.cwd \in files.there \cup {Root}
    BY <1>1, SlotFacts DEF Inv, Sound
  <2> QED
    BY <1>1, <2>1, MeOK
<1>3. Tasks(task, group # NoGroup) /\ Tasks(task, TRUE)
  BY ReapedOK DEF Tasks
<1>4. CASE Delivers(t, s)
  <2> DEFINE d == Delivered(t, s)
             tasks == [task EXCEPT ![running] = d]
  <2>1. Left(tasks, running, group # NoGroup, files)
    BY <1>4 DEF Fault
  <2>2. /\ IsTask(d) /\ d.fd = t.fd /\ d.cwd = t.cwd /\ d.state = t.state
        /\ d.pending = t.pending /\ t.blocked \subseteq d.blocked
    BY <1>1, <1>4, DeliveredOK DEF Delivers
  <2> HIDE DEF d
  <2>3. DOMAIN tasks = Slot /\ tasks[running] = d /\ \A j \in Slot \ {running} : tasks[j] = task[j]
    BY <1>1, <1>3 DEF Tasks
  <2> HIDE DEF tasks
  <2>4. Tasks(tasks, group # NoGroup)
    BY <1>1, <1>3, <2>2, <2>3, SlotFacts DEF Tasks, Alive
  <2>5. Alive(tasks[running]) /\ Counted(tasks[running].fd, files) /\ tasks[running].cwd \in files.there \cup {Root}
    BY <1>1, <1>2, <2>2, <2>3 DEF Alive
  <2>6. /\ Inv' /\ running' \in {running, Nobody}
        /\ running' # Nobody => task'[running'].pending = d.pending /\ task'[running'].blocked = d.blocked
    BY <1>1, <2>1, <2>3, <2>4, <2>5, LeftSound
  <2>7. Settled(task, running) => Settled(task', running')
    BY <1>1, <2>2, <2>6 DEF Settled, Due
  <2> QED
    BY <2>6, <2>7 DEF Kept
<1>5. CASE ~Delivers(t, s)
  <2>1. Terminated(task, files)
    BY <1>5 DEF Fault
  <2> QED
    BY <1>2, <1>3, <2>1, TerminatedSound DEF Kept, Settled
<1> QED
  BY <1>4, <1>5

-----------------------------------------------------------------------------
(***************************************************************************)
(* Steps: threads                                                          *)
(***************************************************************************)
LEMMA LowestVacant == Vacant # {} => Lowest(Vacant) \in Slot /\ With(Me)[Lowest(Vacant)].state = "free"
<1>1. Vacant \in SUBSET Slot /\ IsFiniteSet(Vacant) /\ Vacant \in SUBSET Nat
  BY SlotFacts, FS_Subset DEF Vacant
<1>2. Vacant # {} => Lowest(Vacant) \in Vacant
  BY <1>1, LowestIn
<1> QED
  BY <1>2 DEF Vacant

LEMMA CloningInto ==
    ASSUME Inv, running # Nobody, NEW i \in Slot, With(Me)[i].state = "free", CloneInto(i)
    PROVE  Kept
<1> DEFINE own == With(Me)
           child == [Me EXCEPT !.pending = {}, !.saved = <<>>]
           tasks == [own EXCEPT ![i] = child]
<1>1. Returned(tasks, running, TRUE, files)
  BY DEF CloneInto
<1>2. IsTask(Me) /\ Alive(Me) /\ Me.state = "ready" /\ Counted(Me.fd, files) /\ Me.cwd \in files.there \cup {Root}
      /\ running \in Slot /\ task[Leader].fd = Me.fd
  BY MeOK, Running
<1>3. Others(own, running, group # NoGroup) /\ own[running] = Me
  BY WithOK
<1>4. i # running /\ i # Leader /\ DOMAIN own = Slot
  <2>1. i # running
    BY <1>2, <1>3
  <2> QED
    BY <1>3, <2>1 DEF Others
<1>5. IsTask(child)
  <2>1. Me \in TaskType /\ <<>> \in Seq(SUBSET Signals) /\ Len(<<>>) <= MaxDepth
    BY <1>2, TaskParts, ThreadsAssumption
  <2>2. child \in TaskType /\ child.saved = <<>>
    BY <2>1 DEF TaskType
  <2> QED
    BY <2>1, <2>2 DEF IsTask
<1> HIDE DEF own, child
<1>6. DOMAIN tasks = Slot /\ tasks[i] = child /\ \A j \in Slot \ {i} : tasks[j] = own[j]
  BY <1>4
<1> HIDE DEF tasks
<1>7. Others(tasks, running, TRUE) /\ tasks[running] = Me
  BY <1>2, <1>3, <1>4, <1>5, <1>6 DEF Others
<1>8. Callable(tasks, running, TRUE, files)
  BY <1>2, <1>7, CallOK
<1> QED
  BY <1>1, <1>8, Answered

LEMMA Cloning == ASSUME Inv, Clone PROVE Kept
BY LowestVacant, CloningInto DEF Clone

\* A thread ends; tasks are the others as linux_clear_tid leaves them.
LEMMA Exiting ==
    ASSUME Inv, running # Nobody, NEW tasks, Tasks(tasks, group # NoGroup), ExitFrom(tasks)
    PROVE  Kept
<1> DEFINE i == running
           own == [tasks EXCEPT ![i] = Me]
           all == Published(own, i)
           left == Shared(Me)
           last == IF i = Leader THEN [all[i] EXCEPT !.state = "zombie"] ELSE Zombie(all[i])
<1>1. i \in Slot /\ IsTask(Me) /\ Alive(Me) /\ Counted(Me.fd, files) /\ Me.cwd \in files.there \cup {Root}
  BY MeOK, Running
<1>2. DOMAIN own = Slot /\ own[i] = Me /\ \A j \in Slot \ {i} : own[j] = tasks[j]
  BY <1>1 DEF Tasks
<1> HIDE DEF own
<1>3. Tasks(own, TRUE)
  BY <1>1, <1>2, SlotFacts DEF Tasks, Alive
<1>4. /\ Tasks(all, TRUE) /\ all[i] = Me
      /\ \A j \in Slot : all[j].state # "free" => all[j].fd = Me.fd /\ all[j].cwd = Me.cwd
  <2>1. /\ Tasks(all, TRUE) /\ all[i] = own[i]
        /\ \A j \in Slot : /\ all[j].state = own[j].state
                           /\ own[j].state # "free" => all[j].fd = own[i].fd /\ all[j].cwd = own[i].cwd
    BY <1>1, <1>3, PublishedOK
  <2> HIDE DEF all
  <2> QED
    BY <1>2, <2>1
<1>5. all[Leader].fd = Me.fd /\ all[Leader].cwd = Me.cwd
  BY <1>4, SlotFacts DEF Tasks
<1>6. IF group = NoGroup \/ \A j \in Slot \ {i} : all[j].state \in {"free", "zombie"}
      THEN Terminated(all, files)
      ELSE /\ task' = [all EXCEPT ![i] = last] /\ group' = left /\ running' = Nobody /\ files' = files
  BY DEF ExitFrom, own
<1> HIDE DEF all
<1>7. CASE group = NoGroup \/ \A j \in Slot \ {i} : all[j].state \in {"free", "zombie"}
  <2>1. Terminated(all, files)
    BY <1>6, <1>7
  <2> QED
    BY <1>1, <1>4, <1>5, <2>1, TerminatedSound DEF Kept, Settled
<1>8. CASE ~(group = NoGroup \/ \A j \in Slot \ {i} : all[j].state \in {"free", "zombie"})
  <2>1. IsTask(last) /\ last.state = "zombie" /\ (i = Leader => last.fd = Me.fd /\ last.cwd = Me.cwd)
    <3> DEFINE v == [Me EXCEPT !.state = "zombie"]
    <3>1. Me \in TaskType
      BY <1>1, TaskParts
    <3>2. v \in TaskType /\ v.saved = Me.saved /\ v.state = "zombie" /\ v.fd = Me.fd /\ v.cwd = Me.cwd
      BY <3>1 DEF TaskType
    <3>3. last = IF i = Leader THEN v ELSE Zombie(Me)
      BY <1>4
    <3> HIDE DEF v, last
    <3> QED
      BY <1>1, <3>2, <3>3, ZombieOK DEF IsTask
  <2> HIDE DEF last
  <2>2. task' = [all EXCEPT ![i] = last] /\ group' = left /\ running' = Nobody /\ files' = files
    BY <1>6, <1>8
  <2>3. DOMAIN task' = Slot /\ task'[i] = last /\ \A j \in Slot \ {i} : task'[j] = all[j]
    BY <1>1, <1>4, <2>2 DEF Tasks
  <2>4. group' # NoGroup /\ group' \in GroupType /\ group'.fd = Me.fd /\ group'.cwd = Me.cwd
    BY <1>1, <2>2, NotNoGroup, SharedTyped
  <2>5. Tasks(task', group' # NoGroup)
    BY <1>1, <1>4, <2>1, <2>3, <2>4, SlotFacts DEF Tasks
  <2>6. \A j \in Slot : Alive(task'[j]) \/ j = Leader => task'[j].fd = Me.fd /\ task'[j].cwd = Me.cwd
    BY <1>1, <1>4, <1>5, <2>1, <2>3 DEF Alive
  <2>7. TableOf(task', group') = Me.fd
    BY <2>4 DEF TableOf, Over
  <2>8. Sound(task', group', running', files')
    BY <1>1, <2>2, <2>4, <2>5, <2>6, <2>7 DEF Sound
  <2> QED
    BY <2>2, <2>8 DEF Inv, Kept, Settled
<1> QED
  BY <1>7, <1>8

LEMMA GroupExits == ASSUME Inv, ExitGroup PROVE Kept
<1>1. running # Nobody /\ Terminated(IF group = NoGroup THEN With(Me) ELSE Published(With(Me), running), files)
  BY DEF ExitGroup
<1>2. /\ running \in Slot /\ IsTask(Me) /\ Alive(Me) /\ Counted(Me.fd, files)
      /\ Others(With(Me), running, group # NoGroup) /\ With(Me)[running] = Me
      /\ group = NoGroup => running = Leader
  BY <1>1, MeOK, Running, WithOK
<1>3. Tasks(With(Me), TRUE)
  <2>1. \A j \in Slot : IsTask(With(Me)[j])
    BY <1>2 DEF Others
  <2>2. With(Me)[Leader].state # "free"
    BY <1>2, SlotFacts DEF Others, Alive
  <2> QED
    BY <1>2, <2>1, <2>2 DEF Tasks, Others
<1>4. CASE group = NoGroup
  BY <1>1, <1>2, <1>3, <1>4, TerminatedSound DEF Kept, Settled
<1>5. CASE group # NoGroup
  <2> DEFINE all == Published(With(Me), running)
  <2>1. Terminated(all, files) /\ Tasks(all, TRUE)
    BY <1>1, <1>2, <1>3, <1>5, PublishedOK
  <2>2. all[Leader].fd = Me.fd
    BY <1>2, <1>3, PublishedOK, SlotFacts DEF Tasks
  <2> HIDE DEF all
  <2> QED
    BY <1>2, <2>1, <2>2, TerminatedSound DEF Kept, Settled
<1> QED
  BY <1>4, <1>5

LEMMA Stopping == ASSUME Inv, Stop PROVE Kept
<1>1. Terminated(task, files) /\ ~Ended
  BY DEF Stop
<1>2. Tasks(task, group # NoGroup) /\ Counted(TableOf(task, group), files)
      /\ (group # NoGroup => task[Leader].fd = group.fd)
  BY SlotFacts DEF Inv, Sound
<1>3. TableOf(task, group) = task[Leader].fd
  BY <1>1, <1>2 DEF TableOf, Over, Ended
<1>4. Tasks(task, TRUE)
  BY <1>2 DEF Tasks
<1> QED
  BY <1>1, <1>2, <1>3, <1>4, TerminatedSound DEF Kept, Settled

\* A program is loaded: one thread, and nothing open.
LEMMA LoadedOK ==
    ASSUME NEW action \in {"default", "handler"}
    PROVE  /\ Tasks(Loaded(action), FALSE)
           /\ Loaded(action)[Leader].fd = AllClosed /\ Loaded(action)[Leader].state = "ready"
           /\ \A i \in Slot : Loaded(action)[i].cwd = Root
<1> DEFINE actions == [s \in Signals |-> action]
           t == [FreeSlot EXCEPT !.state = "ready", !.actions = actions]
<1>1. FreeSlot \in TaskType /\ FreeSlot.fd = AllClosed /\ FreeSlot.cwd = Root /\ FreeSlot.saved = <<>>
      /\ IsTask(FreeSlot) /\ ~Alive(FreeSlot)
  BY FreeSlotOK DEF FreeSlot, IsTask
<1>2. actions \in Actions
  BY DEF Actions
<1> HIDE DEF actions
<1>3. t \in TaskType /\ t.fd = AllClosed /\ t.cwd = Root /\ t.saved = FreeSlot.saved /\ t.state = "ready"
  BY <1>1, <1>2 DEF TaskType
<1>4. Loaded(action) = [i \in Slot |-> IF i = Leader THEN t ELSE FreeSlot]
  BY DEF Loaded, actions
<1> HIDE DEF t
<1>5. IsTask(t)
  BY <1>1, <1>3 DEF IsTask
<1> QED
  BY <1>1, <1>3, <1>4, <1>5, SlotFacts DEF Tasks

LEMMA LoadedSound ==
    ASSUME NEW action \in {"default", "handler"}, NEW fs, Counted(AllClosed, fs)
    PROVE  Sound(Loaded(action), NoGroup, Nobody, fs)
<1> DEFINE tasks == Loaded(action)
<1>1. /\ Tasks(tasks, FALSE) /\ tasks[Leader].fd = AllClosed /\ tasks[Leader].state = "ready"
      /\ \A i \in Slot : tasks[i].cwd = Root
  BY LoadedOK
<1> HIDE DEF tasks
<1>2. TableOf(tasks, NoGroup) = AllClosed
  BY <1>1 DEF TableOf, Over
<1>3. Sound(tasks, NoGroup, Nobody, fs)
  BY <1>1, <1>2 DEF Sound
<1> QED
  BY <1>3 DEF tasks

LEMMA StartsAgain == ASSUME Inv, NEW action \in {"default", "handler"}, Start(action) PROVE Kept
<1>1. group = NoGroup /\ task[Leader].state = "zombie" /\ UNCHANGED <<group, running, files>>
      /\ task' = Loaded(action)
  BY DEF Start, Ended
<1>2. running = Nobody
  <2>1. running # Nobody => running = Leader /\ task[running].state = "ready"
    BY <1>1, MeOK, Running
  <2> QED
    BY <1>1, <2>1
<1>3. Counted(AllClosed, files)
  BY <1>1 DEF Inv, Sound, TableOf, Over
<1>4. Sound(Loaded(action), NoGroup, Nobody, files)
  BY <1>3, LoadedSound
<1>5. Sound(task', group', running', files')
  BY <1>1, <1>2, <1>4
<1> QED
  BY <1>1, <1>2, <1>5 DEF Kept, Inv, Settled

-----------------------------------------------------------------------------
(***************************************************************************)
(* Steps: files                                                            *)
(***************************************************************************)
\* A call that leaves another table and other counts.
LEMMA TableCall ==
    ASSUME Inv, running # Nobody, NEW table, NEW fs, Counted(table, fs),
           files.there \subseteq fs.there,
           running # Leader => ~Fatal(Me) \/ Counted(Me.fd, fs),
           Return([Me EXCEPT !.fd = table], fs)
    PROVE  Kept
<1> DEFINE t == [Me EXCEPT !.fd = table]
           tasks == With(t)
<1>1. /\ IsTask(Me) /\ Alive(Me) /\ Me.cwd \in files.there \cup {Root} /\ running \in Slot
      /\ task[Leader].fd = Me.fd /\ Me \in TaskType
      /\ group = NoGroup => running = Leader
  BY MeOK, Running, TaskParts
<1>2. /\ t \in TaskType /\ t.fd = table /\ t.cwd = Me.cwd /\ t.state = Me.state /\ t.saved = Me.saved
      /\ t.pending = Me.pending /\ t.blocked = Me.blocked /\ t.actions = Me.actions
  BY <1>1 DEF TaskType, Counted
<1>3. Returned(tasks, running, group # NoGroup, fs)
  BY DEF Return
<1> HIDE DEF t
<1>4. IsTask(t) /\ Alive(t)
  BY <1>1, <1>2 DEF IsTask, Alive
<1>5. Fatal(t) <=> Fatal(Me)
  <2>1. Acting(t) = Acting(Me)
    BY <1>2 DEF Acting, Due
  <2>2. \A s : Delivers(t, s) <=> Delivers(Me, s)
    BY <1>2 DEF Delivers
  <2> QED
    BY <2>1, <2>2 DEF Fatal
<1>6. Others(tasks, running, group # NoGroup) /\ tasks[running] = t
  BY WithOK
<1> HIDE DEF tasks
<1>7. t.cwd \in fs.there \cup {Root} /\ Counted(t.fd, fs)
  BY <1>1, <1>2
<1>8. Fatal(t) /\ running # Leader => Counted(task[Leader].fd, fs)
  BY <1>1, <1>5
<1>9. Callable(tasks, running, group # NoGroup, fs)
  BY <1>1, <1>4, <1>6, <1>7, <1>8, CallOK
<1> QED
  BY <1>3, <1>9, Answered

LEMMA LowestUnused == Unused # {} => Lowest(Unused) \in FD /\ Me.fd[Lowest(Unused)] = Closed
<1>1. Unused \in SUBSET FD
  BY DEF Unused
<1>2. IsFiniteSet(Unused) /\ Unused \in SUBSET Nat
  BY <1>1, FDFinite
<1>3. Unused # {} => Lowest(Unused) \in Unused
  BY <1>2, LowestIn
<1> QED
  BY <1>3 DEF Unused

LEMMA ShareFacts ==
    /\ 0 \notin Node /\ 0 \notin Share /\ Node \subseteq Nat /\ Share \subseteq Nat /\ Share \subseteq Int
    /\ Closed.node = 0 /\ Closed.share = 0 /\ Closed.offset = 0
BY ThreadsAssumption DEF Share, Closed

\* Nobody has a node open, or a shared descriptor, that counts zero.
LEMMA NoneCounted ==
    ASSUME NEW table, NEW fs, Counted(table, fs), NEW d \in FD
    PROVE  /\ \A n \in Node : fs.refs[n] = 0 => table[d].node # n
           /\ \A s \in Share : fs.sharing[s] = 0 => table[d].share # s
<1>1. \A n : IsFiniteSet(OfNode(table, n)) /\ IsFiniteSet(OfShare(table, n))
  BY FDFinite DEF OfNode, OfShare
<1>2. \A n : /\ Cardinality(OfNode(table, n)) = 0 => OfNode(table, n) = {}
             /\ Cardinality(OfShare(table, n)) = 0 => OfShare(table, n) = {}
  BY <1>1, FS_EmptySet
<1> QED
  BY <1>2 DEF Counted, OfNode, OfShare

\* The table has room for another shared descriptor while it has room for an entry.
LEMMA FreeShare ==
    ASSUME NEW table, NEW fs, Counted(table, fs), NEW u \in FD, table[u] = Closed
    PROVE  LET free == {x \in Share : fs.sharing[x] = 0} IN Lowest(free) \in free
<1> DEFINE free == {x \in Share : fs.sharing[x] = 0}
           rest == FD \ {u}
           used == {table[d].share : d \in rest}
<1>1. IsFiniteSet(rest) /\ Cardinality(rest) = Cardinality(FD) - 1 /\ Cardinality(FD) \in Nat
  BY FDFinite, OneMore
<1>2. IsFiniteSet(used) /\ Cardinality(used) <= Cardinality(rest) /\ Cardinality(used) \in Nat
  <2>1. IsFiniteSet(used) /\ Cardinality(used) <= Cardinality(rest)
    <3> DEFINE f == [d \in rest |-> table[d].share]
    <3>1. f \in Surjection(rest, used)
      BY DEF Surjection
    <3> HIDE DEF f, rest, used
    <3> QED
      BY <1>1, <3>1, FS_Surjection
  <2> QED
    BY <2>1, FS_CardinalityType
<1>3. Cardinality(Share) = Cardinality(FD) /\ IsFiniteSet(Share)
  <2>1. IsFiniteSet(1 .. Cardinality(FD)) /\ Cardinality(1 .. Cardinality(FD)) =
          IF 1 > Cardinality(FD) THEN 0 ELSE Cardinality(FD) - 1 + 1
    BY <1>1, FS_Interval, SMTT(30)
  <2>2. (IF 1 > Cardinality(FD) THEN 0 ELSE Cardinality(FD) - 1 + 1) = Cardinality(FD)
    <3> DEFINE k == Cardinality(FD)
    <3>1. k \in Nat
      BY <1>1
    <3> HIDE DEF k
    <3>2. (IF 1 > k THEN 0 ELSE k - 1 + 1) = k
      BY <3>1
    <3> QED
      BY <3>2 DEF k
  <2> QED
    BY <2>1, <2>2 DEF Share
<1>4. ~(Share \subseteq used)
  <2>1. Share \subseteq used => Cardinality(Share) <= Cardinality(used)
    BY <1>2, FS_Subset
  <2> QED
    BY <1>1, <1>2, <1>3, <2>1
<1>5. PICK s \in Share : s \notin used
  BY <1>4
<1>6. OfShare(table, s) = {}
  <2>1. \A d \in FD : table[d].share # s
    BY <1>5, ShareFacts
  <2> QED
    BY <2>1 DEF OfShare
<1>7. fs.sharing[s] = 0
  BY <1>5, <1>6, FS_EmptySet DEF Counted
<1>8. free # {} /\ IsFiniteSet(free) /\ free \in SUBSET Nat
  BY <1>3, <1>5, <1>7, ShareFacts, FS_Subset
<1> HIDE DEF free
<1>9. Lowest(free) \in free
  BY <1>8, LowestIn
<1> QED
  BY <1>9 DEF free

LEMMA Opening == ASSUME Inv, NEW n \in Node, Open(n), running # Leader => ~Fatal(Me) PROVE Kept
<1> DEFINE d == Lowest(Unused)
           e == [Closed EXCEPT !.node = n]
           old == Me.fd
           table == [old EXCEPT ![d] = e]
           fs == [files EXCEPT !.refs[n] = @ + 1, !.there = @ \cup {n}]
<1>1. running # Nobody /\ Return([Me EXCEPT !.fd = table], fs) /\ d \in FD /\ old[d] = Closed
  BY LowestUnused DEF Open
<1>2. Counted(old, files) /\ old \in Descriptors /\ files \in FilesType
  BY <1>1, MeOK DEF Counted
<1>3. e \in Entry /\ e.node = n /\ e.share = 0
  BY DEF Closed, Entry
<1> HIDE DEF d, e, old
<1>4. table \in Descriptors /\ table[d] = e /\ \A x \in FD \ {d} : table[x] = old[x]
  BY <1>1, <1>2, <1>3 DEF Descriptors, Entry
<1> HIDE DEF table
<1>5. /\ fs \in FilesType /\ fs.sharing = files.sharing /\ fs.there = files.there \cup {n}
      /\ \A m \in Node : fs.refs[m] = files.refs[m] + Change(m = n) /\ files.refs[m] \in Int
  <2> DEFINE refs == [files.refs EXCEPT ![n] = @ + 1]
             there == files.there \cup {n}
  <2>1. refs \in [Node -> Int] /\ there \in SUBSET Node
        /\ \A m \in Node : refs[m] = files.refs[m] + Change(m = n) /\ files.refs[m] \in Int
    BY <1>2 DEF FilesType, Change
  <2>2. fs = [files EXCEPT !.refs = refs, !.there = there]
    OBVIOUS
  <2> HIDE DEF refs, fs, there
  <2>3. fs \in FilesType /\ fs.refs = refs /\ fs.sharing = files.sharing /\ fs.there = there
    BY <1>2, <2>1, <2>2 DEF FilesType
  <2> QED
    BY <2>1, <2>3 DEF there
<1> HIDE DEF fs
<1>6. ASSUME NEW m \in Node PROVE fs.refs[m] = Cardinality(OfNode(table, m))
  <2>1. /\ Cardinality(OfNode(table, m)) = Cardinality(OfNode(old, m)) + Opens(table, d, m) - Opens(old, d, m)
        /\ Cardinality(OfShare(table, m)) = Cardinality(OfShare(old, m)) + Shares(table, d, m) - Shares(old, d, m)
    BY <1>1, <1>4, OneEntry
  <2>2. Opens(table, d, m) = Change(m = n) /\ Opens(old, d, m) = 0
    BY <1>1, <1>3, <1>4, ShareFacts DEF Change, Opens
  <2>3. files.refs[m] = Cardinality(OfNode(old, m)) /\ Change(m = n) \in Int
    BY <1>2 DEF Counted, Change
  <2> QED
    BY <1>5, <2>1, <2>2, <2>3
<1>7. ASSUME NEW s \in Share PROVE fs.sharing[s] = Cardinality(OfShare(table, s))
  <2>1. OfShare(table, s) = OfShare(old, s)
    BY <1>1, <1>3, <1>4, ShareFacts DEF OfShare
  <2> QED
    BY <1>2, <1>5, <2>1 DEF Counted
<1>8. \A x, y \in FD : table[x].share # 0 /\ table[x].share = table[y].share => table[x] = table[y]
  BY <1>2, <1>3, <1>4 DEF Counted
<1>9. \A x \in FD : table[x].node \in fs.there \cup {0}
  BY <1>2, <1>3, <1>4, <1>5 DEF Counted
<1>10. Counted(table, fs) /\ files.there \subseteq fs.there
  BY <1>4, <1>5, <1>6, <1>7, <1>8, <1>9 DEF Counted
<1> QED
  BY <1>1, <1>10, TableCall DEF old

LEMMA Closing == ASSUME Inv, NEW d \in FD, Close(d), running # Leader => ~Fatal(Me) PROVE Kept
<1> DEFINE old == Me.fd
           e == old[d]
           table == [old EXCEPT ![d] = Closed]
           fs == Released(e, files)
<1>1. running # Nobody /\ Return([Me EXCEPT !.fd = table], fs) /\ e # Closed
  BY DEF Close
<1>2. Counted(old, files) /\ old \in Descriptors /\ files \in FilesType
  BY <1>1, MeOK DEF Counted
<1> HIDE DEF old
<1>3. e.node \in Node /\ e.share \in Share \cup {0}
  BY <1>1, <1>2, EntryParts
<1>4. table \in Descriptors /\ table[d] = Closed /\ \A x \in FD \ {d} : table[x] = old[x]
  BY <1>2 DEF Descriptors
<1> HIDE DEF table
<1>5. /\ fs \in FilesType /\ fs.there = files.there
      /\ \A m \in Node : fs.refs[m] = files.refs[m] - Opens(old, d, m) /\ files.refs[m] \in Int
      /\ \A s \in Share : fs.sharing[s] = files.sharing[s] - Shares(old, d, s) /\ files.sharing[s] \in Int
  <2> DEFINE n == e.node
             h == e.share
             refs == [files.refs EXCEPT ![n] = @ - 1]
             sharing == [s \in Share |-> IF s = h THEN files.sharing[s] - 1 ELSE files.sharing[s]]
  <2>1. refs \in [Node -> Int]
        /\ \A m \in Node : refs[m] = files.refs[m] - Opens(old, d, m) /\ files.refs[m] \in Int
    BY <1>2, <1>3 DEF FilesType, Opens
  <2>2. sharing \in [Share -> Int]
        /\ \A s \in Share : sharing[s] = files.sharing[s] - Shares(old, d, s) /\ files.sharing[s] \in Int
    BY <1>2 DEF FilesType, Shares
  <2>3. fs = [files EXCEPT !.refs = refs, !.sharing = sharing]
    BY DEF Released
  <2> HIDE DEF refs, sharing, fs
  <2>4. fs \in FilesType /\ fs.refs = refs /\ fs.sharing = sharing /\ fs.there = files.there
    BY <1>2, <2>1, <2>2, <2>3 DEF FilesType
  <2> QED
    BY <2>1, <2>2, <2>4
<1> HIDE DEF fs
<1>6. ASSUME NEW m \in Node PROVE fs.refs[m] = Cardinality(OfNode(table, m))
  <2>1. /\ Cardinality(OfNode(table, m)) = Cardinality(OfNode(old, m)) + Opens(table, d, m) - Opens(old, d, m)
        /\ Cardinality(OfShare(table, m)) = Cardinality(OfShare(old, m)) + Shares(table, d, m) - Shares(old, d, m)
    BY <1>4, OneEntry
  <2>2. Opens(table, d, m) = 0 /\ Opens(old, d, m) \in Int
    BY <1>4, ShareFacts DEF Opens, Shares
  <2>3. files.refs[m] = Cardinality(OfNode(old, m))
    BY <1>2 DEF Counted
  <2> QED
    BY <1>5, <2>1, <2>2, <2>3
<1>7. ASSUME NEW s \in Share PROVE fs.sharing[s] = Cardinality(OfShare(table, s))
  <2>1. Cardinality(OfShare(table, s)) = Cardinality(OfShare(old, s)) + Shares(table, d, s) - Shares(old, d, s)
    BY <1>4, OneEntry
  <2>2. Shares(table, d, s) = 0 /\ Shares(old, d, s) \in Int
    BY <1>4, ShareFacts DEF Opens, Shares
  <2>3. files.sharing[s] = Cardinality(OfShare(old, s))
    BY <1>2 DEF Counted
  <2> QED
    BY <1>5, <2>1, <2>2, <2>3
<1>8. \A x, y \in FD : table[x].share # 0 /\ table[x].share = table[y].share => table[x] = table[y]
  BY <1>2, <1>4, ShareFacts DEF Counted
<1>9. \A x \in FD : table[x].node \in fs.there \cup {0}
  BY <1>2, <1>4, <1>5, ShareFacts DEF Counted
<1>10. Counted(table, fs) /\ files.there \subseteq fs.there
  BY <1>4, <1>5, <1>6, <1>7, <1>8, <1>9 DEF Counted
<1> QED
  BY <1>1, <1>10, TableCall DEF old

LEMMA Seeking == ASSUME Inv, NEW d \in FD, NEW o \in {0, 1}, Seek(d, o) PROVE Kept
<1> DEFINE old == Me.fd
           was == old[d]
           e == [was EXCEPT !.offset = o]
           table == [x \in FD |-> IF x = d \/ (e.share # 0 /\ old[x].share = e.share) THEN e ELSE old[x]]
<1>1. running # Nobody /\ Return([Me EXCEPT !.fd = table], files) /\ was # Closed
  BY DEF Seek
<1>2. Counted(old, files) /\ old \in Descriptors /\ files \in FilesType
  BY <1>1, MeOK DEF Counted
<1> HIDE DEF old
<1>3. was \in Entry
  BY <1>1, <1>2, EntryParts
<1> HIDE DEF was
<1>4. e \in Entry /\ e.node = was.node /\ e.share = was.share
  BY <1>3 DEF Entry
<1> HIDE DEF e
<1>5. /\ table \in Descriptors
      /\ \A x \in FD : table[x] = IF x = d \/ (e.share # 0 /\ old[x].share = e.share) THEN e ELSE old[x]
  BY <1>2, <1>4 DEF Descriptors, Entry
<1> HIDE DEF table
<1>6. \A x \in FD : e.share # 0 /\ old[x].share = e.share => old[x] = was
  BY <1>2, <1>4 DEF Counted, was
<1>7. \A x \in FD : table[x].node = old[x].node /\ table[x].share = old[x].share
  BY <1>4, <1>5, <1>6 DEF was
<1>8. \A n : OfNode(table, n) = OfNode(old, n) /\ OfShare(table, n) = OfShare(old, n)
  BY <1>7 DEF OfNode, OfShare
<1>9. \A x, y \in FD : table[x].share # 0 /\ table[x].share = table[y].share => table[x] = table[y]
  BY <1>2, <1>4, <1>5, <1>7 DEF Counted, was
<1>10. Counted(table, files)
  BY <1>2, <1>5, <1>7, <1>8, <1>9 DEF Counted
<1>11. Counted(Me.fd, files)
  BY <1>2 DEF old
<1> QED
  BY <1>1, <1>10, <1>11, TableCall DEF old

LEMMA ChangesDirectory == ASSUME Inv, NEW n \in Node, Chdir(n) PROVE Kept
<1> DEFINE t == [Me EXCEPT !.cwd = n]
<1>1. running # Nobody /\ Returned(With(t), running, group # NoGroup, files) /\ n \in files.there \cup {Root}
  BY DEF Chdir, Return
<1>2. IsTask(Me) /\ Alive(Me) /\ Me \in TaskType /\ Counted(Me.fd, files) /\ running \in Slot
  BY <1>1, MeOK, TaskParts, Running
<1>3. t \in TaskType /\ t.fd = Me.fd /\ t.cwd = n /\ t.state = Me.state /\ t.saved = Me.saved
  BY <1>2 DEF TaskType
<1> HIDE DEF t
<1>4. IsTask(t) /\ Alive(t)
  BY <1>2, <1>3 DEF IsTask, Alive
<1>5. Others(With(t), running, group # NoGroup) /\ With(t)[running] = t
  BY <1>1, WithOK
<1> QED
  BY <1>1, <1>2, <1>3, <1>4, <1>5, PlainCall DEF Counted

LEMMA Removing == ASSUME Inv, NEW n \in Node, fs_remove(n) PROVE Kept
<1> DEFINE table == TableOf(task, group)
<1>1. /\ running = Nobody /\ files.refs[n] = 0 /\ files' = [files EXCEPT !.there = files.there \ {n}]
      /\ \A i \in Slot : task[i].state \in {"free", "zombie"} \/ task[i].cwd # n
      /\ task' = task /\ group' = group /\ running' = running
  BY DEF fs_remove
<1>2. Counted(table, files) /\ files \in FilesType /\ \A i \in Slot : Alive(task[i]) => task[i].cwd \in files.there \cup {Root}
  BY DEF Inv, Sound, Counted
<1> HIDE DEF table
<1>3. \A d \in FD : table[d].node # n
  BY <1>1, <1>2, NoneCounted
<1>4. /\ files' \in FilesType /\ files'.refs = files.refs /\ files'.sharing = files.sharing
      /\ files'.there = files.there \ {n}
  BY <1>1, <1>2 DEF FilesType
<1>5. Counted(table, files')
  BY <1>2, <1>3, <1>4 DEF Counted
<1>6. \A i \in Slot : Alive(task[i]) => task[i].cwd \in files'.there \cup {Root}
  BY <1>1, <1>2, <1>4 DEF Alive
<1>7. Sound(task, group, running, files')
  BY <1>5, <1>6 DEF Inv, Sound, table
<1> QED
  BY <1>1, <1>7 DEF Kept, Inv, Settled

\* The first copy makes a shared descriptor of the original.
LEMMA Duping == ASSUME Inv, NEW d \in FD, Dup(d), running # Leader => ~Fatal(Me) PROVE Kept
<1> DEFINE old == Me.fd
           was == old[d]
           first == was.share = 0
           free == {x \in Share : files.sharing[x] = 0}
           s == IF first THEN Lowest(free) ELSE was.share
           e == [was EXCEPT !.share = s]
           u == Lowest(Unused)
           mid == [old EXCEPT ![d] = e]
           table == [mid EXCEPT ![u] = e]
           n == e.node
           fs == [files EXCEPT !.refs[n] = @ + 1, !.sharing[s] = IF first THEN 2 ELSE @ + 1]
<1>1. running # Nobody /\ Return([Me EXCEPT !.fd = table], fs) /\ was # Closed /\ u \in FD /\ old[u] = Closed
  BY LowestUnused DEF Dup
<1>2. Counted(old, files) /\ old \in Descriptors /\ files \in FilesType
  BY <1>1, MeOK DEF Counted
<1> HIDE DEF old, u
<1>3. was \in Entry /\ was.share \in Share \cup {0}
  BY <1>1, <1>2, EntryParts
<1>4. Lowest(free) \in free
  BY <1>1, <1>2, FreeShare
<1>5. s \in Share /\ (first => files.sharing[s] = 0) /\ (~first => s = was.share)
  BY <1>3, <1>4
<1> HIDE DEF s, first, free, was
<1>6. e \in Entry /\ e.node = was.node /\ e.share = s /\ n \in Node
  BY <1>3, <1>5 DEF Entry
<1> HIDE DEF e
<1>7. u # d
  BY <1>1 DEF was
<1>8. mid \in Descriptors /\ mid[d] = e /\ \A x \in FD \ {d} : mid[x] = old[x]
  BY <1>2, <1>6 DEF Descriptors, Entry
<1> HIDE DEF mid
<1>9. table \in Descriptors /\ table[u] = e /\ \A x \in FD \ {u} : table[x] = mid[x]
  BY <1>1, <1>6, <1>8 DEF Descriptors, Entry
<1> HIDE DEF table
<1>10. /\ fs \in FilesType /\ fs.there = files.there
       /\ \A m \in Node : fs.refs[m] = files.refs[m] + Change(m = n) /\ files.refs[m] \in Int
       /\ \A h \in Share : /\ files.sharing[h] \in Int
                           /\ fs.sharing[h] = IF h # s THEN files.sharing[h]
                                              ELSE IF first THEN 2 ELSE files.sharing[h] + 1
  <2> DEFINE refs == [files.refs EXCEPT ![n] = @ + 1]
             sharing == [files.sharing EXCEPT ![s] = IF first THEN 2 ELSE @ + 1]
  <2>1. refs \in [Node -> Int]
        /\ \A m \in Node : refs[m] = files.refs[m] + Change(m = n) /\ files.refs[m] \in Int
    BY <1>2, <1>6 DEF FilesType, Change
  <2>2. sharing \in [Share -> Int]
        /\ \A h \in Share : /\ files.sharing[h] \in Int
                            /\ sharing[h] = IF h # s THEN files.sharing[h]
                                            ELSE IF first THEN 2 ELSE files.sharing[h] + 1
    BY <1>2, <1>5 DEF FilesType
  <2>3. fs = [files EXCEPT !.refs = refs, !.sharing = sharing]
    OBVIOUS
  <2> HIDE DEF refs, sharing, fs
  <2>4. fs \in FilesType /\ fs.refs = refs /\ fs.sharing = sharing /\ fs.there = files.there
    BY <1>2, <2>1, <2>2, <2>3 DEF FilesType
  <2> QED
    BY <2>1, <2>2, <2>4
<1> HIDE DEF fs
<1>11. ASSUME NEW m \in Node PROVE fs.refs[m] = Cardinality(OfNode(table, m))
  <2>1. Cardinality(OfNode(mid, m)) = Cardinality(OfNode(old, m)) + Opens(mid, d, m) - Opens(old, d, m)
    BY <1>8, OneEntry
  <2>2. Cardinality(OfNode(table, m)) = Cardinality(OfNode(mid, m)) + Opens(table, u, m) - Opens(mid, u, m)
    BY <1>1, <1>9, OneEntry
  <2>3. Opens(mid, d, m) = Opens(old, d, m) /\ Opens(old, d, m) \in Int
    BY <1>6, <1>8 DEF Opens, was
  <2>4. Opens(table, u, m) = Change(m = n) /\ Opens(mid, u, m) = 0 /\ Change(m = n) \in Int
    BY <1>1, <1>7, <1>8, <1>9, ShareFacts DEF Opens, Change
  <2>5. files.refs[m] = Cardinality(OfNode(old, m))
    BY <1>2 DEF Counted
  <2> QED
    BY <1>10, <2>1, <2>2, <2>3, <2>4, <2>5
<1>12. ASSUME NEW h \in Share PROVE fs.sharing[h] = Cardinality(OfShare(table, h))
  <2>1. Cardinality(OfShare(mid, h)) = Cardinality(OfShare(old, h)) + Shares(mid, d, h) - Shares(old, d, h)
    BY <1>8, OneEntry
  <2>2. Cardinality(OfShare(table, h)) = Cardinality(OfShare(mid, h)) + Shares(table, u, h) - Shares(mid, u, h)
    BY <1>1, <1>9, OneEntry
  <2>3. files.sharing[h] = Cardinality(OfShare(old, h)) /\ files.sharing[h] \in Int
    BY <1>2, <1>10 DEF Counted
  <2>4. Shares(mid, d, h) = (IF h = s THEN 1 ELSE 0) /\ Shares(table, u, h) = (IF h = s THEN 1 ELSE 0)
        /\ Shares(mid, u, h) = 0
    BY <1>1, <1>6, <1>7, <1>8, <1>9, ShareFacts DEF Shares
  <2>5. Shares(old, d, h) = IF ~first /\ h = s THEN 1 ELSE 0
    BY <1>5, ShareFacts DEF Shares, first, was
  <2>6. CASE h # s
    BY <1>10, <2>1, <2>2, <2>3, <2>4, <2>5, <2>6
  <2>7. CASE h = s /\ first
    BY <1>5, <1>10, <2>1, <2>2, <2>3, <2>4, <2>5, <2>7
  <2>8. CASE h = s /\ ~first
    BY <1>10, <2>1, <2>2, <2>3, <2>4, <2>5, <2>8
  <2> QED
    BY <2>6, <2>7, <2>8
<1>13. \A x \in FD : table[x] = IF x \in {d, u} THEN e ELSE old[x]
  BY <1>7, <1>8, <1>9
<1>14. ASSUME NEW x \in FD \ {d, u}, old[x].share = s PROVE old[x] = e
  <2>1. CASE first
    <3>1. files.sharing[s] = 0
      BY <1>5, <2>1
    <3> QED
      BY <1>2, <1>5, <1>14, <3>1, NoneCounted
  <2>2. CASE ~first
    <3>1. was.share = s /\ s # 0
      BY <1>5, <2>2, ShareFacts
    <3>2. old[x] = was
      BY <1>2, <1>14, <3>1 DEF Counted, was
    <3>3. e = was
      BY <1>3, <3>1 DEF e, Entry
    <3> QED
      BY <3>2, <3>3
  <2> QED
    BY <2>1, <2>2
<1>15. \A x, y \in FD : table[x].share # 0 /\ table[x].share = table[y].share => table[x] = table[y]
  <2>1. SUFFICES ASSUME NEW x \in FD, NEW y \in FD, table[x].share # 0, table[x].share = table[y].share
                 PROVE  table[x] = table[y]
    OBVIOUS
  <2>2. CASE x \in {d, u}
    BY <1>6, <1>13, <1>14, <2>1, <2>2
  <2>3. CASE y \in {d, u}
    BY <1>6, <1>13, <1>14, <2>1, <2>3
  <2>4. CASE x \notin {d, u} /\ y \notin {d, u}
    BY <1>2, <1>13, <2>1, <2>4 DEF Counted
  <2> QED
    BY <2>2, <2>3, <2>4
<1>16. \A x \in FD : table[x].node \in fs.there \cup {0}
  <2>1. \A x \in FD : old[x].node \in files.there \cup {0}
    BY <1>2 DEF Counted
  <2>2. e.node \in files.there \cup {0}
    BY <1>6, <2>1 DEF was
  <2> QED
    BY <1>10, <1>13, <2>1, <2>2
<1>17. Counted(table, fs) /\ files.there \subseteq fs.there
  BY <1>9, <1>10, <1>11, <1>12, <1>15, <1>16 DEF Counted
<1> QED
  BY <1>1, <1>17, TableCall DEF old

-----------------------------------------------------------------------------
(***************************************************************************)
(* Steps: the futex, and the program that waits                            *)
(***************************************************************************)
Stir(t) == [t EXCEPT !.futex = 0, !.state = "ready"]
\* A sleeper is woken or its queue changes; nothing else of it does.
LEMMA Stirred ==
    ASSUME NEW t, IsTask(t), NEW a \in Nat
    PROVE  /\ IsTask(Stir(t)) /\ Alive(Stir(t))
           /\ Stir(t).fd = t.fd
           /\ Stir(t).cwd = t.cwd
           /\ Stir(t).actions = t.actions
           /\ IsTask([t EXCEPT !.futex = a]) /\ [t EXCEPT !.futex = a].state = t.state
           /\ [t EXCEPT !.futex = a].fd = t.fd
           /\ IsTask([t EXCEPT !.futex = a, !.state = "sleeping"])
           /\ Alive([t EXCEPT !.futex = a, !.state = "sleeping"])
           /\ [t EXCEPT !.futex = a, !.state = "sleeping"].fd = t.fd
           /\ [t EXCEPT !.futex = a, !.state = "sleeping"].cwd = t.cwd
<1> DEFINE v == [t EXCEPT !.futex = a]
           w == [t EXCEPT !.futex = a, !.state = "sleeping"]
<1>1. t \in TaskType /\ Len(t.saved) <= MaxDepth
  BY DEF IsTask
<1>2. /\ Stir(t) \in TaskType /\ Stir(t).saved = t.saved /\ Stir(t).fd = t.fd /\ Stir(t).cwd = t.cwd
      /\ Stir(t).actions = t.actions /\ Stir(t).state = "ready"
  BY <1>1 DEF TaskType, Stir
<1>3. v \in TaskType /\ v.saved = t.saved /\ v.fd = t.fd /\ v.state = t.state
  BY <1>1 DEF TaskType
<1>4. w \in TaskType /\ w.saved = t.saved /\ w.fd = t.fd /\ w.cwd = t.cwd /\ w.state = "sleeping"
  BY <1>1 DEF TaskType
<1> HIDE DEF v, w
<1>5. IsTask(Stir(t)) /\ Alive(Stir(t)) /\ IsTask(v) /\ IsTask(w) /\ Alive(w)
  BY <1>1, <1>2, <1>3, <1>4 DEF IsTask, Alive
<1> QED
  BY <1>2, <1>3, <1>4, <1>5 DEF v, w

LEMMA WokenOK ==
    ASSUME NEW tasks, NEW a, NEW n
    PROVE  /\ DOMAIN Woken(tasks, a, n) = Slot
           /\ \A j \in Slot : \/ Woken(tasks, a, n)[j] = tasks[j]
                              \/ /\ tasks[j].state = "sleeping"
                                 /\ Woken(tasks, a, n)[j] = Stir(tasks[j])
BY DEF Woken, First, Waiting, Stir

LEMMA MovedOK ==
    ASSUME NEW tasks, NEW a, NEW b
    PROVE  /\ DOMAIN Moved(tasks, a, b) = Slot
           /\ \A j \in Slot : \/ Moved(tasks, a, b)[j] = tasks[j]
                              \/ /\ tasks[j].state = "sleeping"
                                 /\ Moved(tasks, a, b)[j] = [tasks[j] EXCEPT !.futex = b]
BY DEF Moved, Waiting

\* Whom a wake leaves the others to the caller.
LEMMA WokenOthers ==
    ASSUME NEW tasks, NEW i \in Slot, NEW g, Others(tasks, i, g), tasks[i].state = "ready", NEW a, NEW n
    PROVE  Others(Woken(tasks, a, n), i, g) /\ Woken(tasks, a, n)[i] = tasks[i]
<1> DEFINE out == Woken(tasks, a, n)
<1>1. /\ DOMAIN out = Slot
      /\ \A j \in Slot : out[j] = tasks[j] \/ (tasks[j].state = "sleeping"
                            /\ out[j] = Stir(tasks[j]))
  BY WokenOK
<1> HIDE DEF out
<1>2. ASSUME NEW j \in Slot \ {i}
      PROVE  /\ IsTask(out[j]) /\ (~g => ~Alive(out[j]))
             /\ j = Leader => out[j].fd = task[j].fd /\ out[j].state # "free"
  <2>1. /\ IsTask(tasks[j]) /\ (~g => ~Alive(tasks[j]))
        /\ j = Leader => tasks[j].fd = task[j].fd /\ tasks[j].state # "free"
    BY DEF Others
  <2> DEFINE v == Stir(tasks[j])
  <2>2. IsTask(v) /\ Alive(v) /\ v.fd = tasks[j].fd
    BY <2>1, Stirred
  <2>3. out[j] = tasks[j] \/ (tasks[j].state = "sleeping" /\ out[j] = v)
    BY <1>1
  <2> HIDE DEF v
  <2> QED
    BY <2>1, <2>2, <2>3 DEF Alive
<1>3. out[i] = tasks[i]
  BY <1>1
<1>4. Others(out, i, g)
  BY <1>1, <1>2 DEF Others
<1> QED
  BY <1>3, <1>4 DEF out

LEMMA MovedOthers ==
    ASSUME NEW tasks, NEW i \in Slot, NEW g, Others(tasks, i, g), tasks[i].state = "ready", NEW a, NEW b \in Nat
    PROVE  Others(Moved(tasks, a, b), i, g) /\ Moved(tasks, a, b)[i] = tasks[i]
<1> DEFINE out == Moved(tasks, a, b)
<1>1. /\ DOMAIN out = Slot
      /\ \A j \in Slot : out[j] = tasks[j] \/ (tasks[j].state = "sleeping"
                            /\ out[j] = [tasks[j] EXCEPT !.futex = b])
  BY MovedOK
<1> HIDE DEF out
<1>2. ASSUME NEW j \in Slot \ {i}
      PROVE  /\ IsTask(out[j]) /\ (~g => ~Alive(out[j]))
             /\ j = Leader => out[j].fd = task[j].fd /\ out[j].state # "free"
  <2>1. /\ IsTask(tasks[j]) /\ (~g => ~Alive(tasks[j]))
        /\ j = Leader => tasks[j].fd = task[j].fd /\ tasks[j].state # "free"
    BY DEF Others
  <2> DEFINE v == [tasks[j] EXCEPT !.futex = b]
  <2>2. IsTask(v) /\ v.state = tasks[j].state /\ v.fd = tasks[j].fd
    BY <2>1, Stirred
  <2>3. out[j] = tasks[j] \/ out[j] = v
    BY <1>1
  <2> HIDE DEF v
  <2> QED
    BY <2>1, <2>2, <2>3 DEF Alive
<1>3. out[i] = tasks[i]
  BY <1>1
<1>4. Others(out, i, g)
  BY <1>1, <1>2 DEF Others
<1> QED
  BY <1>3, <1>4 DEF out

LEMMA FutexWaiting ==
    ASSUME Inv, running # Nobody, NEW a \in Nat, NEW value, FutexWait(a, value) PROVE Kept
<1> DEFINE asleep == [Me EXCEPT !.futex = a, !.state = "sleeping"]
           t == IF Changed(a, value) THEN Me ELSE asleep
<1>1. Return(t, files)
  BY DEF FutexWait, Called, Return
<1>2. IsTask(Me) /\ Alive(Me)
  BY MeOK
<1>3. IsTask(asleep) /\ Alive(asleep) /\ asleep.fd = Me.fd /\ asleep.cwd = Me.cwd
  BY <1>2, Stirred
<1> HIDE DEF asleep
<1>4. IsTask(t) /\ Alive(t) /\ t.fd = Me.fd /\ t.cwd = Me.cwd
  BY <1>2, <1>3
<1> HIDE DEF t
<1> QED
  BY <1>1, <1>4, OwnCall

LEMMA CallerOK ==
    ASSUME Inv, running # Nobody
    PROVE  /\ IsTask(Me) /\ Alive(Me) /\ Me.state = "ready" /\ Me.fd \in Descriptors /\ Counted(Me.fd, files)
           /\ Me.cwd \in files.there \cup {Root} /\ running \in Slot
           /\ Others(With(Me), running, group # NoGroup) /\ With(Me)[running] = Me
BY MeOK, Running, WithOK DEF Counted

LEMMA FutexWaking == ASSUME Inv, running # Nobody, NEW a, NEW n, FutexWake(a, n) PROVE Kept
<1> DEFINE tasks == Woken(With(Me), a, n)
<1>1. Returned(tasks, running, group # NoGroup, files)
  BY DEF FutexWake, Called
<1>2. Others(tasks, running, group # NoGroup) /\ tasks[running] = Me
  BY CallerOK, WokenOthers
<1> HIDE DEF tasks
<1> QED
  BY <1>1, <1>2, CallerOK, PlainCall

LEMMA FutexRequeuing ==
    ASSUME Inv, running # Nobody, NEW a, NEW value, NEW n, NEW b \in Nat, FutexRequeue(a, value, n, b)
    PROVE  Kept
<1> DEFINE awake == Woken(With(Me), a, n)
           moved == Moved(awake, a, b)
           tasks == IF Changed(a, value) THEN With(Me) ELSE moved
<1>1. Returned(tasks, running, group # NoGroup, files)
  BY DEF FutexRequeue, Called
<1>2. Others(awake, running, group # NoGroup) /\ awake[running] = Me
  BY CallerOK, WokenOthers
<1> HIDE DEF awake
<1>3. Others(moved, running, group # NoGroup) /\ moved[running] = Me
  BY <1>2, CallerOK, MovedOthers
<1> HIDE DEF moved
<1>4. Others(tasks, running, group # NoGroup) /\ tasks[running] = Me
  BY <1>3, CallerOK
<1> HIDE DEF tasks
<1> QED
  BY <1>1, <1>4, CallerOK, PlainCall

LEMMA WokenTasks ==
    ASSUME NEW tasks, NEW g, Tasks(tasks, g), NEW a, NEW n PROVE Tasks(Woken(tasks, a, n), g)
<1> DEFINE out == Woken(tasks, a, n)
<1>1. /\ DOMAIN out = Slot
      /\ \A j \in Slot : out[j] = tasks[j] \/ (tasks[j].state = "sleeping"
                            /\ out[j] = Stir(tasks[j]))
  BY WokenOK
<1> HIDE DEF out
<1>2. ASSUME NEW j \in Slot
      PROVE  IsTask(out[j]) /\ (Alive(out[j]) => Alive(tasks[j])) /\ (tasks[j].state # "free" => out[j].state # "free")
  <2> DEFINE v == Stir(tasks[j])
  <2>1. IsTask(tasks[j])
    BY DEF Tasks
  <2>2. IsTask(v) /\ Alive(v)
    BY <2>1, Stirred
  <2>3. out[j] = tasks[j] \/ (tasks[j].state = "sleeping" /\ out[j] = v)
    BY <1>1
  <2> HIDE DEF v
  <2> QED
    BY <2>1, <2>2, <2>3 DEF Alive
<1>3. Tasks(out, g)
  BY <1>1, <1>2, SlotFacts DEF Tasks
<1> QED
  BY <1>3 DEF out

LEMMA ThreadExiting == ASSUME Inv, running # Nobody, ThreadExit PROVE Kept
<1>1. Tasks(Woken(Reaped(task), Tid(running), 1), group # NoGroup)
  BY ReapedOK, WokenTasks
<1> QED
  BY <1>1, Exiting DEF ThreadExit

LEMMA TimingOut == ASSUME Inv, One => Settled(task, running), NEW i \in Slot, TimedOut(i) PROVE Kept
<1> DEFINE t == Stir(task[i])
<1>1. task[i].state = "sleeping" /\ task' = [task EXCEPT ![i] = t] /\ group' = group /\ running' = running /\ files' = files
  BY DEF TimedOut, Stir
<1>2. Tasks(task, group # NoGroup) /\ IsTask(task[i]) /\ Alive(task[i])
  BY <1>1 DEF Inv, Sound, Tasks, Alive
<1>3. IsTask(t) /\ Alive(t) /\ t.fd = task[i].fd /\ t.cwd = task[i].cwd
  BY <1>2, Stirred
<1> HIDE DEF t
<1>4. DOMAIN task' = Slot /\ task'[i] = t /\ \A j \in Slot \ {i} : task'[j] = task[j]
  BY <1>1, <1>2 DEF Tasks
<1>5. Tasks(task', group # NoGroup)
  BY <1>2, <1>3, <1>4, SlotFacts DEF Tasks, Alive
<1>6. running # i
  BY <1>1, SlotFacts DEF Inv, Sound
<1>7. TableOf(task', group) = TableOf(task, group)
  <2>1. task'[Leader].fd = task[Leader].fd
    BY <1>3, <1>4, SlotFacts
  <2>2. task[Leader].state = "zombie" <=> task'[Leader].state = "zombie"
    BY <1>1, <1>3, <1>4, SlotFacts DEF Alive
  <2> QED
    BY <2>1, <2>2 DEF TableOf, Over
<1>8. Sound(task', group, running, files)
  BY <1>2, <1>3, <1>4, <1>5, <1>6, <1>7, SlotFacts DEF Inv, Sound
<1>9. Settled(task, running) => Settled(task', running)
  <2>1. running # Nobody => task'[running] = task[running]
    BY <1>4, <1>6 DEF Inv, Sound
  <2> QED
    BY <2>1 DEF Settled
<1> QED
  BY <1>1, <1>8, <1>9 DEF Inv, Kept

LEMMA Numbers == /\ Lock \in Nat /\ Seqno \in Nat /\ \A i \in Slot : Tid(i) \in Nat /\ i # Nobody
BY SlotFacts DEF Lock, Seqno, Tid

LEMMA Installs == Installed \in {"default", "handler"}
BY DEF Installed

LEMMA Joining == ASSUME Inv, One => Settled(task, running), NEW i \in Slot, Join(i) PROVE Kept
<1> DEFINE others == {j \in Slot \ {i} : word[Tid(j)] # 0}
<1>1. running = i /\ running # Nobody
  BY Numbers DEF Join, At
<1>2. CASE others = {}
  <2>1. UNCHANGED threads
    BY <1>2 DEF Join
  <2> QED
    BY <2>1, Unchanged DEF threads
<1>3. CASE others # {}
  <2>1. FutexWait(Tid(Lowest(others)), 1)
    BY <1>3 DEF Join
  <2>2. Lowest(others) \in others
    <3>1. others \in SUBSET Slot
      OBVIOUS
    <3> HIDE DEF others
    <3>2. others \in SUBSET Nat /\ IsFiniteSet(others)
      BY <3>1, SlotFacts, FS_Subset
    <3> QED
      BY <1>3, <3>2, LowestIn
  <2>3. Tid(Lowest(others)) \in Nat
    BY <2>2, Numbers
  <2> QED
    BY <1>1, <2>1, <2>3, FutexWaiting
<1> QED
  BY <1>2, <1>3

LEMMA Stepping == ASSUME Inv, One => Settled(task, running), NEW i \in Slot, Step(i) PROVE Kept
<1>1. Step(i) => running = i /\ running # Nobody
  BY Numbers DEF Step, Begin, Acquire, Contend, Sleep, Inside, Unlock, Wake, Wait, Broadcast, Join, End,
                 HandlerReturns, At
<1>2. Instruction => Kept
  BY Unchanged DEF Instruction, threads
<1>3. CASE Begin(i)
  <2>1. CASE Vacant = {}
    BY <1>3, <2>1, Unchanged DEF Begin, threads
  <2>2. CASE Vacant # {}
    BY <1>1, <1>3, <2>2, LowestVacant, CloningInto DEF Begin
  <2> QED
    BY <2>1, <2>2
<1>4. CASE Acquire(i)
  BY <1>2, <1>4 DEF Acquire
<1>5. CASE Contend(i)
  BY <1>2, <1>5 DEF Contend
<1>6. CASE Sleep(i)
  BY <1>1, <1>6, Numbers, FutexWaiting DEF Sleep
<1>7. CASE Inside(i)
  BY <1>2, <1>7 DEF Inside
<1>8. CASE Unlock(i, "pause", "pausewake", "wait") \/ Unlock(i, "unlock", "wake", After(i))
  BY <1>2, <1>8 DEF Unlock
<1>9. CASE Wake(i, "pausewake", "wait") \/ Wake(i, "wake", After(i))
  BY <1>1, <1>9, FutexWaking DEF Wake
<1>10. CASE Wait(i)
  BY <1>1, <1>10, Numbers, FutexWaiting DEF Wait
<1>11. CASE Broadcast(i)
  BY <1>1, <1>11, Numbers, FutexRequeuing DEF Broadcast
<1>12. CASE Join(i)
  BY <1>12, Joining
<1>13. CASE End(i)
  BY <1>1, <1>13, GroupExits, ThreadExiting DEF End
<1>14. CASE HandlerReturns(i)
  BY <1>14, Sigreturns DEF HandlerReturns
<1> QED
  BY <1>3, <1>4, <1>5, <1>6, <1>7, <1>8, <1>9, <1>10, <1>11, <1>12, <1>13, <1>14 DEF Step

LEMMA Calling == ASSUME Inv, One => Settled(task, running), Calls, FilesSettled PROVE Kept
<1>1. CASE Clone
  BY <1>1, Cloning
<1>2. CASE Exit
  <2>1. running # Nobody /\ ExitFrom(Reaped(task))
    BY <1>2 DEF Exit
  <2> QED
    BY <2>1, ReapedOK, Exiting
<1>3. CASE Stop \/ ExitGroup
  BY <1>3, Stopping, GroupExits
<1>4. CASE \E n \in Node : Open(n) \/ Chdir(n) \/ fs_remove(n)
  BY <1>4, Opening, ChangesDirectory, Removing DEF FilesSettled
<1>5. CASE \E d \in FD : Dup(d) \/ Close(d) \/ \E o \in {0, 1} : Seek(d, o)
  BY <1>5, Duping, Closing, Seeking DEF FilesSettled
<1>6. CASE Sigreturn \/ \E m \in SUBSET Signals : Sigprocmask(m)
  BY <1>6, Sigreturns, Sigprocmasks
<1>7. CASE \E s \in Signals :
              \/ \E a \in {"default", "ignore", "handler", "once"} : Sigaction(s, a)
              \/ \E i \in Slot : Tgkill(i, s)
  BY <1>7, Sigactions, Killing
<1>8. CASE \E s \in Signals : Fault(s)
  BY <1>8, Faulting
<1> QED
  BY <1>1, <1>2, <1>3, <1>4, <1>5, <1>6, <1>7, <1>8 DEF Calls

-----------------------------------------------------------------------------
(***************************************************************************)
(* The theorems                                                            *)
(***************************************************************************)
Steady == Inv /\ (One => Settled(task, running))

LEMMA Starts == Init => Steady
<1> SUFFICES ASSUME Init PROVE Steady
  OBVIOUS
<1> DEFINE refs == [n \in Node |-> 0]
           sharing == [s \in Share |-> 0]
<1>1. /\ task = Loaded(Installed) /\ group = NoGroup /\ running = Nobody
      /\ files = [refs |-> refs, sharing |-> sharing, there |-> {}]
  BY DEF Init, ThreadsInit
<1>2. refs \in [Node -> Int] /\ sharing \in [Share -> Int]
      /\ (\A n \in Node : refs[n] = 0) /\ (\A s \in Share : sharing[s] = 0)
  OBVIOUS
<1> HIDE DEF refs, sharing
<1>3. files \in FilesType /\ files.refs = refs /\ files.sharing = sharing
  BY <1>1, <1>2 DEF FilesType
<1>4. Counted(AllClosed, files)
  BY <1>2, <1>3, NothingOpen
<1>5. Sound(Loaded(Installed), NoGroup, Nobody, files)
  BY <1>4, Installs, LoadedSound
<1> QED
  BY <1>1, <1>5 DEF Steady, Inv, Settled

LEMMA Steps == ASSUME Steady, [Next]_vars, [FilesSettled]_vars PROVE Steady'
<1>1. Inv /\ (One => Settled(task, running))
  BY DEF Steady
<1>2. CASE UNCHANGED vars
  <2>1. Kept
    BY <1>1, <1>2, Unchanged DEF vars, threads
  <2> QED
    BY <2>1 DEF Kept, Steady, One
<1>3. ASSUME Next, FilesSettled PROVE Kept
  <2>1. CASE Interrupt \/ Idling
    BY <1>1, <2>1, Preempting, Idles DEF Interrupt, Idling
  <2>2. CASE Calls
    BY <1>1, <1>3, <2>2, Calling
  <2>3. CASE Again
    BY <1>1, <2>3, Installs, StartsAgain DEF Again
  <2>4. ASSUME NEW i \in Slot, Schedule(i) PROVE Kept
    BY <1>1, <2>4, Scheduling DEF Schedule
  <2>5. ASSUME NEW i \in Slot, Step(i) PROVE Kept
    BY <1>1, <2>5, Stepping
  <2>6. ASSUME NEW i \in Slot, TimedOut(i) PROVE Kept
    BY <1>1, <2>6, TimingOut
  <2>7. ASSUME NEW i \in Slot, NEW s \in Signals, Signal(i, s) PROVE Kept
    BY <1>1, <2>7, Killing DEF Signal
  <2> QED
    BY <1>3, <2>1, <2>2, <2>3, <2>4, <2>5, <2>6, <2>7 DEF Next
<1> QED
  BY <1>2, <1>3 DEF Kept, Steady, One

\* With one signal, a thread that runs has none that is due.
LEMMA NoneDue == ASSUME Steady, One PROVE FilesSettled
<1>1. CASE running # Nobody
  <2>1. Due(task[running]) = {} /\ Me.pending = task[running].pending /\ Me.blocked = task[running].blocked
    BY <1>1, MeOK DEF Steady, Settled
  <2>2. Acting(Me) = {}
    BY <2>1 DEF Acting, Due
  <2> QED
    BY <2>2 DEF FilesSettled, Fatal
<1>2. CASE running = Nobody
  BY <1>2 DEF FilesSettled, Open, Dup, Close
<1> QED
  BY <1>1, <1>2

LEMMA SteadyImplies == ASSUME Steady PROVE OneTable
<1>1. Sound(task, group, running, files)
  BY DEF Steady, Inv
<1>2. Table = TableOf(task, group)
  BY DEF Table, TableOf, Ended, Over
<1>3. Counted(Table, files)
  BY <1>1, <1>2 DEF Sound
<1>4. ThreadsTypeOK
  <2>1. ASSUME NEW i \in Slot PROVE Parts(task[i])
    BY <1>1, TaskParts DEF Sound, Tasks
  <2>2. \A n : Cardinality(OfNode(Table, n)) \in 0 .. Cardinality(FD)
               /\ Cardinality(OfShare(Table, n)) \in 0 .. Cardinality(FD)
    BY FDFinite DEF OfNode, OfShare
  <2>3. files.refs \in [Node -> 0 .. Cardinality(FD)] /\ files.sharing \in [Share -> 0 .. Cardinality(FD)]
        /\ files.there \subseteq Node
    BY <1>3, <2>2 DEF Counted, FilesType
  <2>4. group = NoGroup \/ (group.fd \in Descriptors /\ group.cwd \in Node \cup {Root} /\ group.actions \in Actions)
    BY <1>1 DEF Sound, GroupType
  <2>5. running = Nobody \/ (running \in Slot /\ task[running].state = "ready")
    BY <1>1 DEF Sound
  <2> QED
    BY <2>1, <2>3, <2>4, <2>5 DEF ThreadsTypeOK, Parts
<1>5. group # NoGroup =>
         /\ \A i \in Slot : task[i].state \in {"ready", "sleeping"} \/ i = Leader =>
               task[i].fd = group.fd /\ task[i].cwd = group.cwd
         /\ running # Nobody => task[running].actions = group.actions
  BY <1>1 DEF Sound, Alive
<1>6. /\ \A n \in Node : files.refs[n] = Cardinality({d \in FD : Table[d].node = n})
      /\ \A s \in Share : files.sharing[s] = Cardinality({d \in FD : Table[d].share = s})
      /\ \A d, e \in FD : Table[d].share # 0 /\ Table[d].share = Table[e].share => Table[d] = Table[e]
      /\ \A d \in FD : Table[d].node \in files.there \cup {0}
  BY <1>3 DEF Counted, OfNode, OfShare
<1>7. \A i \in Slot : task[i].state \in {"ready", "sleeping"} => task[i].cwd \in files.there \cup {Root}
  BY <1>1 DEF Sound, Alive
<1> QED
  BY <1>4, <1>5, <1>6, <1>7 DEF OneTable

\* All threads of a program, and whoever ends or is stopped last, see the one
\* table whose entries the file system counts (compat_enter, compat_leave,
\* fs_open, fs_duplicate, fs_close, finish_notify), as long as no thread but the
\* leader changes the table in the very call at whose end a signal ends the
\* program (linux_pending, task_linux_exit_group).
THEOREM OneTableWhileSettled == Spec /\ [][FilesSettled]_vars => []OneTable
<1>1. Init => Steady
  BY Starts
<1>2. Steady /\ [Next]_vars /\ [FilesSettled]_vars => Steady'
  BY Steps
<1>3. Steady => OneTable
  BY SteadyImplies
<1> QED
  BY <1>1, <1>2, <1>3, PTL DEF Spec

\* A program that is sent only one kind of signal (the run's case) needs no such
\* premise: the signal is dealt with before the thread that is next runs.
THEOREM OneTableWithOneSignal == ASSUME \A x, y \in Signals : x = y PROVE Spec => []OneTable
<1>1. Init => Steady
  BY Starts
<1>2. One
  BY DEF One
<1>3. Steady /\ [Next]_vars => Steady'
  <2>1. Steady /\ [Next]_vars => [FilesSettled]_vars
    BY <1>2, NoneDue
  <2> QED
    BY <2>1, Steps
<1>4. Steady => OneTable
  BY SteadyImplies
<1> QED
  BY <1>1, <1>3, <1>4, PTL DEF Spec
=============================================================================
