------------------------------ MODULE TaskProofs ------------------------------
(***************************************************************************)
(* Proofs about Task, for every number of slots and pids.                  *)
(*                                                                         *)
(* Every call maps the table of processes through a few helpers (reaping,  *)
(* ending a set of slots, a new entry), so each invariant is a predicate   *)
(* of a table: what each helper does to it is a lemma, and an action is    *)
(* the composition of its helpers.                                         *)
(***************************************************************************)
EXTENDS Task, TLAPS, FiniteSetTheorems

Tables == [task : [Slot -> Entry], group : [Pid -> Count]]
-----------------------------------------------------------------------------
(* The least number of a finite set, and what finite sets count to *)

LEMMA Least ==
    ASSUME NEW S \in SUBSET Nat, S # {}, IsFiniteSet(S)
    PROVE  \E x \in S : \A y \in S : x <= y
<1> DEFINE Upto(x) == {y \in S : y <= x}
           F == {Upto(x) : x \in S}
<1>1. F \subseteq FiniteSubsetsOf(S)
  BY FS_Subset DEF FiniteSubsetsOf
<1>2. PICK X \in F : \A Y \in F : ~(<<Y, X>> \in StrictSubsetOrdering(S))
  <2>1. F # {}
    OBVIOUS
  <2> HIDE DEF F
  <2> QED BY <1>1, <2>1, FS_StrictSubsetOrderingWellFounded, WFMin, Zenon
<1>3. PICK x \in S : X = Upto(x)
  BY <1>2
<1>4. ASSUME NEW y \in S, y < x PROVE FALSE
  <2>1. x \in Nat /\ y \in Nat
    OBVIOUS
  <2>2. Upto(y) \subseteq Upto(x) /\ x \in Upto(x) /\ x \notin Upto(y)
    <3>1. \A z \in S : z <= y => z <= x
      BY <2>1, <1>4
    <3>2. x <= x /\ ~(x <= y)
      BY <2>1, <1>4
    <3> QED BY <3>1, <3>2
  <2>3. Upto(y) \in SUBSET S /\ Upto(x) \in SUBSET S
    OBVIOUS
  <2>4. <<Upto(y), Upto(x)>> \in StrictSubsetOrdering(S)
    <3> HIDE DEF Upto
    <3> QED BY <2>2, <2>3, Zenon DEF StrictSubsetOrdering
  <2> QED BY <1>2, <1>3, <2>4
<1> QED BY <1>4

LEMMA SlotsFinite ==
    /\ IsFiniteSet(Slot) /\ Cardinality(Slot) = Slots /\ 0 \in Slot /\ Slot \subseteq Nat
    /\ \A S \in SUBSET Slot : IsFiniteSet(S) /\ Cardinality(S) \in Nat
<1>1. /\ Slots \in Nat /\ Slots > 0 /\ 0 \in Int /\ Slots - 1 \in Int
      /\ 0 \in Slot /\ Slot \subseteq Nat
  BY TaskAssumption DEF Slot
<1>2. IsFiniteSet(0 .. Slots - 1)
      /\ Cardinality(0 .. Slots - 1) = IF 0 > Slots - 1 THEN 0 ELSE (Slots - 1) - 0 + 1
  BY <1>1, FS_Interval, Zenon
<1>3. IsFiniteSet(Slot) /\ Cardinality(Slot) = Slots
  BY <1>1, <1>2 DEF Slot
<1>4. \A S \in SUBSET Slot : IsFiniteSet(S) /\ Cardinality(S) \in Nat
  BY <1>3, FS_Subset, FS_CardinalityType
<1> QED BY <1>1, <1>3, <1>4

LEMMA PidsFinite ==
    /\ IsFiniteSet(Pid) /\ Cardinality(Pid) = MaxPid /\ 1 \in Pid /\ 2 \in Pid /\ 0 \notin Pid
    /\ \A S \in SUBSET Pid : IsFiniteSet(S)
<1>1. /\ MaxPid \in Nat /\ MaxPid > 1 /\ 1 \in Int /\ MaxPid \in Int
      /\ 1 \in Pid /\ 2 \in Pid /\ 0 \notin Pid
  BY TaskAssumption DEF Pid
<1>2. IsFiniteSet(1 .. MaxPid)
      /\ Cardinality(1 .. MaxPid) = IF 1 > MaxPid THEN 0 ELSE MaxPid - 1 + 1
  BY <1>1, FS_Interval, Zenon
<1>3. IsFiniteSet(Pid) /\ Cardinality(Pid) = MaxPid
  BY <1>1, <1>2 DEF Pid
<1>4. \A S \in SUBSET Pid : IsFiniteSet(S)
  BY <1>3, FS_Subset
<1> QED BY <1>1, <1>3, <1>4

\* What FirstFree chooses is a free slot.
LEMMA FirstFreeIsFree ==
    ASSUME NEW T, In(T, "free") # {}
    PROVE  FirstFree(T) \in Slot /\ T.task[FirstFree(T)].state = "free"
<1>1. \E i \in In(T, "free") : \A j \in In(T, "free") : i <= j
  BY Least, SlotsFinite DEF In
<1> QED BY <1>1 DEF FirstFree, In

\* What NextReady chooses is a ready slot.
LEMMA NextReadyIsReady ==
    ASSUME In(Table, "ready") # {}, current \in Slot
    PROVE  NextReady \in Slot /\ task[NextReady].state = "ready"
<1> DEFINE D == {Distance(i) : i \in In(Table, "ready")}
<1>1. \A i \in Slot : Distance(i) \in 0 .. Slots - 1
  BY TaskAssumption DEF Distance, Slot
<1>2. D \in SUBSET (0 .. Slots - 1) /\ D # {}
  BY <1>1 DEF In
<1>3. IsFiniteSet(D) /\ D \in SUBSET Nat
  BY <1>2, SlotsFinite, Zenon DEF Slot
<1>4. PICK d \in D : \A e \in D : d <= e
  BY <1>2, <1>3, Least
<1>5. \E i \in In(Table, "ready") : \A j \in In(Table, "ready") : Distance(i) <= Distance(j)
  BY <1>4
<1> QED BY <1>5 DEF NextReady, In, Table
-----------------------------------------------------------------------------
(* Identity: who is who in a table *)

\* A free slot is nobody's, a used one has a pid of its own, and slot 0 is pid
\* 1, a native process that has not ended.
Identified(T) ==
    /\ \A i \in Slot : T.task[i].state = "free" => T.task[i] = Free
    /\ \A i \in Used(T) : T.task[i].pid # 0
    /\ \A i, j \in Used(T) : T.task[i].pid = T.task[j].pid => i = j
    /\ T.task[0].pid = 1 /\ T.task[0].state \notin {"free", "zombie"}
    /\ ~T.task[0].linux /\ T.task[0].group = 0

\* allocate_pid finds a pid that no slot has, because there are at least as many
\* pids as slots and one slot is free.
LEMMA FreshPidIsFresh ==
    ASSUME NEW T \in Tables, Identified(T), In(T, "free") # {}, nextPid \in Pid
    PROVE  /\ FreshPid(T) \in Pid /\ FreshPid(T) # 1
           /\ \A i \in Slot : T.task[i].pid # FreshPid(T)
<1> DEFINE InUse == {T.task[i].pid : i \in Slot}
           Fit == (Pid \ InUse) \ {1}
           Turns == {Turn(p) : p \in Fit}
<1>1. PICK k \in Slot : T.task[k].pid = 0
  BY DEF Identified, In, Free
<1>2. ~(Pid \subseteq InUse)
  <2> SUFFICES ASSUME Pid \subseteq InUse PROVE FALSE
    OBVIOUS
  <2> DEFINE f == [p \in Pid |-> CHOOSE i \in Slot : T.task[i].pid = p]
  <2>1. \A p \in Pid : f[p] \in Slot /\ T.task[f[p]].pid = p
    OBVIOUS
  <2>2. f \in [Pid -> Slot \ {k}]
    BY <1>1, <2>1, PidsFinite
  <2>3. IsFiniteSet(Slot \ {k}) /\ Cardinality(Slot \ {k}) = Slots - 1
    BY SlotsFinite, FS_RemoveElement
  <2>4. Cardinality(Slot \ {k}) < Cardinality(Pid)
    BY <2>3, PidsFinite, TaskAssumption
  <2>5. \E p, q \in Pid : p # q /\ f[p] = f[q]
    <3> HIDE DEF f
    <3> QED BY <2>2, <2>3, <2>4, PidsFinite, FS_PigeonHole
  <2> QED BY <2>1, <2>5
<1>3. Fit # {}
  BY <1>2, SlotsFinite DEF Identified
<1>4. \A p \in Pid : Turn(p) \in 0 .. MaxPid
  BY TaskAssumption DEF Turn, Pid
<1>5. Turns \in SUBSET (0 .. MaxPid) /\ Turns # {}
  BY <1>3, <1>4
<1>6. Turns \in SUBSET Nat /\ IsFiniteSet(Turns)
  <2>1. Turns \in SUBSET Nat /\ \A t \in Turns : t <= MaxPid
    BY <1>5, TaskAssumption
  <2> HIDE DEF Turns
  <2> QED BY <2>1, FS_BoundedSetOfNaturals, TaskAssumption
<1>7. PICK t \in Turns : \A u \in Turns : t <= u
  BY <1>5, <1>6, Least
<1>8. \E p \in Pid \ InUse : p # 1 /\ \A q \in Pid \ InUse : q = 1 \/ Turn(p) <= Turn(q)
  BY <1>7
<1> QED BY <1>8 DEF FreshPid

LEMMA PidAfterType == \A p \in Pid : PidAfter(p) \in Pid
BY TaskAssumption DEF Pid, PidAfter
-----------------------------------------------------------------------------
(* The helpers, slot by slot *)

LEMMA FreeType ==
    /\ Free \in Entry
    /\ Free.state = "free" /\ Free.pid = 0 /\ Free.parent = 0 /\ Free.waitPid = 0
    /\ Free.collected = FALSE /\ Free.linux = FALSE /\ Free.group = 0 /\ Free.held = FALSE
BY DEF Free, Entry, State

LEMMA TableType == TypeOK => Table \in Tables /\ Table.task = task /\ Table.group = group
BY DEF TypeOK, Table, Tables

LEMMA MakeTable ==
    ASSUME NEW f \in [Slot -> Entry], NEW n \in [Pid -> Count]
    PROVE  [task |-> f, group |-> n] \in Tables
BY DEF Tables

LEMMA BecomesIs ==
    ASSUME NEW T \in Tables, Becomes(T)
    PROVE  Table' = T /\ task' = T.task /\ group' = T.group
BY DEF Tables, Becomes, Table

\* R is T after reaping on the stack of slot c.
ReapsTo(T, c, R) ==
    /\ R \in Tables
    /\ \A i \in Slot : R.task[i] =
          IF i \notin Reapable(T, c) THEN T.task[i]
          ELSE IF Forgettable(T.task[i]) THEN Free
          ELSE [T.task[i] EXCEPT !.group = 0, !.held = FALSE]
    /\ \A g \in Pid :
          /\ R.group[g].alive = T.group[g].alive
          /\ R.group[g].references =
                T.group[g].references - Cardinality(Reapable(T, c) \cap Members(T, g))

LEMMA ReapedIs ==
    ASSUME NEW T \in Tables, NEW c \in Slot
    PROVE  ReapsTo(T, c, Reaped(T, c)) /\ Reapable(T, c) \subseteq Slot
<1> USE DEF ReapsTo
<1> DEFINE Z == Reapable(T, c)
           New(i) == IF i \notin Z THEN T.task[i]
                     ELSE IF Forgettable(T.task[i]) THEN Free
                     ELSE [T.task[i] EXCEPT !.group = 0, !.held = FALSE]
           Less(g) == [T.group[g] EXCEPT !.references = @ - Cardinality(Z \cap Members(T, g))]
<1>1. Z \in SUBSET Slot /\ \A g : Z \cap Members(T, g) \in SUBSET Slot
  BY DEF Reapable, In
<1>2. \A g : Cardinality(Z \cap Members(T, g)) \in Nat
  BY <1>1, SlotsFinite
<1>3. \A i \in Slot : New(i) \in Entry
  BY FreeType DEF Tables, Entry
<1>4. \A g \in Pid : /\ T.group[g] \in Count /\ Less(g) \in Count
                     /\ Less(g).alive = T.group[g].alive
                     /\ Less(g).references = T.group[g].references - Cardinality(Z \cap Members(T, g))
  BY <1>2 DEF Tables, Count
<1>5. CASE Z = {}
  <2>1. Reaped(T, c) = T
    BY <1>5 DEF Reaped
  <2>2. \A g \in Pid : T.group[g].references - Cardinality(Z \cap Members(T, g))
                          = T.group[g].references
    <3>1. \A g \in Pid : Z \cap Members(T, g) = {} /\ T.group[g].references \in Int
      BY <1>5, <1>4 DEF Count
    <3>2. \A g \in Pid : Cardinality(Z \cap Members(T, g)) = 0
      BY <3>1, FS_EmptySet, Zenon
    <3> QED BY <3>1, <3>2
  <2> QED BY <1>1, <1>5, <2>1, <2>2
<1>6. CASE Z # {}
  <2>1. Reaped(T, c) = [task |-> [i \in Slot |-> New(i)], group |-> [g \in Pid |-> Less(g)]]
    BY <1>6 DEF Reaped
  <2>2. \A i \in Slot : New(i) = IF i \notin Reapable(T, c) THEN T.task[i]
                                ELSE IF Forgettable(T.task[i]) THEN Free
                                ELSE [T.task[i] EXCEPT !.group = 0, !.held = FALSE]
    OBVIOUS
  <2> HIDE DEF Z, New, Less
  <2>3. Reaped(T, c) \in Tables
    <3>1. [i \in Slot |-> New(i)] \in [Slot -> Entry] /\ [g \in Pid |-> Less(g)] \in [Pid -> Count]
      BY <1>3, <1>4
    <3> QED BY <2>1, <3>1, MakeTable
  <2>4. /\ \A i \in Slot : Reaped(T, c).task[i] = New(i)
        /\ \A g \in Pid : Reaped(T, c).group[g] = Less(g)
    BY <2>1
  <2>5. Z = Reapable(T, c) /\ Z \subseteq Slot
    BY <1>1 DEF Z
  <2>6. \A g \in Pid : /\ Less(g).alive = T.group[g].alive
                       /\ Less(g).references =
                             T.group[g].references - Cardinality(Reapable(T, c) \cap Members(T, g))
    BY <1>4, <2>5
  <2> HIDE DEF Z
  <2> QED BY <2>2, <2>3, <2>4, <2>5, <2>6, Zenon
<1> QED BY <1>5, <1>6

\* F is T after the end of the slots of S.
EndsTo(T, S, F) ==
    /\ F \in Tables
    /\ \A i \in Slot :
          /\ F.task[i].state =
                IF i \in S THEN "zombie"
                ELSE IF \E j \in Told(T, S) : Awaits(T, S, i, j) THEN "ready"
                ELSE T.task[i].state
          /\ F.task[i].parent =
                IF T.task[i].parent \in {T.task[j].pid : j \in Told(T, S)}
                THEN 0 ELSE T.task[i].parent
          /\ F.task[i].collected =
                \/ T.task[i].collected
                \/ i \in Told(T, S) /\ \E p \in Slot : Awaits(T, S, p, i)
          /\ F.task[i].pid = T.task[i].pid /\ F.task[i].waitPid = T.task[i].waitPid
          /\ F.task[i].linux = T.task[i].linux /\ F.task[i].group = T.task[i].group
          /\ F.task[i].held = T.task[i].held
    /\ \A g \in Pid :
          /\ F.group[g].alive = T.group[g].alive - Cardinality(S \cap Members(T, g))
          /\ F.group[g].references = T.group[g].references

LEMMA FinishedIs ==
    ASSUME NEW T \in Tables, NEW S \in SUBSET Slot
    PROVE  EndsTo(T, S, Finished(T, S))
<1> USE DEF EndsTo
<1> DEFINE told == Told(T, S)
           gone == {T.task[i].pid : i \in told}
           woken == {p \in Slot : \E i \in told : Awaits(T, S, p, i)}
           New(i) == [T.task[i] EXCEPT
                      !.state = IF i \in S THEN "zombie"
                                ELSE IF i \in woken THEN "ready" ELSE @,
                      !.parent = OrphanedParent(T.task[i], gone),
                      !.collected = \/ @
                                    \/ i \in told /\ \E p \in woken : Awaits(T, S, p, i)]
           Less(g) == [T.group[g] EXCEPT !.alive = @ - Cardinality(S \cap Members(T, g))]
<1>1. \A g : Cardinality(S \cap Members(T, g)) \in Nat
  BY SlotsFinite
<1>2. \A g \in Pid : /\ Less(g) \in Count /\ Less(g).references = T.group[g].references
                     /\ Less(g).alive = T.group[g].alive - Cardinality(S \cap Members(T, g))
  BY <1>1 DEF Tables, Count
<1>3. ASSUME NEW i \in Slot
      PROVE  /\ New(i) \in Entry
             /\ New(i).state = IF i \in S THEN "zombie"
                               ELSE IF i \in woken THEN "ready" ELSE T.task[i].state
             /\ New(i).parent = OrphanedParent(T.task[i], gone)
             /\ New(i).collected = (T.task[i].collected \/
                                    (i \in told /\ \E p \in woken : Awaits(T, S, p, i)))
             /\ New(i).pid = T.task[i].pid /\ New(i).waitPid = T.task[i].waitPid
             /\ New(i).linux = T.task[i].linux /\ New(i).group = T.task[i].group
             /\ New(i).held = T.task[i].held
  <2>1. T.task[i] \in Entry
    BY DEF Tables
  <2>2. OrphanedParent(T.task[i], gone) \in Pid \cup {0}
    BY <2>1 DEF OrphanedParent, Entry
  <2> HIDE DEF told, gone, woken
  <2> QED BY <2>1, <2>2, ZenonT(40) DEF Entry, State
<1>4. Finished(T, S) = [task |-> [i \in Slot |-> New(i)], group |-> [g \in Pid |-> Less(g)]]
  BY DEF Finished
<1>5. \A i \in Slot : (i \in told /\ \E p \in woken : Awaits(T, S, p, i))
                      <=> (i \in Told(T, S) /\ \E p \in Slot : Awaits(T, S, p, i))
  OBVIOUS
<1>6. \A i \in Slot : i \in woken <=> \E j \in Told(T, S) : Awaits(T, S, i, j)
  OBVIOUS
<1>7. \A i \in Slot : OrphanedParent(T.task[i], gone) =
                      IF T.task[i].parent \in {T.task[j].pid : j \in Told(T, S)}
                      THEN 0 ELSE T.task[i].parent
  BY DEF OrphanedParent
<1> HIDE DEF told, gone, woken, New, Less
<1>8. Finished(T, S) \in Tables
  <2>1. [i \in Slot |-> New(i)] \in [Slot -> Entry] /\ [g \in Pid |-> Less(g)] \in [Pid -> Count]
    BY <1>2, <1>3
  <2> QED BY <2>1, <1>4, MakeTable
<1>9. ASSUME NEW i \in Slot PROVE Finished(T, S).task[i] = New(i)
  BY <1>4
<1>10. \A g \in Pid : Finished(T, S).group[g] = Less(g)
  BY <1>4
<1>11. \A i \in Slot :
        /\ New(i).state = IF i \in S THEN "zombie"
                          ELSE IF \E j \in Told(T, S) : Awaits(T, S, i, j) THEN "ready"
                          ELSE T.task[i].state
        /\ New(i).parent = IF T.task[i].parent \in {T.task[j].pid : j \in Told(T, S)}
                           THEN 0 ELSE T.task[i].parent
        /\ New(i).collected = \/ T.task[i].collected
                              \/ /\ i \in Told(T, S)
                                 /\ \E p \in Slot : Awaits(T, S, p, i)
  BY <1>3, <1>5, <1>6, <1>7, Zenon
<1> QED BY <1>2, <1>3, <1>8, <1>9, <1>10, <1>11, ZenonT(40)
-----------------------------------------------------------------------------
(* Roles: what the processes of a table are to each other and to the kernel *)

\* Native processes are in no thread group, and nobody is in one of pid 1;
\* whoever has not ended has its memory; the session manager, if there is one,
\* is a native process that has not ended and is pid 1 or its child.
Roles(T, m) ==
    /\ \A i \in Used(T) : T.task[i].linux \/ T.task[i].group = 0
    /\ \A i \in Used(T) : T.task[i].group # 1
    /\ \A i \in Live(T) : T.task[i].held
    /\ m # 0 => \E i \in Live(T) :
          T.task[i].pid = m /\ ~T.task[i].linux /\ (i = 0 \/ T.task[i].parent = 1)

Sound(T, m) == T \in Tables /\ Identified(T) /\ Roles(T, m)

LEMMA ReapedSound ==
    ASSUME NEW T, NEW m, Sound(T, m), NEW c \in Slot
    PROVE  /\ Sound(Reaped(T, c), m)
           /\ Reaped(T, c).task[c] = T.task[c]
           /\ Live(Reaped(T, c)) = Live(T)
           /\ \A i \in Live(T) : Reaped(T, c).task[i] = T.task[i]
<1> DEFINE R == Reaped(T, c)
<1> USE DEF Sound
<1>0. ReapsTo(T, c, R)
  BY ReapedIs
<1> HIDE DEF R
<1>1. /\ \A i \in Slot : i \in Reapable(T, c) => T.task[i].state = "zombie"
      /\ c \notin Reapable(T, c)
  BY DEF Reapable, In
<1>2. \A i \in Slot : T.task[i] \in Entry
  BY DEF Tables
<1>3. \A i \in Slot :
         \/ R.task[i] = T.task[i]
         \/ T.task[i].state = "zombie" /\ R.task[i] = Free
         \/ /\ T.task[i].state = "zombie"
            /\ R.task[i] = [T.task[i] EXCEPT !.group = 0, !.held = FALSE]
  BY <1>0, <1>1 DEF ReapsTo
<1>4. R \in Tables
  BY <1>0 DEF ReapsTo
<1>5. R.task[c] = T.task[c]
  BY <1>0, <1>1 DEF ReapsTo
<1>6. ASSUME NEW i \in Slot
      PROVE  /\ i \in Used(R) => i \in Used(T)
             /\ i \in Used(R) => /\ R.task[i].pid = T.task[i].pid
                                 /\ R.task[i].linux = T.task[i].linux
                                 /\ R.task[i].group \in {0, T.task[i].group}
             /\ i \in Live(R) <=> i \in Live(T)
             /\ i \in Live(T) => R.task[i] = T.task[i]
             /\ R.task[i].state = "free" => R.task[i] = Free
  <2>1. CASE R.task[i] = T.task[i]
    BY <2>1 DEF Used, Live, Identified
  <2>2. CASE T.task[i].state = "zombie" /\ R.task[i] = Free
    BY <2>2, FreeType DEF Used, Live
  <2>3. CASE /\ T.task[i].state = "zombie"
             /\ R.task[i] = [T.task[i] EXCEPT !.group = 0, !.held = FALSE]
    <3>1. /\ R.task[i].state = "zombie" /\ R.task[i].pid = T.task[i].pid
          /\ R.task[i].linux = T.task[i].linux /\ R.task[i].group = 0
      BY <1>2, <2>3 DEF Entry
    <3> QED BY <2>3, <3>1 DEF Used, Live
  <2> QED BY <1>3, <2>1, <2>2, <2>3
<1>7. Live(R) = Live(T)
  BY <1>6 DEF Live
<1>8. Identified(R)
  BY <1>6, SlotsFinite, <1>7 DEF Identified, Used, Live
<1>9. Roles(R, m)
  <2>1. \A i \in Used(R) : (R.task[i].linux \/ R.task[i].group = 0) /\ R.task[i].group # 1
    BY <1>6 DEF Roles, Used
  <2>2. \A i \in Live(R) : R.task[i].held
    BY <1>6, <1>7 DEF Roles, Live
  <2>3. m # 0 => \E i \in Live(R) :
          R.task[i].pid = m /\ ~R.task[i].linux /\ (i = 0 \/ R.task[i].parent = 1)
    BY <1>6, <1>7 DEF Roles, Live
  <2> QED BY <2>1, <2>2, <2>3 DEF Roles
<1>10. \A i \in Live(T) : R.task[i] = T.task[i]
  BY <1>6 DEF Live
<1> QED BY <1>4, <1>5, <1>7, <1>8, <1>9, <1>10 DEF R

\* Ending S, without pid 1 and the session manager, or with the manager's role.
LEMMA FinishedSound ==
    ASSUME NEW T, NEW m, Sound(T, m), NEW S, S \subseteq Live(T), 0 \notin S,
           NEW n, n \in {0, m}, n # 0 => \A i \in S : T.task[i].pid # n
    PROVE  /\ Sound(Finished(T, S), n)
           /\ Live(Finished(T, S)) = Live(T) \ S
           /\ \A i \in Slot : T.task[i].state = "ready" /\ i \notin S
                 => Finished(T, S).task[i].state = "ready"
           /\ \A i \in Slot : /\ Finished(T, S).task[i].held = T.task[i].held
                             /\ Finished(T, S).task[i].pid = T.task[i].pid
<1> DEFINE F == Finished(T, S)
<1> USE DEF Sound
<1>1. S \in SUBSET Slot
  BY DEF Live
<1>0. EndsTo(T, S, F)
  BY <1>1, FinishedIs
<1> HIDE DEF F
<1>2. F \in Tables
  BY <1>0 DEF EndsTo
<1>3. ASSUME NEW i \in Slot
      PROVE  /\ F.task[i].pid = T.task[i].pid /\ F.task[i].linux = T.task[i].linux
             /\ F.task[i].group = T.task[i].group /\ F.task[i].held = T.task[i].held
             /\ \/ i \in S /\ F.task[i].state = "zombie"
                \/ i \notin S /\ F.task[i].state = T.task[i].state
                \/ i \notin S /\ T.task[i].state = "waiting" /\ F.task[i].state = "ready"
  BY <1>0 DEF EndsTo, Awaits
<1>4. ASSUME NEW i \in Slot, T.task[i].state = "free" PROVE F.task[i] = Free
  <2>1. i \notin Told(T, S) /\ i \notin S /\ T.task[i] = Free
    BY <1>4, SlotsFinite DEF Told, Used, Live, Identified
  <2>2. /\ F.task[i].state = "free" /\ F.task[i].parent = 0 /\ F.task[i].collected = FALSE
        /\ F.task[i].pid = 0 /\ F.task[i].waitPid = 0 /\ F.task[i].linux = FALSE
        /\ F.task[i].group = 0 /\ F.task[i].held = FALSE
    BY <2>1, <1>0, FreeType DEF EndsTo, Awaits
  <2>3. F.task[i] \in Entry
    BY <1>2 DEF Tables
  <2> QED BY <2>2, <2>3 DEF Free, Entry
<1>5. \A i \in Told(T, S) : T.task[i].pid # 1
  <2> SUFFICES ASSUME NEW i \in Told(T, S), T.task[i].pid = 1 PROVE FALSE
    OBVIOUS
  <2>1. i = 0
    BY SlotsFinite DEF Told, Identified, Used
  <2>2. Members(T, 1) = {}
    BY DEF Members, Roles
  <2> QED BY <2>1, <2>2 DEF Told, Identified
<1>6. \A i \in Slot : T.task[i].parent = 1 => F.task[i].parent = 1
  BY <1>0, <1>5, ZenonT(40) DEF EndsTo
<1>7. Used(F) = Used(T) /\ Live(F) = Live(T) \ S
  BY <1>3 DEF Used, Live
<1>8. Identified(F)
  BY <1>3, <1>4, <1>7, SlotsFinite DEF Identified, Used
<1>9. Roles(F, n)
  <2>1. \A i \in Used(F) : (F.task[i].linux \/ F.task[i].group = 0) /\ F.task[i].group # 1
    BY <1>3, <1>7 DEF Roles, Used
  <2>2. \A i \in Live(F) : F.task[i].held
    BY <1>3, <1>7 DEF Roles, Live
  <2>3. n # 0 => \E i \in Live(F) :
          F.task[i].pid = n /\ ~F.task[i].linux /\ (i = 0 \/ F.task[i].parent = 1)
    BY <1>3, <1>6, <1>7 DEF Roles, Live
  <2> QED BY <2>1, <2>2, <2>3 DEF Roles
<1> QED BY <1>2, <1>3, <1>7, <1>8, <1>9 DEF F

LEMMA SessionEndedSound ==
    ASSUME NEW T, NEW m, Sound(T, m), NEW c \in Slot
    PROVE  /\ Sound(SessionEnded(T, m, c), m)
           /\ SessionEnded(T, m, c).task[c].held = T.task[c].held
           /\ \A i \in Live(T) : T.task[i].pid \in {1, m} =>
                 /\ i \in Live(SessionEnded(T, m, c))
                 /\ SessionEnded(T, m, c).task[i].pid = T.task[i].pid
           /\ \A i \in Slot : T.task[i].pid \in {1, m} /\ T.task[i].state = "ready"
                 => SessionEnded(T, m, c).task[i].state = "ready"
<1> DEFINE S == {i \in Live(T) : T.task[i].pid \notin {1, m}}
           F == Finished(T, S)
           U == Reaped(F, c)
<1>1. S \subseteq Live(T) /\ 0 \notin S
  BY DEF Sound, Identified
<1>2. \A i \in S : T.task[i].pid # m
  OBVIOUS
<1>3. \A i \in Slot : T.task[i].pid \in {1, m} => i \notin S
  OBVIOUS
<1>4. SessionEnded(T, m, c) = U
  BY DEF SessionEnded
<1> HIDE DEF S, F
<1>5. /\ Sound(F, m) /\ Live(F) = Live(T) \ S
      /\ \A i \in Slot : T.task[i].state = "ready" /\ i \notin S => F.task[i].state = "ready"
      /\ \A i \in Slot : F.task[i].held = T.task[i].held /\ F.task[i].pid = T.task[i].pid
  BY <1>1, <1>2, FinishedSound DEF F
<1>6. /\ Sound(U, m) /\ U.task[c] = F.task[c] /\ Live(U) = Live(F)
      /\ \A i \in Live(F) : U.task[i] = F.task[i]
  BY <1>5, ReapedSound
<1> HIDE DEF U
<1>7. U.task[c].held = T.task[c].held
  BY <1>5, <1>6
<1>8. \A i \in Live(T) : T.task[i].pid \in {1, m} => i \in Live(U) /\ U.task[i].pid = T.task[i].pid
  BY <1>3, <1>5, <1>6 DEF Live
<1>9. ASSUME NEW i \in Slot, T.task[i].pid \in {1, m}, T.task[i].state = "ready"
      PROVE  U.task[i].state = "ready"
  <2>1. i \in Live(T) /\ i \notin S
    BY <1>3, <1>9 DEF Live
  <2> QED BY <2>1, <1>5, <1>6, <1>9
<1> QED BY <1>4, <1>6, <1>7, <1>8, <1>9

\* What exit, exit_group and stop do to the processes of S.
LEMMA EndedSound ==
    ASSUME NEW T, Sound(T, manager), NEW c \in Slot,
           NEW S, S \subseteq Live(T), 0 \notin S,
           \A i \in S : T.task[i].pid = manager => S = {i}
    PROVE  /\ Sound(Ended(T, S, c), Unmanaged(T, S))
           /\ Ended(T, S, c).task[c].held = T.task[c].held
           /\ c \notin S /\ T.task[c].state = "ready" /\ (c = 0 \/ Unmanaged(T, S) = manager)
                 => Ended(T, S, c).task[c].state = "ready"
<1>1. CASE \E i \in S : T.task[i].pid = manager
  <2> DEFINE U == SessionEnded(T, manager, c)
  <2>1. PICK k \in S : T.task[k].pid = manager /\ S = {k}
    BY <1>1
  <2>2. /\ Ended(T, S, c) = Finished(U, S) /\ Unmanaged(T, S) = 0
    BY <1>1 DEF Ended, Unmanaged
  <2>3. manager # 0
    BY <2>1 DEF Sound, Identified, Used, Live
  <2>4. /\ Sound(U, manager) /\ U.task[c].held = T.task[c].held
        /\ k \in Live(U)
        /\ \A i \in Slot : T.task[i].pid \in {1, manager} /\ T.task[i].state = "ready"
                 => U.task[i].state = "ready"
    BY <2>1, SessionEndedSound
  <2> HIDE DEF U
  <2>5. S \subseteq Live(U) /\ 0 \notin S
    BY <2>1, <2>4
  <2>6. /\ Sound(Finished(U, S), 0)
        /\ \A i \in Slot : U.task[i].state = "ready" /\ i \notin S
                 => Finished(U, S).task[i].state = "ready"
        /\ \A i \in Slot : Finished(U, S).task[i].held = U.task[i].held
    BY <2>4, <2>5, FinishedSound, SMTT(30)
  <2>7. c = 0 /\ T.task[c].state = "ready" => U.task[c].state = "ready"
    BY <2>4 DEF Sound, Identified
  <2> QED BY <2>2, <2>3, <2>4, <2>6, <2>7
<1>2. CASE ~\E i \in S : T.task[i].pid = manager
  <2>1. Ended(T, S, c) = Finished(T, S) /\ Unmanaged(T, S) = manager
    BY <1>2 DEF Ended, Unmanaged
  <2>2. /\ Sound(Finished(T, S), manager)
        /\ \A i \in Slot : T.task[i].state = "ready" /\ i \notin S
                 => Finished(T, S).task[i].state = "ready"
        /\ \A i \in Slot : Finished(T, S).task[i].held = T.task[i].held
    BY <1>2, FinishedSound
  <2> QED BY <2>1, <2>2
<1> QED BY <1>1, <1>2

\* Nobody ends with pid 1 or with the session manager but themselves.
LEMMA CompanyAlive ==
    ASSUME NEW T, NEW m, Sound(T, m), NEW i \in Live(T), i # 0
    PROVE  /\ Company(T, i) \subseteq Live(T) /\ 0 \notin Company(T, i) /\ i \in Company(T, i)
           /\ \A j \in Company(T, i) : T.task[j].pid = m => Company(T, i) = {j}
<1>1. CASE T.task[i].group = 0
  BY <1>1 DEF Company
<1>2. CASE T.task[i].group # 0
  <2>1. Company(T, i) = Live(T) \cap Members(T, T.task[i].group)
    BY <1>2 DEF Company
  <2>2. i \in Company(T, i)
    BY <2>1, <1>2 DEF Members, Live, Used
  <2>3. \A j \in Company(T, i) : T.task[j].group # 0 /\ T.task[j].linux /\ j \in Used(T)
    BY <2>1, <1>2 DEF Sound, Roles, Members
  <2>4. 0 \notin Company(T, i)
    BY <2>3 DEF Sound, Identified
  <2>5. ASSUME NEW j \in Company(T, i), T.task[j].pid = m PROVE FALSE
    <3>1. m # 0
      BY <2>3, <2>5 DEF Sound, Identified
    <3>2. PICK k \in Live(T) : T.task[k].pid = m /\ ~T.task[k].linux
      BY <3>1 DEF Sound, Roles
    <3>3. k = j
      BY <2>3, <2>5, <3>2 DEF Sound, Identified, Live, Used
    <3> QED BY <2>3, <3>2, <3>3
  <2> QED BY <2>1, <2>2, <2>4, <2>5
<1> QED BY <1>1, <1>2

LEMMA InstalledIs ==
    ASSUME NEW T \in Tables, NEW e \in Entry, In(T, "free") # {}
    PROVE  /\ Installed(T, e) \in Tables
           /\ FirstFree(T) \in Slot /\ T.task[FirstFree(T)].state = "free"
           /\ \A i \in Slot : Installed(T, e).task[i] = IF i = FirstFree(T) THEN e ELSE T.task[i]
           /\ Installed(T, e).group = T.group
<1>1. FirstFree(T) \in Slot /\ T.task[FirstFree(T)].state = "free"
  BY FirstFreeIsFree
<1>2. Installed(T, e) = [task |-> [T.task EXCEPT ![FirstFree(T)] = e], group |-> T.group]
  BY DEF Installed, Tables
<1>3. [T.task EXCEPT ![FirstFree(T)] = e] \in [Slot -> Entry] /\ T.group \in [Pid -> Count]
  BY <1>1 DEF Tables
<1> QED BY <1>1, <1>2, <1>3, MakeTable DEF Tables

LEMMA InstalledSound ==
    ASSUME NEW T, NEW m, Sound(T, m), In(T, "free") # {}, nextPid \in Pid,
           NEW e \in Entry, e.pid = FreshPid(T), e.state \notin {"free", "zombie"}, e.held,
           e.linux \/ e.group = 0, e.group # 1
    PROVE  /\ Sound(Installed(T, e), m)
           /\ \A i \in Used(T) : Installed(T, e).task[i] = T.task[i]
<1> DEFINE I == Installed(T, e)
           f == FirstFree(T)
<1>1. /\ I \in Tables /\ f \in Slot /\ T.task[f].state = "free"
      /\ \A i \in Slot : I.task[i] = IF i = f THEN e ELSE T.task[i]
  BY InstalledIs DEF Sound
<1>2. e.pid # 0 /\ e.pid # 1 /\ \A i \in Slot : T.task[i].pid # e.pid
  BY FreshPidIsFresh, PidsFinite DEF Sound
<1> HIDE DEF I, f
<1>3. f # 0 /\ f \notin Used(T) /\ f \notin Live(T)
  BY <1>1 DEF Sound, Identified, Used, Live
<1>4. \A i \in Used(T) : I.task[i] = T.task[i] /\ i # f
  BY <1>1, <1>3 DEF Used
<1>5. \A i \in Slot : i \in Used(I) <=> i \in Used(T) \/ i = f
  BY <1>1 DEF Used
<1>6. \A i \in Slot : i \in Live(I) <=> i \in Live(T) \/ i = f
  BY <1>1 DEF Live
<1>7. Identified(I)
  <2>1. \A i \in Slot : I.task[i].state = "free" => I.task[i] = Free
    BY <1>1 DEF Sound, Identified
  <2>2. \A i, j \in Used(I) : I.task[i].pid = I.task[j].pid => i = j
    BY <1>1, <1>2, <1>5 DEF Sound, Identified, Used
  <2>3. \A i \in Used(I) : I.task[i].pid # 0
    BY <1>1, <1>2, <1>5 DEF Sound, Identified, Used
  <2>4. I.task[0] = T.task[0]
    BY <1>1, <1>3, SlotsFinite
  <2> QED BY <2>1, <2>2, <2>3, <2>4 DEF Sound, Identified
<1>8. Roles(I, m)
  <2>1. \A i \in Used(I) : (I.task[i].linux \/ I.task[i].group = 0) /\ I.task[i].group # 1
    BY <1>1, <1>5 DEF Sound, Roles, Used
  <2>2. \A i \in Live(I) : I.task[i].held
    BY <1>1, <1>6 DEF Sound, Roles, Live
  <2>3. m # 0 => \E i \in Live(I) :
          I.task[i].pid = m /\ ~I.task[i].linux /\ (i = 0 \/ I.task[i].parent = 1)
    BY <1>1, <1>3, <1>6 DEF Sound, Roles, Live
  <2> QED BY <2>1, <2>2, <2>3 DEF Roles
<1> QED BY <1>1, <1>4, <1>7, <1>8 DEF Sound, I
-----------------------------------------------------------------------------
(* The processes stay sound.  A Linux thread that may use STOP can end      *)
(* itself with its group and go on running (the run task_stop), so from here *)
(* on threads do not use it.                                                 *)

NoThreadStops == "stop" \notin NativeThreads

SoundInv == TypeOK /\ Sound(Table, manager) /\ StackUnderFoot

LEMMA StepSound ==
    ASSUME NEW T, Becomes(T), Sound(T, manager'), current' \in Slot, at' \in {"user", "scan"},
           nextPid' \in Pid, manager' \in Pid \cup {0}, T.task[current'].held,
           at' = "user" => T.task[current'].state = "ready"
    PROVE  SoundInv'
<1>1. T \in Tables
  BY DEF Sound
<1>2. Table' = T /\ task' = T.task /\ group' = T.group
  BY <1>1, BecomesIs
<1>3. TypeOK'
  BY <1>1, <1>2 DEF TypeOK, Tables
<1>4. StackUnderFoot'
  BY <1>2 DEF StackUnderFoot
<1>5. Sound(Table, manager)'
  BY <1>2
<1> QED BY <1>3, <1>4, <1>5 DEF SoundInv

LEMMA EnteredSound ==
    ASSUME SoundInv
    PROVE  /\ Sound(Entered, manager)
           /\ Entered.task[current] = Me
           /\ Live(Entered) = Live(Table)
           /\ \A i \in Live(Table) : Entered.task[i] = task[i]
           /\ at = "user" => current \in Live(Entered)
BY TableType, ReapedSound, SMTT(30) DEF SoundInv, TypeOK, Entered, Me, StackUnderFoot, Live

LEMMA NothingInstalledBelow ==
    ASSUME SoundInv PROVE current \in Used(Entered) /\ current \in Slot /\ Me \in Entry
           /\ Me.pid \in Pid /\ Entered \in Tables /\ manager \in Pid \cup {0}
<1>1. current \in Slot /\ Me \in Entry /\ task[current].held
  BY DEF SoundInv, TypeOK, Me, StackUnderFoot
<1>2. task[current].state # "free"
  BY <1>1, TableType, FreeType DEF SoundInv, Sound, Identified
<1>3. current \in Used(Entered)
  BY <1>1, <1>2, EnteredSound DEF Me, Used
<1>4. Me.pid \in Pid
  BY <1>1, <1>3, EnteredSound DEF Sound, Identified, Entry
<1> QED BY <1>1, <1>3, <1>4, EnteredSound DEF SoundInv, TypeOK, Sound

Newborn(p, q, foreign) ==
    [Free EXCEPT !.state = "ready", !.pid = p, !.parent = q, !.linux = foreign, !.held = TRUE]

LEMMA SpawnSound ==
    ASSUME SoundInv, NEW foreign \in BOOLEAN, Spawn(foreign)
    PROVE  SoundInv'
<1> DEFINE p == FreshPid(Entered)
           e == Newborn(p, Me.pid, foreign)
           I == Installed(Entered, e)
<1>1. /\ at = "user" /\ In(Entered, "free") # {} /\ Becomes(I) /\ nextPid' = PidAfter(p)
      /\ current' = current /\ at' = at /\ manager' = manager
  BY DEF Spawn, NativeCall, Newborn
<1>2. nextPid \in Pid /\ current \in Slot /\ manager \in Pid \cup {0}
  BY DEF SoundInv, TypeOK
<1>3. p \in Pid /\ PidAfter(p) \in Pid
  BY <1>1, <1>2, EnteredSound, FreshPidIsFresh, PidAfterType DEF Sound
<1>4. e \in Entry /\ e.pid = p /\ e.state = "ready" /\ e.held /\ e.group = 0
  <2>1. e = Newborn(p, Me.pid, foreign) /\ Me.pid \in Pid /\ p \in Pid
    BY <1>3, NothingInstalledBelow
  <2> HIDE DEF e, p
  <2>2. /\ Newborn(p, Me.pid, foreign) \in Entry
        /\ Newborn(p, Me.pid, foreign).pid = p
        /\ Newborn(p, Me.pid, foreign).state = "ready"
        /\ Newborn(p, Me.pid, foreign).held = TRUE
        /\ Newborn(p, Me.pid, foreign).group = 0
    BY <2>1, FreeType DEF Newborn, Entry, State, Free
  <2> QED BY <2>1, <2>2
<1> HIDE DEF e, p
<1>5. Sound(I, manager) /\ \A i \in Used(Entered) : I.task[i] = Entered.task[i]
  BY <1>1, <1>2, <1>4, EnteredSound, InstalledSound DEF p
<1>6. I.task[current] = Me
  BY <1>5, EnteredSound, NothingInstalledBelow
<1>7. Me.held /\ Me.state = "ready"
  BY <1>1 DEF SoundInv, StackUnderFoot, Me
<1> HIDE DEF I
<1> QED BY <1>1, <1>2, <1>3, <1>5, <1>6, <1>7, StepSound

LEMMA ExecSound ==
    ASSUME SoundInv, NEW foreign \in BOOLEAN, Exec(foreign)
    PROVE  SoundInv'
<1> DEFINE f == [Entered.task EXCEPT ![current].linux = foreign, ![current].group = 0]
           n == IF Me.group = 0 THEN Entered.group
                ELSE [Entered.group EXCEPT ![Me.group] = NoGroup]
           T == [task |-> f, group |-> n]
<1>1. /\ at = "user" /\ Me.pid \notin {1, manager} /\ Becomes(T)
      /\ current' = current /\ at' = at /\ manager' = manager /\ nextPid' = nextPid
  BY DEF Exec, NativeCall, LinuxCall
<1>2. nextPid \in Pid /\ current \in Slot /\ manager \in Pid \cup {0} /\ Me \in Entry
      /\ Entered \in Tables /\ Entered.task[current] = Me
  BY EnteredSound, NothingInstalledBelow DEF SoundInv, TypeOK
<1>3. /\ f \in [Slot -> Entry]
      /\ \A i \in Slot : i # current => f[i] = Entered.task[i]
      /\ f[current].state = Me.state /\ f[current].pid = Me.pid /\ f[current].held = Me.held
      /\ f[current].group = 0
  BY <1>2 DEF Tables, Entry
<1>4. NoGroup \in Count
  BY DEF NoGroup, Count
<1>5. n \in [Pid -> Count]
  BY <1>2, <1>4 DEF Tables, Entry
<1> HIDE DEF f, n
<1>6. T \in Tables /\ T.task = f
  BY <1>3, <1>5, MakeTable
<1>7. Me.held /\ Me.state = "ready"
  BY <1>1 DEF SoundInv, StackUnderFoot, Me
<1> HIDE DEF T
<1>8. /\ \A i \in Slot : T.task[i].state = Entered.task[i].state /\ T.task[i].pid = Entered.task[i].pid
      /\ \A i \in Slot : T.task[i].held = Entered.task[i].held
      /\ \A i \in Slot \ {current} : T.task[i] = Entered.task[i]
      /\ T.task[current].group = 0
  BY <1>2, <1>3, <1>6
<1>9. Used(T) = Used(Entered) /\ Live(T) = Live(Entered)
  BY <1>8 DEF Used, Live
<1>10. current # 0 /\ Sound(Entered, manager)
  BY <1>1, <1>2, EnteredSound DEF Sound, Identified
<1>11. Identified(T)
  BY <1>7, <1>8, <1>9, <1>10, <1>2, SlotsFinite DEF Sound, Identified, Used
<1>12. Roles(T, manager)
  <2>1. \A i \in Used(T) : (T.task[i].linux \/ T.task[i].group = 0) /\ T.task[i].group # 1
    BY <1>8, <1>9, <1>10 DEF Sound, Roles, Used
  <2>2. \A i \in Live(T) : T.task[i].held
    BY <1>8, <1>9, <1>10 DEF Sound, Roles, Live
  <2>3. manager # 0 => \E i \in Live(T) :
          T.task[i].pid = manager /\ ~T.task[i].linux /\ (i = 0 \/ T.task[i].parent = 1)
    BY <1>1, <1>2, <1>8, <1>9, <1>10 DEF Sound, Roles, Live
  <2> QED BY <2>1, <2>2, <2>3 DEF Roles
<1>13. Sound(T, manager)
  BY <1>6, <1>11, <1>12 DEF Sound
<1> QED BY <1>1, <1>2, <1>3, <1>6, <1>7, <1>13, StepSound

NewThread(e, p, leader) ==
    [e EXCEPT !.pid = p, !.parent = leader, !.waitPid = 0, !.collected = TRUE, !.group = leader]

LEMMA ThreadType ==
    ASSUME NEW e \in Entry, NEW p \in Pid, NEW leader \in Pid
    PROVE  /\ NewThread(e, p, leader) \in Entry
           /\ NewThread(e, p, leader).pid = p /\ NewThread(e, p, leader).parent = leader
           /\ NewThread(e, p, leader).group = leader /\ NewThread(e, p, leader).collected = TRUE
           /\ NewThread(e, p, leader).state = e.state /\ NewThread(e, p, leader).held = e.held
           /\ NewThread(e, p, leader).linux = e.linux
BY DEF Entry, NewThread

\* The first clone makes the caller the leader of a group.
Leader == IF Me.group = 0 THEN Me.pid ELSE Me.group
Joined ==
    LET counts == IF Me.group = 0 THEN [alive |-> 1, references |-> 1]
                  ELSE Entered.group[Leader]
    IN  [task |-> [Entered.task EXCEPT ![current].group = Leader],
         group |-> [Entered.group EXCEPT ![Leader] =
             [alive |-> counts.alive + 1, references |-> counts.references + 1]]]
Thread == NewThread(Me, FreshPid(Entered), Leader)

LEMMA CloneIs ==
    Clone <=> /\ LinuxCall /\ In(Entered, "free") # {}
              /\ Becomes(Installed(Joined, Thread))
              /\ nextPid' = PidAfter(FreshPid(Entered))
              /\ UNCHANGED <<current, at, manager>>
BY DEF Clone, Joined, Thread, NewThread, Leader

LEMMA JoinedSound ==
    ASSUME SoundInv, LinuxCall
    PROVE  /\ Leader \in Pid /\ Leader # 1 /\ current # 0
           /\ Sound(Joined, manager)
           /\ Joined.task[current].group = Leader
           /\ Joined.task[current].state = "ready" /\ Joined.task[current].held
           /\ \A i \in Slot : i # current => Joined.task[i] = Entered.task[i]
           /\ \A i \in Slot : /\ Joined.task[i].pid = Entered.task[i].pid
                              /\ Joined.task[i].state = Entered.task[i].state
                              /\ Joined.task[i].parent = Entered.task[i].parent
                              /\ Joined.task[i].collected = Entered.task[i].collected
                              /\ Joined.task[i].waitPid = Entered.task[i].waitPid
                              /\ Joined.task[i].linux = Entered.task[i].linux
           /\ \A g \in Pid : g # Leader => Joined.group[g] = Entered.group[g]
           /\ Joined.group[Leader] =
                 IF Me.group = 0 THEN [alive |-> 2, references |-> 2]
                 ELSE [alive |-> Entered.group[Leader].alive + 1,
                       references |-> Entered.group[Leader].references + 1]
<1> DEFINE counts == IF Me.group = 0 THEN [alive |-> 1, references |-> 1]
                     ELSE Entered.group[Leader]
           f == [Entered.task EXCEPT ![current].group = Leader]
           n == [Entered.group EXCEPT ![Leader] =
                    [alive |-> counts.alive + 1, references |-> counts.references + 1]]
<1>1. /\ at = "user" /\ Me.linux /\ Me.state = "ready" /\ Me.held
      /\ current \in Slot /\ Me \in Entry /\ Entered \in Tables
      /\ Entered.task[current] = Me /\ Me.pid \in Pid /\ current \in Used(Entered)
  BY EnteredSound, NothingInstalledBelow DEF SoundInv, StackUnderFoot, Me, LinuxCall
<1>2. Sound(Entered, manager)
  BY EnteredSound
<1>3. current # 0
  BY <1>1, <1>2 DEF Sound, Identified
<1>4. Me.pid # 1
  BY <1>1, <1>2, <1>3, SlotsFinite DEF Sound, Identified, Used
<1>5. Leader \in Pid /\ Leader # 1
  BY <1>1, <1>2, <1>4 DEF Leader, Entry, Sound, Roles, Used
<1>6. Joined = [task |-> f, group |-> n]
  BY DEF Joined
<1>7. /\ f \in [Slot -> Entry]
      /\ \A i \in Slot : i # current => f[i] = Entered.task[i]
      /\ f[current] = [Me EXCEPT !.group = Leader]
  BY <1>1, <1>5 DEF Tables, Entry
<1>8. /\ f[current].state = Me.state /\ f[current].pid = Me.pid /\ f[current].held = Me.held
      /\ f[current].group = Leader /\ f[current].linux = Me.linux
      /\ f[current].parent = Me.parent /\ f[current].collected = Me.collected
      /\ f[current].waitPid = Me.waitPid
  BY <1>1, <1>5, <1>7 DEF Entry
<1>9. counts \in Count
  BY <1>1, <1>5 DEF Count, Tables
<1>10. [alive |-> counts.alive + 1, references |-> counts.references + 1] \in Count
  BY <1>9 DEF Count
<1>11. n \in [Pid -> Count]
  BY <1>1, <1>5, <1>10 DEF Tables
<1>12. /\ \A g \in Pid : g # Leader => n[g] = Entered.group[g]
       /\ n[Leader] = IF Me.group = 0 THEN [alive |-> 2, references |-> 2]
                      ELSE [alive |-> Entered.group[Leader].alive + 1,
                            references |-> Entered.group[Leader].references + 1]
  BY <1>1, <1>5 DEF Tables
<1> HIDE DEF f, n
<1>13. Joined \in Tables /\ Joined.task = f /\ Joined.group = n
  BY <1>6, <1>7, <1>11, MakeTable
<1>14. /\ \A i \in Slot : /\ Joined.task[i].pid = Entered.task[i].pid
                          /\ Joined.task[i].state = Entered.task[i].state
                          /\ Joined.task[i].parent = Entered.task[i].parent
                          /\ Joined.task[i].collected = Entered.task[i].collected
                          /\ Joined.task[i].waitPid = Entered.task[i].waitPid
                          /\ Joined.task[i].linux = Entered.task[i].linux
                          /\ Joined.task[i].held = Entered.task[i].held
       /\ \A i \in Slot : i # current => Joined.task[i] = Entered.task[i]
       /\ Joined.task[current].group = Leader
  BY <1>1, <1>7, <1>8, <1>13
<1>15. Used(Joined) = Used(Entered) /\ Live(Joined) = Live(Entered)
  BY <1>14 DEF Used, Live
<1>16. Identified(Joined)
  <2>1. \A i \in Slot : Joined.task[i].state = "free" => Joined.task[i] = Free
    BY <1>1, <1>2, <1>14 DEF Sound, Identified
  <2>2. Joined.task[0] = Entered.task[0]
    BY <1>3, <1>14, SlotsFinite
  <2> QED BY <1>2, <1>14, <1>15, <2>1, <2>2 DEF Sound, Identified, Used
<1>17. Roles(Joined, manager)
  <2>1. \A i \in Used(Joined) :
            (Joined.task[i].linux \/ Joined.task[i].group = 0) /\ Joined.task[i].group # 1
    BY <1>1, <1>2, <1>5, <1>14, <1>15 DEF Sound, Roles, Used
  <2>2. \A i \in Live(Joined) : Joined.task[i].held
    BY <1>2, <1>14, <1>15 DEF Sound, Roles, Live
  <2>3. manager # 0 => \E i \in Live(Joined) : /\ Joined.task[i].pid = manager
                                               /\ ~Joined.task[i].linux
                                               /\ i = 0 \/ Joined.task[i].parent = 1
    BY <1>2, <1>14, <1>15 DEF Sound, Roles, Live
  <2> QED BY <2>1, <2>2, <2>3 DEF Roles
<1> QED BY <1>1, <1>3, <1>5, <1>8, <1>12, <1>13, <1>14, <1>16, <1>17 DEF Sound

LEMMA CloneSound ==
    ASSUME SoundInv, Clone
    PROVE  SoundInv'
<1> DEFINE I == Installed(Joined, Thread)
<1>1. /\ LinuxCall /\ In(Entered, "free") # {} /\ Becomes(I)
      /\ nextPid' = PidAfter(FreshPid(Entered))
      /\ current' = current /\ at' = at /\ manager' = manager
  BY CloneIs
<1>2. /\ nextPid \in Pid /\ current \in Slot /\ manager \in Pid \cup {0} /\ Me \in Entry
      /\ Me.state = "ready" /\ Me.held /\ Me.linux /\ at = "user"
  BY <1>1, NothingInstalledBelow DEF SoundInv, TypeOK, StackUnderFoot, LinuxCall, Me
<1>3. In(Joined, "free") # {} /\ FreshPid(Joined) = FreshPid(Entered)
  <2>1. \A i \in Slot : /\ Joined.task[i].pid = Entered.task[i].pid
                        /\ Joined.task[i].state = Entered.task[i].state
    BY <1>1, JoinedSound
  <2>2. {Joined.task[i].pid : i \in Slot} = {Entered.task[i].pid : i \in Slot}
    BY <2>1
  <2> QED BY <1>1, <2>1, <2>2, Zenon DEF In, FreshPid
<1>4. FreshPid(Entered) \in Pid
  BY <1>1, <1>2, EnteredSound, FreshPidIsFresh DEF Sound
<1>5. /\ Thread \in Entry /\ Thread.pid = FreshPid(Joined) /\ Thread.group = Leader
      /\ Thread.state = "ready" /\ Thread.held /\ Thread.linux
  <2>1. /\ Thread = NewThread(Me, FreshPid(Entered), Leader)
        /\ Me \in Entry /\ FreshPid(Entered) \in Pid /\ Leader \in Pid
    BY <1>1, <1>2, <1>4, JoinedSound DEF Thread
  <2> DEFINE c == NewThread(Me, FreshPid(Entered), Leader)
  <2>2. /\ c \in Entry /\ c.pid = FreshPid(Entered) /\ c.group = Leader
        /\ c.state = Me.state /\ c.held = Me.held /\ c.linux = Me.linux
    BY <2>1, ThreadType, ZenonT(40)
  <2> HIDE DEF c
  <2>3. Thread = c
    BY <2>1 DEF c
  <2> QED BY <1>2, <1>3, <2>2, <2>3
<1>6. Sound(I, manager) /\ \A i \in Used(Joined) : I.task[i] = Joined.task[i]
  BY <1>1, <1>2, <1>3, <1>5, JoinedSound, InstalledSound
<1> HIDE DEF I
<1>7. I.task[current].held /\ I.task[current].state = "ready"
  BY <1>1, <1>2, <1>6, JoinedSound DEF Used
<1>8. nextPid' \in Pid
  BY <1>1, <1>4, PidAfterType
<1> QED BY <1>1, <1>2, <1>6, <1>7, <1>8, StepSound

\* Processes that sleep, wait, wake or are collected stay who they are.
Restates(T, U) ==
    /\ U \in Tables /\ U.group = T.group
    /\ \A i \in Slot :
          /\ U.task[i].pid = T.task[i].pid /\ U.task[i].parent = T.task[i].parent
          /\ U.task[i].linux = T.task[i].linux /\ U.task[i].group = T.task[i].group
          /\ U.task[i].held = T.task[i].held
          /\ \/ U.task[i].state = T.task[i].state
             \/ /\ T.task[i].state \in {"ready", "sleeping", "waiting"}
                /\ U.task[i].state \in {"ready", "sleeping", "waiting"}
          /\ T.task[i].state = "free" => U.task[i] = T.task[i]

LEMMA RestatedSound ==
    ASSUME NEW T, NEW U, NEW m, Sound(T, m), Restates(T, U)
    PROVE  Sound(U, m) /\ Used(U) = Used(T) /\ Live(U) = Live(T)
<1>1. Used(U) = Used(T) /\ Live(U) = Live(T)
  BY DEF Restates, Used, Live
<1>2. Identified(U)
  BY <1>1, SlotsFinite DEF Sound, Restates, Identified, Used
<1>3. Roles(U, m)
  <2>1. \A i \in Used(U) : (U.task[i].linux \/ U.task[i].group = 0) /\ U.task[i].group # 1
    BY <1>1 DEF Sound, Roles, Restates, Used
  <2>2. \A i \in Live(U) : U.task[i].held
    BY <1>1 DEF Sound, Roles, Restates, Live
  <2>3. m # 0 => \E i \in Live(U) :
          U.task[i].pid = m /\ ~U.task[i].linux /\ (i = 0 \/ U.task[i].parent = 1)
    BY <1>1 DEF Sound, Roles, Restates, Live
  <2> QED BY <2>1, <2>2, <2>3 DEF Roles
<1> QED BY <1>1, <1>2, <1>3 DEF Sound, Restates

LEMMA NothingRestated ==
    ASSUME NEW T \in Tables PROVE Restates(T, T)
BY DEF Restates

\* One slot, or the slots of a set, get another state or are collected.
WithEntry(T, i, e) == [T EXCEPT !.task[i] = e]

LEMMA RestateOne ==
    ASSUME NEW T, NEW m, Sound(T, m), NEW i \in Slot, NEW e \in Entry,
           T.task[i].state # "free",
           e.pid = T.task[i].pid, e.parent = T.task[i].parent, e.linux = T.task[i].linux,
           e.group = T.task[i].group, e.held = T.task[i].held,
           \/ e.state = T.task[i].state
           \/ /\ T.task[i].state \in {"ready", "sleeping", "waiting"}
              /\ e.state \in {"ready", "sleeping", "waiting"}
    PROVE  /\ Restates(T, WithEntry(T, i, e))
           /\ \A j \in Slot : WithEntry(T, i, e).task[j] = IF j = i THEN e ELSE T.task[j]
<1> DEFINE f == [T.task EXCEPT ![i] = e]
           U == [task |-> f, group |-> T.group]
<1>1. T \in Tables
  BY DEF Sound
<1>2. WithEntry(T, i, e) = U
  BY <1>1 DEF Tables, WithEntry
<1>3. f \in [Slot -> Entry] /\ T.group \in [Pid -> Count]
  BY <1>1 DEF Tables
<1>4. \A j \in Slot : f[j] = IF j = i THEN e ELSE T.task[j]
  BY <1>1 DEF Tables
<1> HIDE DEF f
<1>5. U \in Tables /\ U.task = f /\ U.group = T.group
  BY <1>3, MakeTable
<1> HIDE DEF U
<1>6. Restates(T, U)
  BY <1>4, <1>5 DEF Restates
<1> QED BY <1>2, <1>4, <1>5, <1>6

LEMMA RestateSome ==
    ASSUME NEW T, NEW m, Sound(T, m), NEW S \in SUBSET Slot,
           \A i \in S : T.task[i].state = "sleeping",
           NEW f, f = [i \in Slot |-> IF i \in S THEN [T.task[i] EXCEPT !.state = "ready"]
                                      ELSE T.task[i]]
    PROVE  /\ Restates(T, [task |-> f, group |-> T.group])
           /\ f \in [Slot -> Entry]
           /\ \A i \in Slot : i \notin S => f[i] = T.task[i]
           /\ \A i \in S : f[i].state = "ready" /\ f[i].collected = T.task[i].collected
<1> DEFINE U == [task |-> f, group |-> T.group]
<1>1. T \in Tables /\ \A i \in Slot : T.task[i] \in Entry
  BY DEF Sound, Tables
<1>2. \A i \in Slot : /\ [T.task[i] EXCEPT !.state = "ready"] \in Entry
                      /\ [T.task[i] EXCEPT !.state = "ready"].state = "ready"
                      /\ [T.task[i] EXCEPT !.state = "ready"].pid = T.task[i].pid
                      /\ [T.task[i] EXCEPT !.state = "ready"].parent = T.task[i].parent
                      /\ [T.task[i] EXCEPT !.state = "ready"].linux = T.task[i].linux
                      /\ [T.task[i] EXCEPT !.state = "ready"].group = T.task[i].group
                      /\ [T.task[i] EXCEPT !.state = "ready"].held = T.task[i].held
                      /\ [T.task[i] EXCEPT !.state = "ready"].collected = T.task[i].collected
  BY <1>1 DEF Entry, State
<1>3. f \in [Slot -> Entry] /\ T.group \in [Pid -> Count]
  BY <1>1, <1>2 DEF Tables
<1>4. \A i \in Slot : /\ f[i].pid = T.task[i].pid /\ f[i].parent = T.task[i].parent
                      /\ f[i].linux = T.task[i].linux /\ f[i].group = T.task[i].group
                      /\ f[i].held = T.task[i].held
                      /\ i \notin S => f[i] = T.task[i]
                      /\ i \in S => /\ f[i].state = "ready" /\ T.task[i].state = "sleeping"
                                   /\ f[i].collected = T.task[i].collected
  BY <1>2
<1>5. U \in Tables /\ U.task = f /\ U.group = T.group
  BY <1>3, MakeTable
<1> HIDE DEF U
<1>6. Restates(T, U)
  BY <1>4, <1>5 DEF Restates
<1> QED BY <1>3, <1>4, <1>6 DEF U

LEMMA ExitSound ==
    ASSUME SoundInv, Exit
    PROVE  SoundInv'
<1> DEFINE T == Ended(Entered, {current}, current)
           joiners == IF Me.group = 0 THEN {} ELSE In(T, "sleeping") \cap Members(T, Me.group)
           J(j) == IF j = current THEN T ELSE [T EXCEPT !.task[j].state = "ready"]
           boss == Unmanaged(Entered, {current})
<1>1. /\ at = "user" /\ Me.pid # 1 /\ at' = "scan" /\ manager' = boss
      /\ current' = current /\ nextPid' = nextPid
      /\ \E j \in joiners \cup {current} : Becomes(Reaped(J(j), current))
  BY DEF Exit
<1>2. PICK j \in joiners \cup {current} : Becomes(Reaped(J(j), current))
  BY <1>1
<1>3. /\ current \in Slot /\ current # 0 /\ Entered.task[current] = Me
      /\ current \in Live(Entered) /\ Me.held /\ Sound(Entered, manager)
      /\ nextPid \in Pid /\ manager \in Pid \cup {0}
  BY <1>1, EnteredSound DEF Sound, Identified, SoundInv, TypeOK, StackUnderFoot, Me
<1>4. Sound(T, boss) /\ T.task[current].held
  BY <1>3, EndedSound
<1>5. boss \in Pid \cup {0}
  BY <1>3 DEF Unmanaged
<1> HIDE DEF boss
<1>6. Sound(J(j), boss) /\ J(j).task[current].held
  <2>1. CASE j = current
    BY <1>4, <2>1
  <2>2. CASE j # current
    <3> HIDE DEF T
    <3>1. j \in Slot /\ T.task[j].state = "sleeping" /\ T \in Tables /\ T.task[j] \in Entry
      BY <1>4, <2>2 DEF In, Sound, Tables
    <3> DEFINE e == [T.task[j] EXCEPT !.state = "ready"]
    <3>2. /\ e \in Entry /\ e.state = "ready" /\ e.pid = T.task[j].pid
          /\ e.parent = T.task[j].parent /\ e.linux = T.task[j].linux
          /\ e.group = T.task[j].group /\ e.held = T.task[j].held
      BY <3>1 DEF Entry, State
    <3>3. J(j) = WithEntry(T, j, e)
      BY <2>2, <3>1 DEF Tables, WithEntry
    <3> HIDE DEF e, J, boss
    <3>4. /\ Restates(T, WithEntry(T, j, e))
          /\ WithEntry(T, j, e).task[current].held = T.task[current].held
      <4>1. /\ T.task[j].state # "free"
            /\ T.task[j].state \in {"ready", "sleeping", "waiting"}
            /\ e.state \in {"ready", "sleeping", "waiting"}
        BY <3>1, <3>2
      <4>2. /\ Restates(T, WithEntry(T, j, e))
            /\ \A i \in Slot : WithEntry(T, j, e).task[i] = IF i = j THEN e ELSE T.task[i]
        BY <1>4, <3>1, <3>2, <4>1, RestateOne
      <4> QED BY <1>3, <3>2, <4>2
    <3> QED BY <1>4, <3>3, <3>4, RestatedSound
  <2> QED BY <2>1, <2>2
<1> HIDE DEF J, T
<1>7. Sound(Reaped(J(j), current), boss) /\ Reaped(J(j), current).task[current].held
  BY <1>3, <1>6, ReapedSound
<1> QED BY <1>1, <1>2, <1>3, <1>5, <1>7, StepSound

LEMMA ExitGroupSound ==
    ASSUME SoundInv, ExitGroup
    PROVE  SoundInv'
<1> DEFINE S == Company(Entered, current)
           T == Ended(Entered, S, current)
<1>1. /\ at = "user" /\ Me.pid # 1 /\ at' = "scan" /\ manager' = Unmanaged(Entered, S)
      /\ current' = current /\ nextPid' = nextPid
      /\ Becomes(Reaped(T, current))
  BY DEF ExitGroup
<1>2. /\ current \in Slot /\ current # 0 /\ Entered.task[current] = Me
      /\ current \in Live(Entered) /\ Me.held /\ Sound(Entered, manager)
      /\ nextPid \in Pid /\ manager \in Pid \cup {0}
  BY <1>1, EnteredSound DEF Sound, Identified, SoundInv, TypeOK, StackUnderFoot, Me
<1>3. /\ S \subseteq Live(Entered) /\ 0 \notin S
      /\ \A i \in S : Entered.task[i].pid = manager => S = {i}
  BY <1>2, CompanyAlive
<1> HIDE DEF S
<1>4. Sound(T, Unmanaged(Entered, S)) /\ T.task[current].held
  BY <1>2, <1>3, EndedSound
<1>5. Unmanaged(Entered, S) \in Pid \cup {0}
  BY <1>2 DEF Unmanaged
<1> HIDE DEF T
<1>6. /\ Sound(Reaped(T, current), Unmanaged(Entered, S))
      /\ Reaped(T, current).task[current].held
  BY <1>2, <1>4, ReapedSound
<1> QED BY <1>1, <1>2, <1>5, <1>6, StepSound

LEMMA PidOne ==
    ASSUME NEW T, NEW m, Sound(T, m), NEW i \in Live(T), T.task[i].pid = 1
    PROVE  i = 0
<1>1. 0 \in Used(T) /\ i \in Used(T) /\ T.task[0].pid = 1
  BY SlotsFinite DEF Sound, Identified, Used, Live
<1> QED BY <1>1 DEF Sound, Identified

\* What the caller of a call knows of itself.
LEMMA CallerSound ==
    ASSUME SoundInv, at = "user"
    PROVE  /\ current \in Slot /\ Me \in Entry /\ Me.state = "ready" /\ Me.held
           /\ Entered.task[current] = Me /\ task[current] = Me
           /\ current \in Live(Entered) /\ Sound(Entered, manager)
           /\ nextPid \in Pid /\ manager \in Pid \cup {0} /\ Me.pid \in Pid
BY EnteredSound, NothingInstalledBelow DEF SoundInv, TypeOK, StackUnderFoot, Me

LEMMA WaitSound ==
    ASSUME SoundInv, Wait
    PROVE  SoundInv'
<1>1. /\ at = "user" /\ current' = current /\ nextPid' = nextPid /\ manager' = manager
  BY DEF Wait, NativeCall
<1>2. PICK i \in Used(Entered) :
         IF Done(Entered, i)
         THEN Becomes([Entered EXCEPT !.task[i].collected = TRUE]) /\ at' = "user"
         ELSE /\ Becomes([Entered EXCEPT !.task[current].state = "waiting",
                                         !.task[current].waitPid = Entered.task[i].pid])
              /\ at' = "scan"
  BY DEF Wait
<1>3. /\ i \in Slot /\ Entered.task[i] \in Entry /\ Entered \in Tables
      /\ Entered.task[i].state # "free" /\ Sound(Entered, manager)
  BY <1>1, CallerSound DEF Used, Sound, Tables
<1>4. CASE Done(Entered, i)
  <2> DEFINE e == [Entered.task[i] EXCEPT !.collected = TRUE]
             U == WithEntry(Entered, i, e)
  <2>1. /\ e \in Entry /\ e.state = Entered.task[i].state /\ e.pid = Entered.task[i].pid
        /\ e.parent = Entered.task[i].parent /\ e.linux = Entered.task[i].linux
        /\ e.group = Entered.task[i].group /\ e.held = Entered.task[i].held
    BY <1>3 DEF Entry
  <2>2. U = [Entered EXCEPT !.task[i].collected = TRUE]
    BY <1>3 DEF Tables, WithEntry
  <2> HIDE DEF e
  <2>3. /\ Restates(Entered, U)
        /\ \A k \in Slot : U.task[k] = IF k = i THEN e ELSE Entered.task[k]
    BY <1>3, <2>1, RestateOne
  <2> HIDE DEF U
  <2>4. Sound(U, manager) /\ U.task[current].held /\ U.task[current].state = "ready"
    BY <1>1, <1>3, <2>1, <2>3, RestatedSound, CallerSound
  <2>5. Becomes(U) /\ at' = "user"
    BY <1>2, <1>4, <2>2
  <2> QED BY <1>1, <2>4, <2>5, StepSound, CallerSound
<1>5. CASE ~Done(Entered, i)
  <2> DEFINE e == [Me EXCEPT !.state = "waiting", !.waitPid = Entered.task[i].pid]
             U == WithEntry(Entered, current, e)
  <2>1. /\ e \in Entry /\ e.state = "waiting" /\ e.pid = Me.pid
        /\ e.parent = Me.parent /\ e.linux = Me.linux
        /\ e.group = Me.group /\ e.held = Me.held
    BY <1>1, <1>3, CallerSound DEF Entry, State
  <2>2. U = [Entered EXCEPT !.task[current].state = "waiting",
                            !.task[current].waitPid = Entered.task[i].pid]
    BY <1>1, <1>3, CallerSound DEF Tables, WithEntry
  <2> HIDE DEF e
  <2>3. /\ Restates(Entered, U)
        /\ \A k \in Slot : U.task[k] = IF k = current THEN e ELSE Entered.task[k]
    BY <1>1, <1>3, <2>1, RestateOne, CallerSound
  <2> HIDE DEF U
  <2>4. Sound(U, manager) /\ U.task[current].held
    BY <1>1, <1>3, <2>1, <2>3, RestatedSound, CallerSound
  <2>5. Becomes(U) /\ at' = "scan"
    BY <1>2, <1>5, <2>2
  <2> QED BY <1>1, <2>4, <2>5, StepSound, CallerSound
<1> QED BY <1>4, <1>5

\* STOP ends others, and with the session manager nobody else.
LEMMA StoppedAlive ==
    ASSUME SoundInv, at = "user", ~Me.linux, NEW i \in Used(Entered) \ {current},
           ~Done(Entered, i), Entered.task[i].pid # 1
    PROVE  /\ Sound(Entered, manager) /\ i \in Slot /\ i # 0 /\ Me.group = 0
           /\ Company(Entered, i) \subseteq Live(Entered) /\ 0 \notin Company(Entered, i)
           /\ current \notin Company(Entered, i)
           /\ \A j \in Company(Entered, i) :
                 Entered.task[j].pid = manager => Company(Entered, i) = {j}
<1> DEFINE S == Company(Entered, i)
<1>3. Sound(Entered, manager) /\ i \in Slot /\ i # 0 /\ Me.group = 0
  BY CallerSound DEF Used, Sound, Identified, Roles, Live
<1>4. i \in Live(Entered) \/ (Entered.task[i].state = "zombie" /\ Entered.task[i].group # 0)
  BY DEF Done, GroupAlive, Used, Live
<1>5. S \subseteq Live(Entered) /\ 0 \notin S /\ current \notin S
      /\ \A j \in S : Entered.task[j].pid = manager => S = {j}
  <2>1. CASE i \in Live(Entered)
    <3>1. current \notin S
      BY <1>3, CallerSound DEF Company, Members
    <3> QED BY <1>3, <2>1, <3>1, CompanyAlive
  <2>2. CASE Entered.task[i].state = "zombie" /\ Entered.task[i].group # 0
    <3>1. S = Live(Entered) \cap Members(Entered, Entered.task[i].group)
      BY <2>2 DEF Company
    <3>2. \A j \in S : j \in Live(Entered) /\ Entered.task[j].group = Entered.task[i].group
      BY <3>1 DEF Members
    <3> HIDE DEF S
    <3>3. CASE S = {}
      BY <3>3
    <3>4. CASE S # {}
      <4>1. PICK k \in S : TRUE
        BY <3>4
      <4>2. k # 0 /\ k \in Live(Entered) /\ Entered.task[k].group = Entered.task[i].group
        BY <1>3, <2>2, <3>2 DEF Sound, Identified
      <4>3. S = Company(Entered, k)
        BY <2>2, <3>1, <4>2 DEF Company
      <4>4. current \notin S
        BY <1>3, <2>2, <3>2, CallerSound
      <4> QED BY <1>3, <4>2, <4>3, <4>4, CompanyAlive
    <3> QED BY <3>3, <3>4
  <2> QED BY <1>4, <2>1, <2>2
<1> QED BY <1>3, <1>5

LEMMA StopSound ==
    ASSUME SoundInv, NoThreadStops, Stop
    PROVE  SoundInv'
<1>1. /\ at = "user" /\ ~Me.linux /\ current' = current /\ nextPid' = nextPid /\ at' = at
  BY DEF Stop, NativeCall, NoThreadStops
<1>2. PICK i \in Used(Entered) \ {current} :
         /\ ~Done(Entered, i)
         /\ Entered.task[i].pid # 1
         /\ Me.pid = 1 \/ Entered.task[i].parent = Me.pid
         /\ Becomes(Ended(Entered, Company(Entered, i), current))
         /\ manager' = Unmanaged(Entered, Company(Entered, i))
  BY DEF Stop
<1> DEFINE S == Company(Entered, i)
           U == Ended(Entered, S, current)
<1>3. Sound(Entered, manager) /\ i \in Slot /\ i # 0 /\ Me.group = 0
  BY <1>1, <1>2, StoppedAlive
<1>5. S \subseteq Live(Entered) /\ 0 \notin S /\ current \notin S
      /\ \A j \in S : Entered.task[j].pid = manager => S = {j}
  BY <1>1, <1>2, StoppedAlive
<1>6. current = 0 \/ Unmanaged(Entered, S) = manager
  <2> SUFFICES ASSUME NEW j \in S, Entered.task[j].pid = manager PROVE current = 0
    BY DEF Unmanaged
  <2>1. S = {j} /\ j \in Live(Entered) /\ j # 0
    BY <1>5
  <2>2. manager # 0
    BY <1>3, <2>1 DEF Sound, Identified, Used, Live
  <2>3. PICK k \in Live(Entered) : /\ Entered.task[k].pid = manager /\ ~Entered.task[k].linux
                                   /\ k = 0 \/ Entered.task[k].parent = 1
    BY <1>3, <2>2 DEF Sound, Roles
  <2>4. k = j
    BY <1>3, <2>1, <2>3 DEF Sound, Identified, Used, Live
  <2>5. i = j
    <3>1. Entered.task[j].group = 0
      BY <1>3, <2>3, <2>4 DEF Sound, Roles, Used, Live
    <3>2. CASE Entered.task[i].group = 0
      BY <2>1, <3>2 DEF Company
    <3>3. CASE Entered.task[i].group # 0
      BY <2>1, <3>1, <3>3 DEF Company, Members
    <3> QED BY <3>2, <3>3
  <2>6. Me.pid = 1
    BY <1>2, <2>1, <2>3, <2>4, <2>5
  <2> QED BY <1>1, <2>6, CallerSound, PidOne
<1> HIDE DEF S
<1>7. Becomes(U) /\ manager' = Unmanaged(Entered, S)
  BY <1>2 DEF S
<1>8. /\ Sound(U, Unmanaged(Entered, S))
      /\ U.task[current].held /\ U.task[current].state = "ready"
  BY <1>1, <1>3, <1>5, <1>6, EndedSound, CallerSound
<1> HIDE DEF U
<1>9. Unmanaged(Entered, S) \in Pid \cup {0}
  BY <1>1, CallerSound DEF Unmanaged
<1> QED BY <1>1, <1>7, <1>8, <1>9, StepSound, CallerSound

LEMMA ClaimSound ==
    ASSUME SoundInv, Claim
    PROVE  SoundInv'
<1>1. /\ at = "user" /\ ~Me.linux /\ (Me.pid = 1 \/ Me.parent = 1) /\ manager' = Me.pid
      /\ Becomes(Entered) /\ current' = current /\ nextPid' = nextPid /\ at' = at
  BY DEF Claim
<1>2. Sound(Entered, Me.pid)
  <2>1. Me.pid = 1 => current = 0
    BY <1>1, CallerSound, PidOne
  <2>2. Roles(Entered, Me.pid)
    BY <1>1, <2>1, CallerSound DEF Sound, Roles
  <2> QED BY <1>1, <2>2, CallerSound DEF Sound
<1> QED BY <1>1, <1>2, StepSound, CallerSound

LEMMA LogoutSound ==
    ASSUME SoundInv, Logout
    PROVE  SoundInv'
<1> DEFINE U == SessionEnded(Entered, manager, current)
<1>1. /\ at = "user" /\ Me.pid = manager /\ Becomes(U)
      /\ current' = current /\ nextPid' = nextPid /\ at' = at /\ manager' = manager
  BY DEF Logout
<1>2. Sound(U, manager) /\ U.task[current].held /\ U.task[current].state = "ready"
  BY <1>1, CallerSound, SessionEndedSound
<1> QED BY <1>1, <1>2, StepSound, CallerSound

LEMMA SleepSound ==
    ASSUME SoundInv, Sleep
    PROVE  SoundInv'
<1> DEFINE e == [Me EXCEPT !.state = "sleeping"]
           U == WithEntry(Entered, current, e)
<1>1. /\ at = "user" /\ at' = "scan"
      /\ Becomes([Entered EXCEPT !.task[current].state = "sleeping"])
      /\ current' = current /\ nextPid' = nextPid /\ manager' = manager
  BY DEF Sleep
<1>2. /\ e \in Entry /\ e.state = "sleeping" /\ e.pid = Me.pid
      /\ e.parent = Me.parent /\ e.linux = Me.linux
      /\ e.group = Me.group /\ e.held = Me.held
  BY <1>1, CallerSound DEF Entry, State
<1>3. U = [Entered EXCEPT !.task[current].state = "sleeping"]
  BY <1>1, CallerSound DEF Sound, Tables, WithEntry
<1> HIDE DEF e
<1>4. /\ Restates(Entered, U)
      /\ \A k \in Slot : U.task[k] = IF k = current THEN e ELSE Entered.task[k]
  BY <1>1, <1>2, RestateOne, CallerSound
<1> HIDE DEF U
<1>5. Sound(U, manager) /\ U.task[current].held
  BY <1>1, <1>2, <1>4, RestatedSound, CallerSound
<1> QED BY <1>1, <1>3, <1>5, StepSound, CallerSound

LEMMA WakeSound ==
    ASSUME SoundInv, Wake
    PROVE  SoundInv'
<1>1. /\ at = "user" /\ at' = at /\ current' = current /\ nextPid' = nextPid
      /\ manager' = manager
  BY DEF Wake, LinuxCall
<1>2. PICK S \in SUBSET In(Entered, "sleeping") :
         Becomes([Entered EXCEPT !.task =
             [i \in Slot |-> IF i \in S THEN [@[i] EXCEPT !.state = "ready"] ELSE @[i]]])
  BY DEF Wake
<1> DEFINE f == [i \in Slot |-> IF i \in S THEN [Entered.task[i] EXCEPT !.state = "ready"]
                                ELSE Entered.task[i]]
           U == [task |-> f, group |-> Entered.group]
<1>3. /\ S \in SUBSET Slot /\ \A i \in S : Entered.task[i].state = "sleeping"
      /\ Sound(Entered, manager) /\ current \in Slot
  BY <1>1, CallerSound DEF In
<1>4. [Entered EXCEPT !.task =
             [i \in Slot |-> IF i \in S THEN [@[i] EXCEPT !.state = "ready"] ELSE @[i]]] = U
  BY <1>3 DEF Sound, Tables
<1>5. /\ Restates(Entered, U) /\ f \in [Slot -> Entry]
      /\ \A i \in Slot : i \notin S => f[i] = Entered.task[i]
  BY <1>3, RestateSome
<1>6. current \notin S
  BY <1>1, <1>3, CallerSound
<1> HIDE DEF f
<1>7. U.task = f
  OBVIOUS
<1>8. Becomes(U)
  BY <1>2, <1>4
<1> HIDE DEF U
<1>9. Sound(U, manager) /\ U.task[current].held /\ U.task[current].state = "ready"
  BY <1>1, <1>3, <1>5, <1>6, <1>7, RestatedSound, CallerSound
<1> QED BY <1>1, <1>8, <1>9, StepSound, CallerSound

LEMMA PreemptSound ==
    ASSUME SoundInv, Preempt
    PROVE  SoundInv'
<1>1. /\ at = "user" /\ at' = "scan" /\ Becomes(Entered)
      /\ current' = current /\ nextPid' = nextPid /\ manager' = manager
  BY DEF Preempt
<1> QED BY <1>1, StepSound, CallerSound

LEMMA TickSound ==
    ASSUME SoundInv, Tick
    PROVE  SoundInv'
<1>1. /\ at' = at /\ current' = current /\ nextPid' = nextPid /\ manager' = manager
      /\ group' = group
  BY DEF Tick
<1>2. PICK S \in SUBSET In(Table, "sleeping") :
         task' = [i \in Slot |-> IF i \in S THEN [task[i] EXCEPT !.state = "ready"] ELSE task[i]]
  BY DEF Tick
<1>3. /\ S \in SUBSET Slot /\ \A i \in S : Table.task[i].state = "sleeping"
      /\ Sound(Table, manager) /\ current \in Slot /\ Table.task = task /\ Table.group = group
      /\ at \in {"user", "scan"} /\ nextPid \in Pid /\ manager \in Pid \cup {0}
  BY TableType DEF In, SoundInv, TypeOK
<1> DEFINE U == [task |-> task', group |-> group]
<1>4. /\ Restates(Table, U) /\ task' \in [Slot -> Entry]
      /\ \A i \in Slot : i \notin S => task'[i] = task[i]
  BY <1>2, <1>3, RestateSome, SMTT(30)
<1>5. Sound(U, manager)
  BY <1>3, <1>4, RestatedSound
<1>6. Becomes(U) /\ U.task = task'
  BY <1>1 DEF Becomes
<1>7. task'[current].held /\ (at = "user" => task'[current].state = "ready")
  <2>1. task[current].held /\ (at = "user" => task[current].state = "ready")
    BY DEF SoundInv, StackUnderFoot
  <2>2. U.task[current].held = task[current].held
    BY <1>3, <1>4 DEF Restates
  <2>3. at = "user" => current \notin S
    BY <1>3, <2>1
  <2> QED BY <1>3, <1>4, <1>6, <2>1, <2>2, <2>3
<1> QED BY <1>1, <1>3, <1>5, <1>6, <1>7, StepSound

LEMMA DispatchSound ==
    ASSUME SoundInv, Dispatch
    PROVE  SoundInv'
<1>1. /\ In(Table, "ready") # {} /\ current' = NextReady /\ at' = "user"
      /\ task' = task /\ group' = group /\ nextPid' = nextPid /\ manager' = manager
  BY DEF Dispatch
<1>2. /\ current \in Slot /\ nextPid \in Pid /\ manager \in Pid \cup {0}
      /\ Sound(Table, manager) /\ Table.task = task
  BY TableType DEF SoundInv, TypeOK
<1>3. NextReady \in Slot /\ task[NextReady].state = "ready"
  BY <1>1, <1>2, NextReadyIsReady
<1>4. task[NextReady].held
  BY <1>2, <1>3 DEF Sound, Roles, Live
<1>5. Becomes(Table)
  BY <1>1 DEF Becomes, Table
<1> QED BY <1>1, <1>2, <1>3, <1>4, <1>5, StepSound

LEMMA DispatchDoomedSound ==
    ASSUME SoundInv, DispatchDoomed
    PROVE  SoundInv'
<1> DEFINE S == Company(Table, NextReady)
           U == Finished(Table, S)
<1>1. /\ at = "scan" /\ at' = at /\ In(Table, "ready") # {} /\ task[NextReady].linux
      /\ current' = NextReady /\ Becomes(U) /\ nextPid' = nextPid /\ manager' = manager
  BY DEF DispatchDoomed
<1>2. /\ current \in Slot /\ nextPid \in Pid /\ manager \in Pid \cup {0}
      /\ Sound(Table, manager) /\ Table.task = task
  BY TableType DEF SoundInv, TypeOK
<1>3. NextReady \in Slot /\ task[NextReady].state = "ready" /\ NextReady \in Live(Table)
  BY <1>1, <1>2, NextReadyIsReady DEF Live
<1>4. task[NextReady].held /\ NextReady # 0
  BY <1>1, <1>2, <1>3 DEF Sound, Roles, Identified
<1>5. S \subseteq Live(Table) /\ 0 \notin S /\ \A j \in S : Table.task[j].pid = manager => S = {j}
      /\ NextReady \in S
  BY <1>2, <1>3, <1>4, CompanyAlive
<1>6. manager # 0 => \A j \in S : Table.task[j].pid # manager
  <2> SUFFICES ASSUME manager # 0, NEW j \in S, task[j].pid = manager PROVE FALSE
    BY <1>2
  <2>1. j = NextReady
    BY <1>2, <1>5
  <2>2. PICK k \in Live(Table) : task[k].pid = manager /\ ~task[k].linux
    BY <1>2 DEF Sound, Roles
  <2>3. k = j
    BY <1>2, <1>5, <2>2 DEF Sound, Identified, Used, Live
  <2> QED BY <1>1, <2>1, <2>2, <2>3
<1> HIDE DEF S
<1>7. Sound(U, manager) /\ \A i \in Slot : U.task[i].held = task[i].held
  BY <1>2, <1>5, <1>6, FinishedSound
<1> HIDE DEF U
<1> QED BY <1>1, <1>2, <1>3, <1>4, <1>7, StepSound

LEMMA InitSound == Init => SoundInv
<1> SUFFICES ASSUME Init PROVE SoundInv
  OBVIOUS
<1> DEFINE first == [Free EXCEPT !.state = "ready", !.pid = 1, !.held = TRUE]
<1>1. /\ first \in Entry /\ first.state = "ready" /\ first.pid = 1 /\ first.held = TRUE
      /\ first.linux = FALSE /\ first.group = 0
  BY FreeType, PidsFinite DEF Free, Entry, State
<1>2. task = [i \in Slot |-> IF i # 0 THEN Free ELSE first]
      /\ group = [g \in Pid |-> NoGroup] /\ current = 0 /\ at = "user" /\ nextPid = 2 /\ manager = 0
  BY DEF Init
<1> HIDE DEF first
<1>3. task \in [Slot -> Entry] /\ group \in [Pid -> Count]
  BY <1>1, <1>2, FreeType DEF NoGroup, Count
<1>4. TypeOK
  BY <1>2, <1>3, SlotsFinite, PidsFinite DEF TypeOK
<1>5. Table \in Tables /\ Table.task = task
  BY <1>4, TableType
<1>6. \A i \in Slot : (i # 0 => task[i] = Free) /\ (i = 0 => task[i] = first)
  BY <1>2
<1>7. Identified(Table)
  BY <1>1, <1>5, <1>6, SlotsFinite, FreeType DEF Identified, Used
<1>8. Roles(Table, manager)
  BY <1>1, <1>2, <1>5, <1>6, SlotsFinite, FreeType DEF Roles, Used, Live
<1>9. StackUnderFoot
  BY <1>1, <1>2, <1>6, SlotsFinite DEF StackUnderFoot
<1> QED BY <1>4, <1>5, <1>7, <1>8, <1>9 DEF SoundInv, Sound

LEMMA NextSound ==
    ASSUME NoThreadStops, SoundInv, [Next]_vars
    PROVE  SoundInv'
<1>1. CASE UNCHANGED vars
  BY <1>1 DEF vars, SoundInv, TypeOK, Table, StackUnderFoot
<1>2. CASE \E foreign \in BOOLEAN : Spawn(foreign) \/ Exec(foreign)
  BY <1>2, SpawnSound, ExecSound
<1>3. CASE Clone \/ Exit \/ ExitGroup
  BY <1>3, CloneSound, ExitSound, ExitGroupSound
<1>4. CASE Wait \/ Stop \/ Claim \/ Logout
  BY <1>4, WaitSound, StopSound, ClaimSound, LogoutSound
<1>5. CASE Sleep \/ Wake \/ Preempt \/ Tick
  BY <1>5, SleepSound, WakeSound, PreemptSound, TickSound
<1>6. CASE Dispatch \/ DispatchDoomed
  BY <1>6, DispatchSound, DispatchDoomedSound
<1> QED BY <1>1, <1>2, <1>3, <1>4, <1>5, <1>6 DEF Next

LEMMA AlwaysSound == NoThreadStops => (Spec => []SoundInv)
<1> SUFFICES ASSUME NoThreadStops PROVE Spec => []SoundInv
  OBVIOUS
<1>1. SoundInv /\ [Next]_vars => SoundInv'
  BY NextSound
<1> QED BY InitSound, <1>1, PTL DEF Spec

\* No two processes ever have the same pid, also when the counter starts again
\* at 2 with old processes still there, and pid 1 never ends: allocate_pid
\* always finds a free pid, since there are as many as slots.
THEOREM PidsAlwaysUnique == NoThreadStops => (Spec => []PidsUnique)
<1>1. SoundInv => PidsUnique
  BY TableType DEF SoundInv, Sound, Identified, PidsUnique
<1> QED BY <1>1, AlwaysSound, PTL

\* The CPU is never on a stack that task_reap has freed, and never in a program
\* that has ended.
THEOREM StackAlwaysUnderFoot == NoThreadStops => (Spec => []StackUnderFoot)
<1>1. SoundInv => StackUnderFoot
  BY DEF SoundInv
<1> QED BY <1>1, AlwaysSound, PTL
-----------------------------------------------------------------------------
(* Groups, parents and waiting parents *)

\* GroupsCounted of a table
Counted(T) ==
    \A g \in Pid :
        /\ T.group[g].alive = Cardinality(Live(T) \cap Members(T, g))
        /\ T.group[g].references = Cardinality(Members(T, g))
        /\ T.group[g].alive > 0 => \E i \in Members(T, g) : T.task[i].pid = g

\* A thread that is not the leader of its group is nobody's to collect.
ThreadsCollected(T) ==
    \A i \in Used(T) : T.task[i].group \notin {0, T.task[i].pid} => T.task[i].collected

\* WaitersWillWake of a table
Waited(T) ==
    \A i \in In(T, "waiting") : \E j \in Used(T) :
        /\ T.task[j].pid = T.task[i].waitPid /\ T.task[j].parent = T.task[i].pid
        /\ ~T.task[j].collected /\ ~Done(T, j)

\* ParentsUndead of a table, whose parents are no threads: only programs with a
\* pid of their own spawn.
Parented(T) ==
    \A i \in Used(T) : T.task[i].parent # 0 => \E j \in Used(T) :
        /\ T.task[j].pid = T.task[i].parent /\ T.task[j].group \in {0, T.task[j].pid}
        /\ ~Done(T, j)
NoThreadSpawns == "spawn" \notin NativeThreads

Ordered(T) ==
    /\ Counted(T) /\ ThreadsCollected(T) /\ Waited(T)
    /\ NoThreadSpawns => Parented(T)

LEMMA GroupsFinite ==
    ASSUME NEW T, NEW g
    PROVE  /\ Members(T, g) \in SUBSET Slot /\ IsFiniteSet(Members(T, g))
           /\ IsFiniteSet(Live(T) \cap Members(T, g))
           /\ Cardinality(Live(T) \cap Members(T, g)) \in Nat
           /\ Cardinality(Members(T, g)) \in Nat
BY SlotsFinite DEF Members, Used, Live

\* A group with a member that has not ended counts it.
LEMMA AliveCounted ==
    ASSUME NEW T, Counted(T), NEW g \in Pid
    PROVE  /\ T.group[g].alive \in Nat
           /\ T.group[g].alive > 0 <=> Live(T) \cap Members(T, g) # {}
<1>1. /\ IsFiniteSet(Live(T) \cap Members(T, g))
      /\ Cardinality(Live(T) \cap Members(T, g)) \in Nat
  BY GroupsFinite
<1>2. Cardinality(Live(T) \cap Members(T, g)) = 0 <=> Live(T) \cap Members(T, g) = {}
  BY <1>1, FS_EmptySet, Zenon
<1> QED BY <1>1, <1>2 DEF Counted

LEMMA ReapedCounted ==
    ASSUME NEW T, NEW m, Sound(T, m), Counted(T), NEW c \in Slot
    PROVE  Counted(Reaped(T, c))
<1> DEFINE R == Reaped(T, c)
           Z == Reapable(T, c)
<1>1. ReapsTo(T, c, R) /\ Live(R) = Live(T) /\ \A i \in Live(T) : R.task[i] = T.task[i]
  BY ReapedIs, ReapedSound DEF Sound
<1> HIDE DEF R
<1>2. \A i \in Z : i \in Slot /\ T.task[i].state = "zombie" /\ ~ReapBlocked(T, i)
  BY DEF Reapable, In
<1> SUFFICES ASSUME NEW g \in Pid
             PROVE  /\ R.group[g].alive = Cardinality(Live(R) \cap Members(R, g))
                    /\ R.group[g].references = Cardinality(Members(R, g))
                    /\ R.group[g].alive > 0 => \E i \in Members(R, g) : R.task[i].pid = g
  BY DEF Counted, R
<1>3. g # 0
  BY PidsFinite
<1>4. \A i \in Slot : i \in Members(R, g) <=> i \in Members(T, g) /\ i \notin Z
  <2> SUFFICES ASSUME NEW i \in Slot
               PROVE  i \in Members(R, g) <=> i \in Members(T, g) /\ i \notin Z
    OBVIOUS
  <2>1. CASE i \notin Z
    BY <1>1, <2>1 DEF ReapsTo, Members, Used
  <2>2. CASE i \in Z
    <3>1. T.task[i] \in Entry
      BY DEF Sound, Tables
    <3>2. R.task[i] = Free \/ R.task[i] = [T.task[i] EXCEPT !.group = 0, !.held = FALSE]
      BY <1>1, <2>2 DEF ReapsTo
    <3>3. R.task[i].group = 0
      BY <3>1, <3>2, FreeType DEF Entry
    <3> QED BY <1>3, <2>2, <3>3 DEF Members
  <2> QED BY <2>1, <2>2
<1>5. Members(R, g) = Members(T, g) \ Z
  BY <1>4, GroupsFinite
<1>6. Live(R) \cap Members(R, g) = Live(T) \cap Members(T, g)
  BY <1>1, <1>2, <1>5 DEF Live
<1>7. R.group[g].alive = T.group[g].alive
  BY <1>1 DEF ReapsTo
<1>8. R.group[g].references = T.group[g].references - Cardinality(Z \cap Members(T, g))
  BY <1>1 DEF ReapsTo
<1> HIDE DEF Z
<1>9. Cardinality(Members(T, g) \ Z) = Cardinality(Members(T, g)) - Cardinality(Members(T, g) \cap Z)
  BY GroupsFinite, FS_Difference
<1>10. Members(T, g) \cap Z = Z \cap Members(T, g)
  OBVIOUS
<1>11. R.group[g].references = Cardinality(Members(R, g))
  BY <1>5, <1>8, <1>9, <1>10 DEF Counted
<1>12. ASSUME R.group[g].alive > 0 PROVE \E i \in Members(R, g) : R.task[i].pid = g
  <2>1. PICK i \in Members(T, g) : T.task[i].pid = g
    BY <1>7, <1>12 DEF Counted
  <2>2. i \in Slot /\ T.task[i].group = g
    BY <2>1 DEF Members, Used
  <2>3. i \notin Z
    BY <1>2, <1>3, <1>7, <1>12, <2>1, <2>2 DEF ReapBlocked, GroupAlive
  <2> QED BY <1>1, <1>4, <2>1, <2>2, <2>3 DEF ReapsTo, Z
<1> QED BY <1>6, <1>7, <1>11, <1>12 DEF Counted

LEMMA FinishedCounted ==
    ASSUME NEW T, NEW m, Sound(T, m), Counted(T), NEW S, S \subseteq Live(T)
    PROVE  Counted(Finished(T, S))
<1> DEFINE F == Finished(T, S)
<1>1. EndsTo(T, S, F)
  BY FinishedIs DEF Sound, Live
<1> HIDE DEF F
<1>2. \A i \in Slot : /\ F.task[i].group = T.task[i].group /\ F.task[i].pid = T.task[i].pid
                      /\ i \in S => F.task[i].state = "zombie" /\ i \in Live(T)
                      /\ i \notin S => \/ F.task[i].state = T.task[i].state
                                       \/ T.task[i].state = "waiting" /\ F.task[i].state = "ready"
  BY <1>1 DEF EndsTo, Awaits
<1>3. Used(F) = Used(T) /\ Live(F) = Live(T) \ S
  BY <1>2 DEF Used, Live
<1> SUFFICES ASSUME NEW g \in Pid
             PROVE  /\ F.group[g].alive = Cardinality(Live(F) \cap Members(F, g))
                    /\ F.group[g].references = Cardinality(Members(F, g))
                    /\ F.group[g].alive > 0 => \E i \in Members(F, g) : F.task[i].pid = g
  BY DEF Counted, F
<1>4. Members(F, g) = Members(T, g)
  BY <1>2, <1>3 DEF Members, Used
<1> DEFINE L == Live(T) \cap Members(T, g)
<1>5. Live(F) \cap Members(F, g) = L \ S /\ S \cap Members(T, g) = L \cap S
  BY <1>3, <1>4
<1>6. F.group[g].alive = T.group[g].alive - Cardinality(L \cap S)
  BY <1>1, <1>5 DEF EndsTo
<1>7. IsFiniteSet(L) /\ Cardinality(L \cap S) \in Nat
  BY GroupsFinite, FS_Intersection, FS_CardinalityType
<1>8. Cardinality(L \ S) = Cardinality(L) - Cardinality(L \cap S)
  BY <1>7, FS_Difference
<1>9. F.group[g].alive = Cardinality(Live(F) \cap Members(F, g))
  BY <1>5, <1>6, <1>8 DEF Counted
<1>10. F.group[g].references = Cardinality(Members(F, g))
  BY <1>1, <1>4 DEF EndsTo, Counted
<1>11. ASSUME F.group[g].alive > 0 PROVE \E i \in Members(F, g) : F.task[i].pid = g
  <2>1. T.group[g].alive > 0
    BY <1>6, <1>7, <1>11, AliveCounted
  <2>2. PICK i \in Members(T, g) : T.task[i].pid = g
    BY <2>1 DEF Counted
  <2> QED BY <1>2, <1>4, <2>2, GroupsFinite
<1> QED BY <1>9, <1>10, <1>11

\* Whoever is told of is a process of its own that ends for its parent just now.
LEMMA ToldIs ==
    ASSUME NEW T, NEW m, Sound(T, m), Counted(T), NEW S, S \subseteq Live(T),
           NEW j \in Told(T, S)
    PROVE  /\ j \in Used(T) /\ T.task[j].group \in {0, T.task[j].pid}
           /\ ~Done(T, j) /\ Done(Finished(T, S), j)
<1> DEFINE F == Finished(T, S)
           mine == S \cap Members(T, T.task[j].pid)
           g == T.task[j].pid
<1>1. EndsTo(T, S, F)
  BY FinishedIs DEF Sound, Live
<1>2. j \in Used(T) /\ j \in Slot
  BY DEF Told, Used
<1>3. T.task[j] \in Entry /\ g \in Pid
  BY <1>2 DEF Sound, Tables, Identified, Entry
<1>4. CASE j \in S /\ T.task[j].group = 0
  <2>1. F.task[j].state = "zombie" /\ F.task[j].group = 0
    BY <1>1, <1>2, <1>4 DEF EndsTo
  <2> QED BY <1>2, <1>4, <2>1 DEF Done, GroupAlive, Live
<1>5. CASE mine # {} /\ T.group[g].alive = Cardinality(mine)
  <2> DEFINE L == Live(T) \cap Members(T, g)
  <2>1. mine \subseteq L /\ L # {}
    BY <1>5
  <2>2. T.group[g].alive > 0 /\ T.group[g].alive = Cardinality(L) /\ IsFiniteSet(L)
    BY <1>3, <2>1, AliveCounted, GroupsFinite DEF Counted
  <2>3. PICK i \in Members(T, g) : T.task[i].pid = g
    BY <1>3, <2>2 DEF Counted
  <2>4. i = j
    BY <1>2, <2>3 DEF Sound, Identified, Members
  <2>5. T.task[j].group = g /\ g # 0
    BY <2>3, <2>4 DEF Members
  <2>6. ~Done(T, j)
    BY <2>2, <2>5 DEF Done, GroupAlive
  <2>7. mine = L
    <3> HIDE DEF mine, L
    <3> QED BY <1>5, <2>1, <2>2, FS_Subset
  <2>8. F.group[g].alive = T.group[g].alive - Cardinality(mine)
    BY <1>1, <1>3 DEF EndsTo
  <2>9. F.group[g].alive = 0
    BY <1>3, <1>5, <2>8, AliveCounted
  <2>10. F.task[j].state = "zombie"
    <3>1. CASE j \in S
      BY <1>1, <1>2, <3>1 DEF EndsTo
    <3>2. CASE j \notin S
      <4>1. j \notin L
        BY <2>7, <3>2
      <4>2. T.task[j].state = "zombie"
        BY <1>2, <2>3, <2>4, <4>1 DEF Live, Used
      <4> QED BY <1>1, <1>2, <3>2, <4>2 DEF EndsTo, Awaits
    <3> QED BY <3>1, <3>2
  <2>11. F.task[j].group = g
    BY <1>1, <1>2, <2>5 DEF EndsTo
  <2> HIDE DEF F, mine, L, g
  <2>12. Done(F, j)
    BY <2>9, <2>10, <2>11 DEF Done, GroupAlive
  <2> QED BY <1>2, <2>5, <2>6, <2>12 DEF F, g
<1> QED BY <1>4, <1>5 DEF Told

\* A process that has not ended and is not told of has still not ended.
LEMMA UntoldIsUndead ==
    ASSUME NEW T, NEW m, Sound(T, m), Counted(T), NEW S, S \subseteq Live(T),
           NEW j \in Used(T), T.task[j].group \in {0, T.task[j].pid},
           ~Done(T, j), j \notin Told(T, S)
    PROVE  ~Done(Finished(T, S), j)
<1> DEFINE F == Finished(T, S)
           g == T.task[j].pid
           L == Live(T) \cap Members(T, g)
           mine == S \cap Members(T, g)
<1> SUFFICES ASSUME Done(F, j) PROVE FALSE
  OBVIOUS
<1>1. EndsTo(T, S, F)
  BY FinishedIs DEF Sound, Live
<1>2. j \in Slot /\ T.task[j] \in Entry /\ g \in Pid /\ T.task[j].state # "free"
  BY DEF Sound, Tables, Identified, Entry, Used
<1>3. F.task[j].state = "zombie" /\ F.task[j].group = T.task[j].group
  BY <1>1, <1>2 DEF EndsTo, Done
<1>4. j \in S \/ T.task[j].state = "zombie"
  BY <1>1, <1>2, <1>3 DEF EndsTo
<1>5. CASE T.task[j].group = 0
  <2>1. T.task[j].state # "zombie"
    BY <1>5 DEF Done, GroupAlive
  <2> QED BY <1>4, <1>5, <2>1 DEF Told
<1>6. CASE T.task[j].group = g
  <2>1. j \in Members(T, g) /\ g # 0
    BY <1>2, <1>6, PidsFinite DEF Members
  <2>2. L # {} /\ T.group[g].alive = Cardinality(L) /\ IsFiniteSet(L) /\ T.group[g].alive \in Nat
        /\ T.group[g].alive > 0
    <3>1. CASE T.task[j].state = "zombie"
      BY <1>2, <1>6, <3>1, AliveCounted, GroupsFinite, ZenonT(40) DEF Done, GroupAlive, Counted
    <3>2. CASE T.task[j].state # "zombie"
      BY <1>2, <2>1, <3>2, AliveCounted, GroupsFinite DEF Live, Counted
    <3> QED BY <3>1, <3>2
  <2>3. F.group[g].alive = T.group[g].alive - Cardinality(mine)
    BY <1>1, <1>2 DEF EndsTo
  <2>4. ~(F.group[g].alive > 0)
    BY <1>3, <1>6, <2>1 DEF Done, GroupAlive
  <2>5. mine \subseteq L
    OBVIOUS
  <2>6. Cardinality(mine) \in Nat /\ Cardinality(mine) <= Cardinality(L)
    <3> HIDE DEF mine, L
    <3> QED BY <2>2, <2>5, FS_Subset, FS_CardinalityType
  <2>7. Cardinality(mine) = Cardinality(L)
    BY <2>2, <2>3, <2>4, <2>6
  <2>8. mine = L
    <3> HIDE DEF mine, L
    <3> QED BY <2>2, <2>5, <2>7, FS_Subset
  <2> QED BY <2>2, <2>7, <2>8 DEF Told
<1> QED BY <1>5, <1>6

LEMMA FinishedOrdered ==
    ASSUME NEW T, NEW m, Sound(T, m), Ordered(T), NEW S, S \subseteq Live(T)
    PROVE  Ordered(Finished(T, S))
<1> DEFINE F == Finished(T, S)
<1>1. EndsTo(T, S, F)
  BY FinishedIs DEF Sound, Live
<1>2. Counted(T) /\ Counted(F)
  BY FinishedCounted DEF Ordered
<1>3. \A i \in Slot : /\ F.task[i].group = T.task[i].group /\ F.task[i].pid = T.task[i].pid
                      /\ F.task[i].waitPid = T.task[i].waitPid
                      /\ T.task[i].collected => F.task[i].collected
                      /\ T.task[i].state = "free" <=> F.task[i].state = "free"
  BY <1>1 DEF EndsTo, Awaits, Live
<1>4. Used(F) = Used(T)
  BY <1>3 DEF Used
<1>5. \A j \in Told(T, S) : j \in Used(T) /\ Done(F, j)
  BY <1>2, ToldIs
<1>6. \A j \in Used(T) : T.task[j].group \in {0, T.task[j].pid} /\ ~Done(T, j) /\ j \notin Told(T, S)
                            => ~Done(F, j)
  BY <1>2, UntoldIsUndead
<1> HIDE DEF F
<1>7. ThreadsCollected(F)
  BY <1>3, <1>4 DEF Ordered, ThreadsCollected, Used
<1>8. Waited(F)
  <2> SUFFICES ASSUME NEW i \in In(F, "waiting")
               PROVE  \E j \in Used(F) : /\ F.task[j].pid = F.task[i].waitPid
                                         /\ F.task[j].parent = F.task[i].pid
                                         /\ ~F.task[j].collected /\ ~Done(F, j)
    BY DEF Waited
  <2>1. /\ i \in Slot /\ F.task[i].state = "waiting" /\ i \notin S /\ T.task[i].state = "waiting"
        /\ \A j \in Told(T, S) : ~Awaits(T, S, i, j)
    BY <1>1 DEF EndsTo, In
  <2>2. i \in In(T, "waiting") /\ i \in Used(T)
    BY <2>1 DEF In, Used
  <2>3. PICK j \in Used(T) : /\ T.task[j].pid = T.task[i].waitPid
                             /\ T.task[j].parent = T.task[i].pid
                             /\ ~T.task[j].collected /\ ~Done(T, j)
    BY <2>2 DEF Ordered, Waited
  <2>4. j \in Slot /\ T.task[j].group \in {0, T.task[j].pid}
    BY <2>3 DEF Ordered, ThreadsCollected, Used
  <2>5. j \notin Told(T, S)
    BY <2>1, <2>3 DEF Awaits
  <2>6. ~Done(F, j)
    BY <1>6, <2>3, <2>4, <2>5
  <2>7. F.task[j].collected = T.task[j].collected
    BY <1>1, <2>4, <2>5, ZenonT(40) DEF EndsTo, Sound, Tables, Entry
  <2>8. \A k \in Told(T, S) : T.task[k].pid # T.task[i].pid
    <3> SUFFICES ASSUME NEW k \in Told(T, S), T.task[k].pid = T.task[i].pid PROVE FALSE
      OBVIOUS
    <3>1. k = i
      BY <1>5, <2>2 DEF Sound, Identified
    <3> QED BY <1>5, <2>1, <3>1 DEF Done
  <2>9. F.task[j].parent = T.task[j].parent
    BY <1>1, <2>3, <2>4, <2>8, ZenonT(40) DEF EndsTo
  <2> QED BY <1>3, <1>4, <2>1, <2>3, <2>4, <2>6, <2>7, <2>9
<1>9. NoThreadSpawns => Parented(F)
  <2> SUFFICES ASSUME NoThreadSpawns, NEW i \in Used(F), F.task[i].parent # 0
               PROVE  \E j \in Used(F) : /\ F.task[j].pid = F.task[i].parent
                                         /\ F.task[j].group \in {0, F.task[j].pid}
                                         /\ ~Done(F, j)
    BY DEF Parented
  <2>1. i \in Slot /\ i \in Used(T)
    BY <1>4 DEF Used
  <2>2. /\ F.task[i].parent = T.task[i].parent
        /\ \A k \in Told(T, S) : T.task[k].pid # T.task[i].parent
    BY <1>1, <2>1, ZenonT(40) DEF EndsTo
  <2>3. PICK j \in Used(T) : /\ T.task[j].pid = T.task[i].parent
                             /\ T.task[j].group \in {0, T.task[j].pid}
                             /\ ~Done(T, j)
    BY <2>1, <2>2 DEF Ordered, Parented
  <2>4. ~Done(F, j)
    BY <1>6, <2>2, <2>3
  <2> QED BY <1>3, <1>4, <2>2, <2>3, <2>4 DEF Used
<1> QED BY <1>2, <1>7, <1>8, <1>9 DEF Ordered, F

LEMMA ReapedOrdered ==
    ASSUME NEW T, NEW m, Sound(T, m), Ordered(T), NEW c \in Slot
    PROVE  Ordered(Reaped(T, c))
<1> DEFINE R == Reaped(T, c)
           Z == Reapable(T, c)
<1>1. ReapsTo(T, c, R) /\ Live(R) = Live(T) /\ \A i \in Live(T) : R.task[i] = T.task[i]
  BY ReapedIs, ReapedSound DEF Sound
<1>2. Counted(R)
  BY ReapedCounted DEF Ordered
<1> HIDE DEF R
<1>3. \A i \in Z : i \in Slot /\ T.task[i].state = "zombie" /\ ~ReapBlocked(T, i)
  BY DEF Reapable, In
<1>4. \A i \in Slot : i \notin Z => R.task[i] = T.task[i]
  BY <1>1 DEF ReapsTo
<1>5. \A i \in Z : /\ R.task[i].group = 0 /\ R.task[i].state \in {"free", "zombie"}
                   /\ R.task[i].state # "free" => /\ R.task[i].parent = T.task[i].parent
                                                  /\ i \in Used(T)
  <2> SUFFICES ASSUME NEW i \in Z
               PROVE  /\ R.task[i].group = 0 /\ R.task[i].state \in {"free", "zombie"}
                      /\ R.task[i].state # "free" => /\ R.task[i].parent = T.task[i].parent
                                                     /\ i \in Used(T)
    OBVIOUS
  <2>1. T.task[i] \in Entry /\ i \in Used(T) /\ T.task[i].state = "zombie"
    BY <1>3 DEF Sound, Tables, Used
  <2>2. R.task[i] = Free \/ R.task[i] = [T.task[i] EXCEPT !.group = 0, !.held = FALSE]
    BY <1>1, <1>3 DEF ReapsTo
  <2>3. CASE R.task[i] = Free
    BY <2>3, FreeType
  <2>4. CASE R.task[i] = [T.task[i] EXCEPT !.group = 0, !.held = FALSE]
    BY <2>1, <2>4 DEF Entry
  <2> QED BY <2>2, <2>3, <2>4
<1>6. ASSUME NEW j \in Used(T), T.task[j].group \in {0, T.task[j].pid}, ~Done(T, j)
      PROVE  j \in Used(R) /\ R.task[j] = T.task[j] /\ ~Done(R, j)
  <2>1. j \in Slot /\ T.task[j].group \in Pid \cup {0}
    BY DEF Used, Sound, Tables, Entry
  <2>2. j \notin Z
    BY <1>3, <1>6, <2>1 DEF ReapBlocked, Done, GroupAlive
  <2>3. R.task[j] = T.task[j]
    BY <1>4, <2>1, <2>2
  <2>4. \A g \in Pid : R.group[g].alive = T.group[g].alive
    BY <1>1 DEF ReapsTo
  <2>5. ~Done(R, j)
    BY <1>6, <2>1, <2>3, <2>4 DEF Done, GroupAlive
  <2> QED BY <2>1, <2>3, <2>5 DEF Used
<1>7. ThreadsCollected(R)
  BY <1>4, <1>5 DEF Ordered, ThreadsCollected, Used
<1>8. Waited(R)
  <2> SUFFICES ASSUME NEW i \in In(R, "waiting")
               PROVE  \E j \in Used(R) : /\ R.task[j].pid = R.task[i].waitPid
                                         /\ R.task[j].parent = R.task[i].pid
                                         /\ ~R.task[j].collected /\ ~Done(R, j)
    BY DEF Waited
  <2>1. i \in In(T, "waiting") /\ R.task[i] = T.task[i]
    BY <1>4, <1>5 DEF In
  <2>2. PICK j \in Used(T) : /\ T.task[j].pid = T.task[i].waitPid
                             /\ T.task[j].parent = T.task[i].pid
                             /\ ~T.task[j].collected /\ ~Done(T, j)
    BY <2>1 DEF Ordered, Waited
  <2>3. T.task[j].group \in {0, T.task[j].pid}
    BY <2>2 DEF Ordered, ThreadsCollected
  <2> QED BY <1>6, <2>1, <2>2, <2>3
<1>9. NoThreadSpawns => Parented(R)
  <2> SUFFICES ASSUME NoThreadSpawns, NEW i \in Used(R), R.task[i].parent # 0
               PROVE  \E j \in Used(R) : /\ R.task[j].pid = R.task[i].parent
                                         /\ R.task[j].group \in {0, R.task[j].pid}
                                         /\ ~Done(R, j)
    BY DEF Parented
  <2>1. i \in Used(T) /\ R.task[i].parent = T.task[i].parent
    BY <1>4, <1>5 DEF Used
  <2>2. PICK j \in Used(T) : /\ T.task[j].pid = T.task[i].parent
                             /\ T.task[j].group \in {0, T.task[j].pid}
                             /\ ~Done(T, j)
    BY <2>1 DEF Ordered, Parented
  <2> QED BY <1>6, <2>1, <2>2
<1> QED BY <1>2, <1>7, <1>8, <1>9 DEF Ordered, R

LEMMA SessionEndedOrdered ==
    ASSUME NEW T, NEW m, Sound(T, m), Ordered(T), NEW c \in Slot
    PROVE  Ordered(SessionEnded(T, m, c))
<1> DEFINE S == {i \in Live(T) : T.task[i].pid \notin {1, m}}
           F == Finished(T, S)
<1>1. S \subseteq Live(T) /\ 0 \notin S /\ \A i \in S : T.task[i].pid # m
  BY DEF Sound, Identified
<1>2. SessionEnded(T, m, c) = Reaped(F, c)
  BY DEF SessionEnded
<1> HIDE DEF S
<1>3. Sound(F, m) /\ Ordered(F)
  BY <1>1, FinishedSound, FinishedOrdered
<1> QED BY <1>2, <1>3, ReapedOrdered

LEMMA EndedOrdered ==
    ASSUME NEW T, Sound(T, manager), Ordered(T), NEW c \in Slot,
           NEW S, S \subseteq Live(T), 0 \notin S,
           \A i \in S : T.task[i].pid = manager => S = {i}
    PROVE  Ordered(Ended(T, S, c))
<1>1. CASE \E i \in S : T.task[i].pid = manager
  <2> DEFINE U == SessionEnded(T, manager, c)
  <2>1. PICK k \in S : T.task[k].pid = manager /\ S = {k}
    BY <1>1
  <2>2. Ended(T, S, c) = Finished(U, S)
    BY <1>1 DEF Ended
  <2>3. Sound(U, manager) /\ Ordered(U) /\ k \in Live(U)
    BY <2>1, SessionEndedSound, SessionEndedOrdered
  <2> HIDE DEF U
  <2>4. S \subseteq Live(U)
    BY <2>1, <2>3
  <2> QED BY <2>2, <2>3, <2>4, FinishedOrdered
<1>2. CASE ~\E i \in S : T.task[i].pid = manager
  BY <1>2, FinishedOrdered DEF Ended
<1> QED BY <1>1, <1>2

\* Processes that sleep, wake or are collected once they are done: nobody begins
\* to wait.
Relaxes(T, U) ==
    /\ Restates(T, U)
    /\ \A i \in Slot :
          /\ U.task[i].collected = T.task[i].collected \/ (U.task[i].collected /\ Done(T, i))
          /\ U.task[i].state = "waiting" => /\ T.task[i].state = "waiting"
                                            /\ U.task[i].waitPid = T.task[i].waitPid

\* What waiting does not change.
LEMMA RestatedDone ==
    ASSUME NEW T, NEW m, Sound(T, m), NEW U, Restates(T, U)
    PROVE  /\ \A i \in Used(T) : Done(U, i) <=> Done(T, i)
           /\ Used(U) = Used(T)
           /\ Counted(T) => Counted(U)
           /\ Parented(T) => Parented(U)
<1>1. Used(U) = Used(T) /\ Live(U) = Live(T)
  BY RestatedSound
<1>2. \A i \in Slot : Done(U, i) <=> Done(T, i)
  BY DEF Restates, Done, GroupAlive
<1>3. \A g : Members(U, g) = Members(T, g)
  BY <1>1 DEF Restates, Members, Used
<1>4. Counted(T) => Counted(U)
  BY <1>1, <1>3, GroupsFinite, ZenonT(40) DEF Counted, Restates
<1>5. Parented(T) => Parented(U)
  BY <1>1, <1>2 DEF Parented, Restates, Used
<1> QED BY <1>1, <1>2, <1>4, <1>5 DEF Used

LEMMA RelaxedOrdered ==
    ASSUME NEW T, NEW m, Sound(T, m), Ordered(T), NEW U, Relaxes(T, U)
    PROVE  Ordered(U)
<1>1. /\ \A i \in Used(T) : Done(U, i) <=> Done(T, i)
      /\ Used(U) = Used(T)
      /\ Counted(U) /\ (NoThreadSpawns => Parented(U))
  BY RestatedDone DEF Relaxes, Ordered
<1>2. \A i \in Slot : /\ U.task[i].pid = T.task[i].pid /\ U.task[i].parent = T.task[i].parent
                      /\ U.task[i].group = T.task[i].group
  BY DEF Relaxes, Restates
<1>3. ThreadsCollected(U)
  BY <1>1, <1>2 DEF Ordered, ThreadsCollected, Relaxes, Used
<1>4. Waited(U)
  <2> SUFFICES ASSUME NEW i \in In(U, "waiting")
               PROVE  \E j \in Used(U) : /\ U.task[j].pid = U.task[i].waitPid
                                         /\ U.task[j].parent = U.task[i].pid
                                         /\ ~U.task[j].collected /\ ~Done(U, j)
    BY DEF Waited
  <2>1. /\ i \in Slot /\ i \in In(T, "waiting") /\ U.task[i].waitPid = T.task[i].waitPid
        /\ U.task[i].pid = T.task[i].pid
    BY <1>2 DEF In, Relaxes
  <2>2. PICK j \in Used(T) : /\ T.task[j].pid = T.task[i].waitPid
                             /\ T.task[j].parent = T.task[i].pid
                             /\ ~T.task[j].collected /\ ~Done(T, j)
    BY <2>1 DEF Ordered, Waited
  <2>3. j \in Slot /\ ~U.task[j].collected
    BY <2>2 DEF Relaxes, Used
  <2> QED BY <1>1, <1>2, <2>1, <2>2, <2>3
<1> QED BY <1>1, <1>3, <1>4 DEF Ordered

LEMMA InstalledOrdered ==
    ASSUME NEW T, NEW m, Sound(T, m), Ordered(T), In(T, "free") # {}, nextPid \in Pid,
           NEW e \in Entry, e.pid = FreshPid(T), e.state = "ready", e.group = 0,
           NoThreadSpawns => \E j \in Live(T) : /\ e.parent = T.task[j].pid
                                                /\ T.task[j].group = 0
    PROVE  Ordered(Installed(T, e))
<1> DEFINE I == Installed(T, e)
           n == FirstFree(T)
<1>1. /\ I \in Tables /\ n \in Slot /\ T.task[n].state = "free"
      /\ \A i \in Slot : I.task[i] = IF i = n THEN e ELSE T.task[i]
      /\ I.group = T.group
  BY InstalledIs DEF Sound
<1> HIDE DEF I, n
<1>2. n \notin Used(T) /\ \A i \in Used(T) : i \in Slot /\ I.task[i] = T.task[i] /\ i \in Used(I)
  BY <1>1 DEF Used
<1>3. \A i \in Used(I) : i \in Slot /\ (i = n \/ i \in Used(T))
  BY <1>1 DEF Used
<1>4. \A g : Members(I, g) = Members(T, g)
  <2> SUFFICES ASSUME NEW g PROVE Members(I, g) = Members(T, g)
    OBVIOUS
  <2>1. I.task[n].group = 0
    BY <1>1
  <2>2. \A i \in Members(I, g) : i \in Members(T, g)
    BY <1>2, <1>3, <2>1 DEF Members
  <2>3. \A i \in Members(T, g) : i \in Members(I, g)
    BY <1>2 DEF Members
  <2> QED BY <2>2, <2>3
<1>5. \A g : Live(I) \cap Members(I, g) = Live(T) \cap Members(T, g)
  <2> SUFFICES ASSUME NEW g PROVE Live(I) \cap Members(I, g) = Live(T) \cap Members(T, g)
    OBVIOUS
  <2>1. \A i \in Members(T, g) : i \in Live(I) <=> i \in Live(T)
    BY <1>2 DEF Members, Live
  <2> QED BY <1>4, <2>1
<1>6. Counted(I)
  <2> SUFFICES ASSUME NEW g \in Pid
               PROVE  /\ I.group[g].alive = Cardinality(Live(I) \cap Members(I, g))
                      /\ I.group[g].references = Cardinality(Members(I, g))
                      /\ I.group[g].alive > 0 => \E i \in Members(I, g) : I.task[i].pid = g
    BY DEF Counted
  <2>1. I.group[g] = T.group[g]
    BY <1>1
  <2>2. \A i \in Members(T, g) : I.task[i] = T.task[i]
    BY <1>2 DEF Members
  <2> QED BY <1>4, <1>5, <2>1, <2>2 DEF Ordered, Counted
<1>7. \A j \in Used(T) : Done(I, j) <=> Done(T, j)
  BY <1>1, <1>2 DEF Done, GroupAlive
<1>8. ThreadsCollected(I)
  BY <1>1, <1>2, <1>3 DEF Ordered, ThreadsCollected
<1>9. Waited(I)
  <2> SUFFICES ASSUME NEW i \in In(I, "waiting")
               PROVE  \E j \in Used(I) : /\ I.task[j].pid = I.task[i].waitPid
                                         /\ I.task[j].parent = I.task[i].pid
                                         /\ ~I.task[j].collected /\ ~Done(I, j)
    BY DEF Waited
  <2>1. i \in In(T, "waiting") /\ I.task[i] = T.task[i]
    BY <1>1 DEF In
  <2>2. PICK j \in Used(T) : /\ T.task[j].pid = T.task[i].waitPid
                             /\ T.task[j].parent = T.task[i].pid
                             /\ ~T.task[j].collected /\ ~Done(T, j)
    BY <2>1 DEF Ordered, Waited
  <2> QED BY <1>2, <1>7, <2>1, <2>2
<1>10. NoThreadSpawns => Parented(I)
  <2> SUFFICES ASSUME NoThreadSpawns, NEW i \in Used(I), I.task[i].parent # 0
               PROVE  \E j \in Used(I) : /\ I.task[j].pid = I.task[i].parent
                                         /\ I.task[j].group \in {0, I.task[j].pid}
                                         /\ ~Done(I, j)
    BY DEF Parented
  <2>1. CASE i = n
    <3>1. PICK j \in Live(T) : e.parent = T.task[j].pid /\ T.task[j].group = 0
      OBVIOUS
    <3>2. j \in Used(T) /\ ~Done(T, j)
      BY <3>1 DEF Live, Used, Done
    <3>3. I.task[i] = e
      BY <1>1, <2>1
    <3> QED BY <1>2, <1>7, <3>1, <3>2, <3>3
  <2>2. CASE i # n
    <3>1. i \in Used(T) /\ I.task[i] = T.task[i]
      BY <1>2, <1>3, <2>2
    <3>2. PICK j \in Used(T) : /\ T.task[j].pid = T.task[i].parent
                               /\ T.task[j].group \in {0, T.task[j].pid}
                               /\ ~Done(T, j)
      BY <3>1 DEF Ordered, Parented
    <3> QED BY <1>2, <1>7, <3>1, <3>2
  <2> QED BY <2>1, <2>2
<1> QED BY <1>6, <1>8, <1>9, <1>10 DEF Ordered, I

-----------------------------------------------------------------------------
(* The processes stay ordered, call by call *)

OrderedInv == Ordered(Table)

LEMMA StepOrdered ==
    ASSUME NEW T, T \in Tables, Becomes(T), Ordered(T)
    PROVE  OrderedInv'
<1>1. Table' = T
  BY BecomesIs
<1> QED BY <1>1 DEF OrderedInv

LEMMA EnteredOrdered ==
    ASSUME SoundInv, OrderedInv
    PROVE  Ordered(Entered) /\ Entered \in Tables
<1>1. Sound(Table, manager) /\ current \in Slot
  BY DEF SoundInv, TypeOK
<1> QED BY <1>1, ReapedOrdered, EnteredSound DEF OrderedInv, Entered, Sound

LEMMA SpawnOrdered ==
    ASSUME SoundInv, OrderedInv, NEW foreign \in BOOLEAN, Spawn(foreign)
    PROVE  OrderedInv'
<1> DEFINE fresh == FreshPid(Entered)
           e == Newborn(fresh, Me.pid, foreign)
           I == Installed(Entered, e)
<1>1. /\ at = "user" /\ In(Entered, "free") # {} /\ Becomes(I)
      /\ NoThreadSpawns => ~Me.linux
  BY DEF Spawn, NativeCall, Newborn, NoThreadSpawns
<1>2. nextPid \in Pid /\ fresh \in Pid /\ Me.pid \in Pid
  BY <1>1, CallerSound, FreshPidIsFresh DEF Sound
<1>3. e \in Entry /\ e.pid = fresh /\ e.state = "ready" /\ e.group = 0 /\ e.parent = Me.pid
  <2> HIDE DEF fresh
  <2> QED BY <1>2, FreeType DEF Newborn, Entry, State, Free
<1>4. NoThreadSpawns => \E j \in Live(Entered) : /\ e.parent = Entered.task[j].pid
                                                 /\ Entered.task[j].group = 0
  BY <1>1, <1>3, CallerSound DEF Sound, Roles, Used, Live
<1>5. Ordered(Entered) /\ Entered \in Tables
  BY EnteredOrdered
<1> HIDE DEF e
<1>6. Ordered(I) /\ I \in Tables
  BY <1>1, <1>2, <1>3, <1>4, <1>5, CallerSound, InstalledOrdered, InstalledIs
<1> QED BY <1>1, <1>6, StepOrdered

LEMMA ExecOrdered ==
    ASSUME SoundInv, OrderedInv, NEW foreign \in BOOLEAN, Exec(foreign)
    PROVE  OrderedInv'
<1> DEFINE f == [Entered.task EXCEPT ![current].linux = foreign, ![current].group = 0]
           n == IF Me.group = 0 THEN Entered.group
                ELSE [Entered.group EXCEPT ![Me.group] = NoGroup]
           T == [task |-> f, group |-> n]
<1>1. /\ at = "user" /\ Becomes(T)
      /\ Me.group # 0 => /\ Entered.group[Me.group] = [alive |-> 1, references |-> 1]
                         /\ Me.pid = Me.group
  BY DEF Exec, NativeCall, LinuxCall
<1>2. /\ current \in Slot /\ Me \in Entry /\ Entered \in Tables /\ Entered.task[current] = Me
      /\ Me.state = "ready" /\ current \in Live(Entered) /\ Sound(Entered, manager)
      /\ Ordered(Entered)
  BY <1>1, CallerSound, EnteredOrdered
<1>3. /\ f \in [Slot -> Entry]
      /\ \A i \in Slot : i # current => f[i] = Entered.task[i]
      /\ f[current].state = Me.state /\ f[current].pid = Me.pid /\ f[current].group = 0
      /\ f[current].parent = Me.parent /\ f[current].collected = Me.collected
  BY <1>2 DEF Tables, Entry
<1>4. NoGroup \in Count /\ NoGroup.alive = 0 /\ NoGroup.references = 0
  BY DEF NoGroup, Count
<1>5. /\ n \in [Pid -> Count]
      /\ \A g \in Pid : n[g] = IF g = Me.group THEN NoGroup ELSE Entered.group[g]
  BY <1>2, <1>4, PidsFinite DEF Tables, Entry
<1> HIDE DEF f, n
<1>6. T \in Tables /\ T.task = f /\ T.group = n
  BY <1>3, <1>5, MakeTable
<1> HIDE DEF T
<1>7. /\ \A i \in Slot : /\ T.task[i].state = Entered.task[i].state
                         /\ T.task[i].pid = Entered.task[i].pid
                         /\ T.task[i].parent = Entered.task[i].parent
                         /\ T.task[i].collected = Entered.task[i].collected
      /\ \A i \in Slot \ {current} : T.task[i] = Entered.task[i]
      /\ T.task[current].group = 0
  BY <1>2, <1>3, <1>6
<1>8. Used(T) = Used(Entered) /\ Live(T) = Live(Entered) /\ current \in Used(T)
  BY <1>2, <1>7 DEF Used, Live
\* The group that the caller leaves was its own alone.
<1>9. Me.group # 0 => Members(Entered, Me.group) = {current}
  <2> SUFFICES ASSUME Me.group # 0 PROVE Members(Entered, Me.group) = {current}
    OBVIOUS
  <2>1. Me.group \in Pid /\ Entered.group[Me.group].references = 1
    BY <1>1, <1>2 DEF Entry
  <2>2. Cardinality(Members(Entered, Me.group)) = 1
    BY <1>2, <2>1 DEF Ordered, Counted
  <2>3. current \in Members(Entered, Me.group)
    BY <1>2, <1>8 DEF Members
  <2>4. \E x : Members(Entered, Me.group) = {x}
    BY <2>2, GroupsFinite, FS_Singleton
  <2> QED BY <2>3, <2>4
<1>10. \A g \in Pid : g # Me.group => Members(T, g) = Members(Entered, g)
  <2> SUFFICES ASSUME NEW g \in Pid, g # Me.group PROVE Members(T, g) = Members(Entered, g)
    OBVIOUS
  <2>1. g # 0
    BY PidsFinite
  <2>2. \A i \in Used(T) : T.task[i].group = g <=> Entered.task[i].group = g
    BY <1>2, <1>7, <2>1 DEF Used
  <2> QED BY <1>8, <2>1, <2>2 DEF Members
<1>11. Me.group # 0 => Members(T, Me.group) = {}
  <2>1. \A i \in Used(T) : i # current => T.task[i].group = Entered.task[i].group
    BY <1>7 DEF Used
  <2> QED BY <1>7, <1>8, <1>9, <2>1 DEF Members
<1>12. Counted(T)
  <2> SUFFICES ASSUME NEW g \in Pid
               PROVE  /\ T.group[g].alive = Cardinality(Live(T) \cap Members(T, g))
                      /\ T.group[g].references = Cardinality(Members(T, g))
                      /\ T.group[g].alive > 0 => \E i \in Members(T, g) : T.task[i].pid = g
    BY DEF Counted
  <2>1. CASE g = Me.group
    <3>1. g # 0 /\ T.group[g] = NoGroup
      BY <1>5, <1>6, <2>1, PidsFinite
    <3>2. Members(T, g) = {} /\ Live(T) \cap Members(T, g) = {}
      BY <1>11, <2>1, <3>1
    <3>3. Cardinality({}) = 0
      BY FS_EmptySet
    <3> QED BY <1>4, <3>1, <3>2, <3>3
  <2>2. CASE g # Me.group
    <3>1. T.group[g] = Entered.group[g] /\ Members(T, g) = Members(Entered, g)
      BY <1>5, <1>6, <1>10, <2>2
    <3>2. \A i \in Members(T, g) : T.task[i].pid = Entered.task[i].pid
      BY <1>7, GroupsFinite
    <3> QED BY <1>2, <1>8, <3>1, <3>2 DEF Ordered, Counted
  <2> QED BY <2>1, <2>2
<1>13. \A j \in Used(T) : Done(T, j) <=> Done(Entered, j)
  <2> SUFFICES ASSUME NEW j \in Used(T) PROVE Done(T, j) <=> Done(Entered, j)
    OBVIOUS
  <2>1. CASE j = current
    BY <1>2, <1>7, <2>1 DEF Done
  <2>2. CASE j # current
    <3>1. j \in Slot /\ T.task[j] = Entered.task[j] /\ Entered.task[j] \in Entry
      BY <1>2, <1>7, <2>2 DEF Used, Tables
    <3>2. Entered.task[j].group # 0 => Entered.task[j].group # Me.group
      BY <1>8, <1>9, <2>2 DEF Members
    <3> QED BY <1>5, <1>6, <3>1, <3>2 DEF Done, GroupAlive, Entry
  <2> QED BY <2>1, <2>2
<1>14. ThreadsCollected(T)
  BY <1>2, <1>7, <1>8 DEF Ordered, ThreadsCollected, Used
<1>15. Waited(T)
  <2> SUFFICES ASSUME NEW i \in In(T, "waiting")
               PROVE  \E j \in Used(T) : /\ T.task[j].pid = T.task[i].waitPid
                                         /\ T.task[j].parent = T.task[i].pid
                                         /\ ~T.task[j].collected /\ ~Done(T, j)
    BY DEF Waited
  <2>1. i \in In(Entered, "waiting") /\ T.task[i] = Entered.task[i]
    BY <1>2, <1>7 DEF In
  <2>2. PICK j \in Used(Entered) : /\ Entered.task[j].pid = Entered.task[i].waitPid
                                   /\ Entered.task[j].parent = Entered.task[i].pid
                                   /\ ~Entered.task[j].collected /\ ~Done(Entered, j)
    BY <1>2, <2>1 DEF Ordered, Waited
  <2>3. j \in Slot
    BY <2>2 DEF Used
  <2> QED BY <1>7, <1>8, <1>13, <2>1, <2>2, <2>3
<1>16. NoThreadSpawns => Parented(T)
  <2> SUFFICES ASSUME NoThreadSpawns, NEW i \in Used(T), T.task[i].parent # 0
               PROVE  \E j \in Used(T) : /\ T.task[j].pid = T.task[i].parent
                                         /\ T.task[j].group \in {0, T.task[j].pid}
                                         /\ ~Done(T, j)
    BY DEF Parented
  <2>1. i \in Slot /\ T.task[i].parent = Entered.task[i].parent
    BY <1>7 DEF Used
  <2>2. PICK j \in Used(Entered) : /\ Entered.task[j].pid = Entered.task[i].parent
                                   /\ Entered.task[j].group \in {0, Entered.task[j].pid}
                                   /\ ~Done(Entered, j)
    BY <1>2, <1>8, <2>1 DEF Ordered, Parented
  <2>3. j \in Slot /\ T.task[j].group \in {0, T.task[j].pid}
    BY <1>7, <2>2 DEF Used
  <2> QED BY <1>7, <1>8, <1>13, <2>1, <2>2, <2>3
<1>17. Ordered(T)
  BY <1>12, <1>14, <1>15, <1>16 DEF Ordered
<1> QED BY <1>1, <1>6, <1>17, StepOrdered

\* A group of the caller's pid has nobody in it before the caller's first clone.
LEMMA NobodyJoinedYet ==
    ASSUME SoundInv, OrderedInv, at = "user", Me.group = 0
    PROVE  Members(Entered, Me.pid) = {}
<1>1. /\ current \in Slot /\ Entered.task[current] = Me /\ Me.state = "ready" /\ Me.pid \in Pid
      /\ current \in Live(Entered) /\ Sound(Entered, manager) /\ Ordered(Entered)
  BY CallerSound, EnteredOrdered
<1> SUFFICES ASSUME NEW i \in Members(Entered, Me.pid) PROVE FALSE
  OBVIOUS
<1>2. i \in Used(Entered) /\ i \in Slot /\ Entered.task[i].group = Me.pid /\ current \in Used(Entered)
  BY <1>1 DEF Members, Used, Live
<1>3. i # current
  BY <1>1, <1>2, PidsFinite
<1>4. CASE i \in Live(Entered)
  <2>1. Entered.group[Me.pid].alive > 0
    BY <1>1, <1>4, AliveCounted DEF Ordered
  <2>2. PICK k \in Members(Entered, Me.pid) : Entered.task[k].pid = Me.pid
    BY <1>1, <2>1 DEF Ordered, Counted
  <2>3. k = current
    BY <1>1, <1>2, <2>2 DEF Members, Sound, Identified
  <2> QED BY <1>1, <2>2, <2>3, PidsFinite DEF Members
<1>5. CASE i \notin Live(Entered)
  <2>1. Sound(Table, manager) /\ ReapsTo(Table, current, Entered)
    BY <1>1, ReapedIs DEF SoundInv, Sound, Entered
  <2>2. Entered.task[i].state = "zombie"
    BY <1>2, <1>5 DEF Live, Used
  <2>3. i \notin Reapable(Table, current)
    <3> SUFFICES ASSUME i \in Reapable(Table, current) PROVE FALSE
      OBVIOUS
    <3>1. Table.task[i] \in Entry
      BY <1>2, <2>1 DEF Sound, Tables
    <3>2. \/ Entered.task[i] = Free
          \/ Entered.task[i] = [Table.task[i] EXCEPT !.group = 0, !.held = FALSE]
      BY <1>2, <2>1 DEF ReapsTo
    <3>3. Entered.task[i].group = 0
      BY <3>1, <3>2, FreeType DEF Entry
    <3> QED BY <1>1, <1>2, <3>3, PidsFinite
  <2>4. Entered.task[i] = Table.task[i]
    BY <1>2, <2>1, <2>3 DEF ReapsTo
  <2>5. ReapBlocked(Table, i)
    BY <1>2, <1>3, <2>2, <2>3, <2>4 DEF Reapable, In
  <2>6. Entered.task[i].pid = Me.pid
    BY <1>2, <2>4, <2>5 DEF ReapBlocked
  <2> QED BY <1>1, <1>2, <1>3, <2>6 DEF Sound, Identified
<1> QED BY <1>4, <1>5

LEMMA CloneOrdered ==
    ASSUME SoundInv, OrderedInv, Clone
    PROVE  OrderedInv'
<1> DEFINE I == Installed(Joined, Thread)
           n == FirstFree(Joined)
           L == Leader
           E == Entered
<1>1. LinuxCall /\ at = "user" /\ In(E, "free") # {} /\ Becomes(I)
  BY CloneIs DEF LinuxCall
<1>2. /\ current \in Slot /\ Me \in Entry /\ E \in Tables /\ E.task[current] = Me
      /\ Me.state = "ready" /\ current \in Live(E) /\ Sound(E, manager) /\ Ordered(E)
      /\ nextPid \in Pid /\ Me.pid \in Pid
  BY <1>1, CallerSound, EnteredOrdered
<1>3. /\ L \in Pid /\ L = (IF Me.group = 0 THEN Me.pid ELSE Me.group)
      /\ Joined \in Tables /\ Joined.task[current].group = L
      /\ \A i \in Slot : i # current => Joined.task[i] = E.task[i]
      /\ \A i \in Slot : /\ Joined.task[i].pid = E.task[i].pid
                         /\ Joined.task[i].state = E.task[i].state
                         /\ Joined.task[i].parent = E.task[i].parent
                         /\ Joined.task[i].collected = E.task[i].collected
                         /\ Joined.task[i].waitPid = E.task[i].waitPid
      /\ \A g \in Pid : g # L => Joined.group[g] = E.group[g]
      /\ Joined.group[L] = IF Me.group = 0 THEN [alive |-> 2, references |-> 2]
                           ELSE [alive |-> E.group[L].alive + 1,
                                 references |-> E.group[L].references + 1]
  BY <1>1, JoinedSound DEF Sound, Leader
<1>4. /\ Thread \in Entry /\ Thread.group = L /\ Thread.parent = L /\ Thread.collected = TRUE
      /\ Thread.state = "ready"
  <2>1. /\ FreshPid(E) \in Pid /\ Thread = NewThread(Me, FreshPid(E), L)
        /\ Me \in Entry /\ L \in Pid
    BY <1>1, <1>2, <1>3, FreshPidIsFresh DEF Thread, Sound
  <2> HIDE DEF E, L
  <2> DEFINE c == NewThread(Me, FreshPid(E), L)
  <2>2. /\ c \in Entry /\ c.group = L /\ c.parent = L /\ c.collected = TRUE
        /\ c.state = Me.state
    BY <2>1, ThreadType, ZenonT(40)
  <2> HIDE DEF c
  <2>3. Thread = c
    BY <2>1 DEF c
  <2> QED BY <1>2, <2>2, <2>3
<1> HIDE DEF E, L
<1>5. In(Joined, "free") # {}
  BY <1>1, <1>3 DEF In
<1>6. /\ I \in Tables /\ n \in Slot /\ Joined.task[n].state = "free"
      /\ \A i \in Slot : I.task[i] = IF i = n THEN Thread ELSE Joined.task[i]
      /\ I.group = Joined.group
  BY <1>3, <1>4, <1>5, InstalledIs
<1> HIDE DEF I, n
<1>7. /\ n # current /\ n \notin Used(E) /\ n \in Used(I) /\ n \in Live(I)
      /\ I.task[n] = Thread /\ current \in Used(E)
  BY <1>2, <1>3, <1>4, <1>6 DEF Used, Live
<1>8. \A i \in Used(E) : /\ i \in Slot /\ i \in Used(I)
                         /\ i # current => I.task[i] = E.task[i]
                         /\ I.task[i].pid = E.task[i].pid /\ I.task[i].state = E.task[i].state
                         /\ I.task[i].parent = E.task[i].parent
                         /\ I.task[i].collected = E.task[i].collected
                         /\ I.task[i].waitPid = E.task[i].waitPid
                         /\ i \in Live(I) <=> i \in Live(E)
  BY <1>3, <1>6, <1>7 DEF Used, Live
<1>9. \A i \in Used(I) : i = n \/ i \in Used(E)
  BY <1>3, <1>6 DEF Used
<1>10. I.task[current].group = L
  BY <1>2, <1>3, <1>6, <1>7
<1>11. Me.group \in {0, L} /\ (Me.group = 0 => L = Me.pid /\ Members(E, L) = {})
       /\ L # 0
  BY <1>1, <1>3, NobodyJoinedYet, PidsFinite DEF E
<1>12. \A g \in Pid : g # L => Members(I, g) = Members(E, g)
  <2> SUFFICES ASSUME NEW g \in Pid, g # L PROVE Members(I, g) = Members(E, g)
    OBVIOUS
  <2>1. n \notin Members(I, g) /\ current \notin Members(I, g) /\ current \notin Members(E, g)
    BY <1>2, <1>4, <1>7, <1>10, <1>11, PidsFinite DEF Members
  <2>2. \A i \in Members(I, g) : i \in Members(E, g)
    BY <1>8, <1>9, <2>1 DEF Members
  <2>3. \A i \in Members(E, g) : i \in Members(I, g)
    BY <1>8, <2>1 DEF Members
  <2> QED BY <2>2, <2>3
<1>13. Members(I, L) = (Members(E, L) \cup {current}) \cup {n}
  <2>1. n \in Members(I, L) /\ current \in Members(I, L)
    BY <1>4, <1>7, <1>8, <1>10, <1>11 DEF Members
  <2>2. \A i \in Members(I, L) : i \in Members(E, L) \/ i = current \/ i = n
    BY <1>8, <1>9 DEF Members
  <2>3. \A i \in Members(E, L) : i \in Members(I, L)
    BY <1>8, <2>1 DEF Members
  <2> QED BY <2>1, <2>2, <2>3
<1>14. Live(I) \cap Members(I, L) = ((Live(E) \cap Members(E, L)) \cup {current}) \cup {n}
  <2>1. \A i \in Members(E, L) : i \in Live(I) <=> i \in Live(E)
    BY <1>8 DEF Members
  <2>2. current \in Live(I)
    BY <1>2, <1>7, <1>8
  <2> QED BY <1>7, <1>13, <2>1, <2>2
<1>15. Me.group # 0 => current \in Members(E, L) /\ E.group[L].alive > 0
  <2> SUFFICES ASSUME Me.group # 0 PROVE current \in Members(E, L) /\ E.group[L].alive > 0
    OBVIOUS
  <2>1. current \in Members(E, L)
    BY <1>2, <1>7, <1>11 DEF Members
  <2> QED BY <1>2, <1>3, <2>1, AliveCounted DEF Ordered
\* Of a set that the caller joins, unless it was in it, and the new thread.
<1>16. ASSUME NEW M, M \in {Members(E, L), Live(E) \cap Members(E, L)}
       PROVE  Cardinality((M \cup {current}) \cup {n}) =
                 IF Me.group = 0 THEN 2 ELSE Cardinality(M) + 1
  <2>1. IsFiniteSet(M) /\ n \notin M \cup {current} /\ (Me.group = 0 => M = {})
        /\ (Me.group # 0 => current \in M)
    <3>1. IsFiniteSet(M) /\ M \subseteq Members(E, L)
      BY <1>16, GroupsFinite
    <3>2. n \notin Members(E, L)
      BY <1>7 DEF Members
    <3>3. Me.group # 0 => current \in M
      BY <1>2, <1>15, <1>16
    <3> QED BY <1>7, <1>11, <3>1, <3>2, <3>3
  <2>2. CASE Me.group = 0
    <3>1. (M \cup {current}) \cup {n} = {current} \cup {n}
      BY <2>1, <2>2
    <3>2. IsFiniteSet({current}) /\ Cardinality({current}) = 1 /\ n \notin {current}
      BY <2>1, FS_Singleton
    <3>3. Cardinality({current} \cup {n}) = 1 + 1
      BY <3>2, FS_AddElement
    <3> QED BY <2>2, <3>1, <3>3
  <2>3. CASE Me.group # 0
    <3>1. M \cup {current} = M
      BY <2>1, <2>3
    <3>2. Cardinality(M \cup {n}) = Cardinality(M) + 1
      BY <2>1, FS_AddElement
    <3> QED BY <2>3, <3>1, <3>2
  <2> QED BY <2>2, <2>3
<1>17. Counted(I)
  <2> SUFFICES ASSUME NEW g \in Pid
               PROVE  /\ I.group[g].alive = Cardinality(Live(I) \cap Members(I, g))
                      /\ I.group[g].references = Cardinality(Members(I, g))
                      /\ I.group[g].alive > 0 => \E i \in Members(I, g) : I.task[i].pid = g
    BY DEF Counted
  <2>1. CASE g = L
    <3>1. /\ E.group[L].alive = Cardinality(Live(E) \cap Members(E, L))
          /\ E.group[L].references = Cardinality(Members(E, L))
          /\ E.group[L].alive > 0 => \E i \in Members(E, L) : E.task[i].pid = L
      BY <1>2, <1>3 DEF Ordered, Counted
    <3>2. I.group[L].alive = IF Me.group = 0 THEN 2 ELSE E.group[L].alive + 1
      BY <1>3, <1>6
    <3>3. I.group[L].references = IF Me.group = 0 THEN 2 ELSE E.group[L].references + 1
      BY <1>3, <1>6
    <3>4. I.group[L].alive = Cardinality(Live(I) \cap Members(I, L))
      BY <1>14, <1>16, <3>1, <3>2
    <3>5. I.group[L].references = Cardinality(Members(I, L))
      BY <1>13, <1>16, <3>1, <3>3
    <3>6. \E i \in Members(I, L) : I.task[i].pid = L
      <4>1. CASE Me.group = 0
        BY <1>2, <1>7, <1>8, <1>11, <1>13, <4>1
      <4>2. CASE Me.group # 0
        <5>1. PICK i \in Members(E, L) : E.task[i].pid = L
          BY <1>15, <3>1, <4>2
        <5>2. i \in Used(E)
          BY <5>1 DEF Members
        <5> QED BY <1>8, <1>13, <5>1, <5>2
      <4> QED BY <4>1, <4>2
    <3> QED BY <2>1, <3>4, <3>5, <3>6
  <2>2. CASE g # L
    <3>1. I.group[g] = E.group[g] /\ Members(I, g) = Members(E, g)
      BY <1>3, <1>6, <1>12, <2>2
    <3>2. \A i \in Members(E, g) : I.task[i].pid = E.task[i].pid
                                  /\ (i \in Live(I) <=> i \in Live(E))
      BY <1>8 DEF Members
    <3>3. Live(I) \cap Members(I, g) = Live(E) \cap Members(E, g)
      BY <3>1, <3>2
    <3> QED BY <1>2, <3>1, <3>2, <3>3 DEF Ordered, Counted
  <2> QED BY <2>1, <2>2
<1>18. \A j \in Used(E) : Done(I, j) <=> Done(E, j)
  <2> SUFFICES ASSUME NEW j \in Used(E) PROVE Done(I, j) <=> Done(E, j)
    OBVIOUS
  <2>1. CASE E.task[j].state # "zombie"
    BY <1>8, <2>1 DEF Done
  <2>2. CASE E.task[j].state = "zombie"
    <3>1. j # current /\ I.task[j] = E.task[j] /\ E.task[j] \in Entry
      BY <1>2, <1>8, <2>2 DEF Tables
    <3>2. CASE E.task[j].group # L
      BY <1>3, <1>6, <3>1, <3>2 DEF Done, GroupAlive, Entry
    <3>3. CASE E.task[j].group = L
      <4>1. j \in Members(E, L) /\ Me.group # 0
        BY <1>11, <3>3 DEF Members
      <4>2. I.group[L].alive = E.group[L].alive + 1 /\ E.group[L].alive > 0
            /\ E.group[L].alive \in Nat
        BY <1>2, <1>3, <1>6, <1>15, <4>1, AliveCounted DEF Ordered
      <4>3. I.group[L].alive > 0
        BY <4>2
      <4> QED BY <3>1, <3>3, <4>2, <4>3 DEF Done, GroupAlive
    <3> QED BY <3>2, <3>3
  <2> QED BY <2>1, <2>2
<1>19. ThreadsCollected(I)
  <2> SUFFICES ASSUME NEW i \in Used(I), I.task[i].group \notin {0, I.task[i].pid}
               PROVE  I.task[i].collected
    BY DEF ThreadsCollected
  <2>1. CASE i = n
    BY <1>4, <1>7, <2>1
  <2>2. CASE i = current
    <3>1. Me.group # 0 /\ E.task[i].group = L
      BY <1>2, <1>7, <1>8, <1>10, <1>11, <2>2
    <3> QED BY <1>2, <1>7, <1>8, <1>10, <2>2, <3>1 DEF Ordered, ThreadsCollected
  <2>3. CASE i # n /\ i # current
    BY <1>2, <1>8, <1>9, <2>3 DEF Ordered, ThreadsCollected
  <2> QED BY <2>1, <2>2, <2>3
<1>20. Waited(I)
  <2> SUFFICES ASSUME NEW i \in In(I, "waiting")
               PROVE  \E j \in Used(I) : /\ I.task[j].pid = I.task[i].waitPid
                                         /\ I.task[j].parent = I.task[i].pid
                                         /\ ~I.task[j].collected /\ ~Done(I, j)
    BY DEF Waited
  <2>1. i \in Used(I) /\ i # n
    BY <1>4, <1>7 DEF In, Used
  <2>2. i \in Used(E) /\ i \in In(E, "waiting")
    BY <1>8, <1>9, <2>1 DEF In
  <2>3. PICK j \in Used(E) : /\ E.task[j].pid = E.task[i].waitPid
                             /\ E.task[j].parent = E.task[i].pid
                             /\ ~E.task[j].collected /\ ~Done(E, j)
    BY <1>2, <2>2 DEF Ordered, Waited
  <2> QED BY <1>8, <1>18, <2>2, <2>3
<1>21. NoThreadSpawns => Parented(I)
  <2> SUFFICES ASSUME NoThreadSpawns, NEW i \in Used(I), I.task[i].parent # 0
               PROVE  \E j \in Used(I) : /\ I.task[j].pid = I.task[i].parent
                                         /\ I.task[j].group \in {0, I.task[j].pid}
                                         /\ ~Done(I, j)
    BY DEF Parented
  <2>1. CASE i = n
    <3>1. PICK k \in Used(E) : E.task[k].pid = L /\ ~Done(E, k) /\ I.task[k].group = L
      <4>1. CASE Me.group = 0
        BY <1>2, <1>7, <1>10, <1>11, <4>1 DEF Done
      <4>2. CASE Me.group # 0
        <5>1. PICK k \in Members(E, L) : E.task[k].pid = L
          BY <1>2, <1>3, <1>15, <4>2 DEF Ordered, Counted
        <5>2. k \in Used(E) /\ E.task[k].group = L
          BY <5>1 DEF Members
        <5>3. ~Done(E, k)
          BY <1>11, <1>15, <4>2, <5>2 DEF Done, GroupAlive
        <5> QED BY <1>8, <1>10, <5>1, <5>2, <5>3
      <4> QED BY <4>1, <4>2
    <3> QED BY <1>4, <1>7, <1>8, <1>18, <2>1, <3>1
  <2>2. CASE i # n
    <3>1. i \in Used(E) /\ I.task[i].parent = E.task[i].parent
      BY <1>8, <1>9, <2>2
    <3>2. PICK j \in Used(E) : /\ E.task[j].pid = E.task[i].parent
                               /\ E.task[j].group \in {0, E.task[j].pid}
                               /\ ~Done(E, j)
      BY <1>2, <3>1 DEF Ordered, Parented
    <3>3. I.task[j].group \in {0, I.task[j].pid}
      <4>1. CASE j = current
        BY <1>2, <1>8, <1>10, <1>11, <3>2, <4>1
      <4>2. CASE j # current
        BY <1>8, <3>2, <4>2
      <4> QED BY <4>1, <4>2
    <3> QED BY <1>8, <1>18, <3>1, <3>2, <3>3
  <2> QED BY <2>1, <2>2
<1>22. Ordered(I)
  BY <1>17, <1>19, <1>20, <1>21 DEF Ordered
<1> QED BY <1>1, <1>6, <1>22, StepOrdered

LEMMA ExitOrdered ==
    ASSUME SoundInv, OrderedInv, Exit
    PROVE  OrderedInv'
<1> DEFINE T == Ended(Entered, {current}, current)
           joiners == IF Me.group = 0 THEN {} ELSE In(T, "sleeping") \cap Members(T, Me.group)
           J(j) == IF j = current THEN T ELSE [T EXCEPT !.task[j].state = "ready"]
           boss == Unmanaged(Entered, {current})
<1>1. /\ at = "user" /\ Me.pid # 1
      /\ \E j \in joiners \cup {current} : Becomes(Reaped(J(j), current))
  BY DEF Exit
<1>2. PICK j \in joiners \cup {current} : Becomes(Reaped(J(j), current))
  BY <1>1
<1>3. /\ current \in Slot /\ current # 0 /\ Entered.task[current] = Me
      /\ current \in Live(Entered) /\ Sound(Entered, manager) /\ Ordered(Entered)
  BY <1>1, CallerSound, EnteredOrdered DEF Sound, Identified
<1>4. Sound(T, boss) /\ Ordered(T)
  BY <1>3, EndedSound, EndedOrdered
<1> HIDE DEF boss
<1>5. Sound(J(j), boss) /\ Ordered(J(j))
  <2>1. CASE j = current
    BY <1>4, <2>1
  <2>2. CASE j # current
    <3> HIDE DEF T
    <3>1. j \in Slot /\ T.task[j].state = "sleeping" /\ T \in Tables /\ T.task[j] \in Entry
      BY <1>4, <2>2 DEF In, Sound, Tables
    <3> DEFINE e == [T.task[j] EXCEPT !.state = "ready"]
    <3>2. /\ e \in Entry /\ e.state = "ready" /\ e.pid = T.task[j].pid
          /\ e.parent = T.task[j].parent /\ e.linux = T.task[j].linux
          /\ e.group = T.task[j].group /\ e.held = T.task[j].held
          /\ e.collected = T.task[j].collected
      BY <3>1 DEF Entry, State
    <3>3. J(j) = WithEntry(T, j, e)
      BY <2>2, <3>1 DEF Tables, WithEntry
    <3> HIDE DEF e, J, boss
    <3>4. /\ Restates(T, WithEntry(T, j, e))
          /\ \A i \in Slot : WithEntry(T, j, e).task[i] = IF i = j THEN e ELSE T.task[i]
      BY <1>4, <3>1, <3>2, RestateOne
    <3>5. Relaxes(T, WithEntry(T, j, e))
      BY <3>2, <3>4 DEF Relaxes
    <3> QED BY <1>4, <3>3, <3>4, <3>5, RestatedSound, RelaxedOrdered
  <2> QED BY <2>1, <2>2
<1> HIDE DEF J, T
<1>6. Ordered(Reaped(J(j), current)) /\ Reaped(J(j), current) \in Tables
  BY <1>3, <1>5, ReapedOrdered, ReapedSound DEF Sound
<1> QED BY <1>2, <1>6, StepOrdered

LEMMA ExitGroupOrdered ==
    ASSUME SoundInv, OrderedInv, ExitGroup
    PROVE  OrderedInv'
<1> DEFINE S == Company(Entered, current)
           T == Ended(Entered, S, current)
<1>1. at = "user" /\ Me.pid # 1 /\ Becomes(Reaped(T, current))
  BY DEF ExitGroup
<1>2. /\ current \in Slot /\ current # 0 /\ Entered.task[current] = Me
      /\ current \in Live(Entered) /\ Sound(Entered, manager) /\ Ordered(Entered)
  BY <1>1, CallerSound, EnteredOrdered DEF Sound, Identified
<1>3. /\ S \subseteq Live(Entered) /\ 0 \notin S
      /\ \A i \in S : Entered.task[i].pid = manager => S = {i}
  BY <1>2, CompanyAlive
<1> HIDE DEF S
<1>4. Sound(T, Unmanaged(Entered, S)) /\ Ordered(T)
  BY <1>2, <1>3, EndedSound, EndedOrdered
<1> HIDE DEF T
<1>5. Ordered(Reaped(T, current)) /\ Reaped(T, current) \in Tables
  BY <1>2, <1>4, ReapedOrdered, ReapedSound DEF Sound
<1> QED BY <1>1, <1>5, StepOrdered

LEMMA WaitOrdered ==
    ASSUME SoundInv, OrderedInv, Wait
    PROVE  OrderedInv'
<1>1. at = "user"
  BY DEF Wait, NativeCall
<1>2. PICK i \in Used(Entered) :
         /\ Entered.task[i].parent = Me.pid /\ ~Entered.task[i].collected
         /\ IF Done(Entered, i)
            THEN Becomes([Entered EXCEPT !.task[i].collected = TRUE])
            ELSE Becomes([Entered EXCEPT !.task[current].state = "waiting",
                                         !.task[current].waitPid = Entered.task[i].pid])
  BY DEF Wait
<1>3. /\ i \in Slot /\ Entered.task[i] \in Entry /\ Entered \in Tables
      /\ Entered.task[i].state # "free" /\ Sound(Entered, manager) /\ Ordered(Entered)
      /\ current \in Slot /\ Entered.task[current] = Me
  BY <1>1, CallerSound, EnteredOrdered DEF Used, Sound, Tables
<1>4. CASE Done(Entered, i)
  <2> DEFINE e == [Entered.task[i] EXCEPT !.collected = TRUE]
             U == WithEntry(Entered, i, e)
  <2>1. /\ e \in Entry /\ e.state = Entered.task[i].state /\ e.pid = Entered.task[i].pid
        /\ e.parent = Entered.task[i].parent /\ e.linux = Entered.task[i].linux
        /\ e.group = Entered.task[i].group /\ e.held = Entered.task[i].held
        /\ e.collected = TRUE /\ e.waitPid = Entered.task[i].waitPid
    BY <1>3 DEF Entry
  <2>2. U = [Entered EXCEPT !.task[i].collected = TRUE]
    BY <1>3 DEF Tables, WithEntry
  <2> HIDE DEF e
  <2>3. /\ Restates(Entered, U)
        /\ \A k \in Slot : U.task[k] = IF k = i THEN e ELSE Entered.task[k]
    BY <1>3, <2>1, RestateOne
  <2> HIDE DEF U
  <2>4. Relaxes(Entered, U)
    BY <1>4, <2>1, <2>3 DEF Relaxes
  <2>5. U \in Tables /\ Ordered(U)
    BY <1>3, <2>4, RelaxedOrdered DEF Relaxes, Restates
  <2> QED BY <1>2, <1>4, <2>2, <2>5, StepOrdered
\* The child that the caller begins to wait for has not ended.
<1>5. CASE ~Done(Entered, i)
  <2> DEFINE e == [Me EXCEPT !.state = "waiting", !.waitPid = Entered.task[i].pid]
             U == WithEntry(Entered, current, e)
  <2>1. /\ e \in Entry /\ e.state = "waiting" /\ e.pid = Me.pid
        /\ e.parent = Me.parent /\ e.linux = Me.linux
        /\ e.group = Me.group /\ e.held = Me.held /\ e.collected = Me.collected
        /\ e.waitPid = Entered.task[i].pid
    BY <1>1, <1>3, CallerSound DEF Entry, State
  <2>2. U = [Entered EXCEPT !.task[current].state = "waiting",
                            !.task[current].waitPid = Entered.task[i].pid]
    BY <1>1, <1>3, CallerSound DEF Tables, WithEntry
  <2> HIDE DEF e
  <2>3. /\ Restates(Entered, U)
        /\ \A k \in Slot : U.task[k] = IF k = current THEN e ELSE Entered.task[k]
    BY <1>1, <1>3, <2>1, RestateOne, CallerSound
  <2> HIDE DEF U
  <2>4. /\ \A k \in Used(Entered) : Done(U, k) <=> Done(Entered, k)
        /\ Used(U) = Used(Entered)
        /\ Counted(U) /\ (NoThreadSpawns => Parented(U))
    BY <1>3, <2>3, RestatedDone DEF Ordered
  <2>5. \A k \in Slot : /\ U.task[k].pid = Entered.task[k].pid
                        /\ U.task[k].parent = Entered.task[k].parent
                        /\ U.task[k].collected = Entered.task[k].collected
                        /\ U.task[k].group = Entered.task[k].group
    BY <1>3, <2>1, <2>3
  <2>6. ThreadsCollected(U)
    BY <1>3, <2>4, <2>5 DEF Ordered, ThreadsCollected, Used
  <2>7. Waited(U)
    <3> SUFFICES ASSUME NEW k \in In(U, "waiting")
                 PROVE  \E j \in Used(U) : /\ U.task[j].pid = U.task[k].waitPid
                                           /\ U.task[j].parent = U.task[k].pid
                                           /\ ~U.task[j].collected /\ ~Done(U, j)
      BY DEF Waited
    <3>1. CASE k = current
      BY <1>2, <1>3, <1>5, <2>1, <2>3, <2>4, <2>5, <3>1
    <3>2. CASE k # current
      <4>1. k \in In(Entered, "waiting") /\ U.task[k] = Entered.task[k]
        BY <2>3, <3>2 DEF In
      <4>2. PICK j \in Used(Entered) : /\ Entered.task[j].pid = Entered.task[k].waitPid
                                       /\ Entered.task[j].parent = Entered.task[k].pid
                                       /\ ~Entered.task[j].collected /\ ~Done(Entered, j)
        BY <1>3, <4>1 DEF Ordered, Waited
      <4>3. j \in Slot
        BY <4>2 DEF Used
      <4> QED BY <2>4, <2>5, <4>1, <4>2, <4>3
    <3> QED BY <3>1, <3>2
  <2>8. U \in Tables /\ Ordered(U)
    BY <2>3, <2>4, <2>6, <2>7 DEF Ordered, Restates
  <2> QED BY <1>2, <1>5, <2>2, <2>8, StepOrdered
<1> QED BY <1>4, <1>5

LEMMA StopOrdered ==
    ASSUME SoundInv, OrderedInv, NoThreadStops, Stop
    PROVE  OrderedInv'
<1>1. at = "user" /\ ~Me.linux
  BY DEF Stop, NativeCall, NoThreadStops
<1>2. PICK i \in Used(Entered) \ {current} :
         /\ ~Done(Entered, i)
         /\ Entered.task[i].pid # 1
         /\ Becomes(Ended(Entered, Company(Entered, i), current))
  BY DEF Stop
<1> DEFINE S == Company(Entered, i)
           U == Ended(Entered, S, current)
<1>3. /\ S \subseteq Live(Entered) /\ 0 \notin S
      /\ \A j \in S : Entered.task[j].pid = manager => S = {j}
  BY <1>1, <1>2, StoppedAlive
<1>4. Sound(Entered, manager) /\ Ordered(Entered) /\ current \in Slot
  BY <1>1, CallerSound, EnteredOrdered
<1> HIDE DEF S
<1>5. Ordered(U) /\ U \in Tables
  BY <1>3, <1>4, EndedOrdered, EndedSound DEF Sound
<1> QED BY <1>2, <1>5, StepOrdered DEF S

LEMMA LogoutOrdered ==
    ASSUME SoundInv, OrderedInv, Logout
    PROVE  OrderedInv'
<1> DEFINE U == SessionEnded(Entered, manager, current)
<1>1. at = "user" /\ Becomes(U)
  BY DEF Logout
<1>2. Ordered(U) /\ U \in Tables
  BY <1>1, CallerSound, EnteredOrdered, SessionEndedSound, SessionEndedOrdered DEF Sound
<1> QED BY <1>1, <1>2, StepOrdered

LEMMA SleepOrdered ==
    ASSUME SoundInv, OrderedInv, Sleep
    PROVE  OrderedInv'
<1> DEFINE e == [Me EXCEPT !.state = "sleeping"]
           U == WithEntry(Entered, current, e)
<1>1. at = "user" /\ Becomes([Entered EXCEPT !.task[current].state = "sleeping"])
  BY DEF Sleep
<1>2. /\ e \in Entry /\ e.state = "sleeping" /\ e.pid = Me.pid
      /\ e.parent = Me.parent /\ e.linux = Me.linux
      /\ e.group = Me.group /\ e.held = Me.held /\ e.collected = Me.collected
  BY <1>1, CallerSound DEF Entry, State
<1>3. U = [Entered EXCEPT !.task[current].state = "sleeping"]
  BY <1>1, CallerSound DEF Sound, Tables, WithEntry
<1> HIDE DEF e
<1>4. /\ Restates(Entered, U)
      /\ \A k \in Slot : U.task[k] = IF k = current THEN e ELSE Entered.task[k]
  BY <1>1, <1>2, RestateOne, CallerSound
<1> HIDE DEF U
<1>5. Relaxes(Entered, U)
  BY <1>1, <1>2, <1>4, CallerSound DEF Relaxes
<1>6. U \in Tables /\ Ordered(U)
  BY <1>1, <1>5, CallerSound, EnteredOrdered, RelaxedOrdered DEF Relaxes, Restates
<1> QED BY <1>1, <1>3, <1>6, StepOrdered

\* Sleepers that wake, whoever wakes them.
LEMMA WokenOrdered ==
    ASSUME NEW T, NEW m, Sound(T, m), Ordered(T), NEW S \in SUBSET In(T, "sleeping"),
           NEW f, f = [i \in Slot |-> IF i \in S THEN [T.task[i] EXCEPT !.state = "ready"]
                                      ELSE T.task[i]]
    PROVE  /\ [task |-> f, group |-> T.group] \in Tables
           /\ Ordered([task |-> f, group |-> T.group])
<1> DEFINE U == [task |-> f, group |-> T.group]
<1>1. S \in SUBSET Slot /\ \A i \in S : T.task[i].state = "sleeping"
  BY DEF In
<1>2. /\ Restates(T, U)
      /\ \A i \in Slot : i \notin S => f[i] = T.task[i]
      /\ \A i \in S : f[i].state = "ready" /\ f[i].collected = T.task[i].collected
  BY <1>1, RestateSome
<1>3. U.task = f
  OBVIOUS
<1> HIDE DEF U
<1>4. Relaxes(T, U)
  BY <1>1, <1>2, <1>3 DEF Relaxes
<1> QED BY <1>4, RelaxedOrdered, ZenonT(40) DEF Relaxes, Restates, U

LEMMA WakeOrdered ==
    ASSUME SoundInv, OrderedInv, Wake
    PROVE  OrderedInv'
<1>1. at = "user"
  BY DEF Wake, LinuxCall
<1>2. PICK S \in SUBSET In(Entered, "sleeping") :
         Becomes([Entered EXCEPT !.task =
             [i \in Slot |-> IF i \in S THEN [@[i] EXCEPT !.state = "ready"] ELSE @[i]]])
  BY DEF Wake
<1> DEFINE f == [i \in Slot |-> IF i \in S THEN [Entered.task[i] EXCEPT !.state = "ready"]
                                ELSE Entered.task[i]]
           U == [task |-> f, group |-> Entered.group]
<1>3. Sound(Entered, manager) /\ Ordered(Entered)
  BY <1>1, CallerSound, EnteredOrdered
<1>4. [Entered EXCEPT !.task =
             [i \in Slot |-> IF i \in S THEN [@[i] EXCEPT !.state = "ready"] ELSE @[i]]] = U
  BY <1>3 DEF Sound, Tables
<1>5. U \in Tables /\ Ordered(U)
  BY <1>3, WokenOrdered
<1> QED BY <1>2, <1>4, <1>5, StepOrdered

LEMMA TickOrdered ==
    ASSUME SoundInv, OrderedInv, Tick
    PROVE  OrderedInv'
<1>1. group' = group
  BY DEF Tick
<1>2. PICK S \in SUBSET In(Table, "sleeping") :
         task' = [i \in Slot |-> IF i \in S THEN [task[i] EXCEPT !.state = "ready"] ELSE task[i]]
  BY DEF Tick
<1>3. Sound(Table, manager) /\ Ordered(Table) /\ Table.task = task /\ Table.group = group
  BY TableType DEF SoundInv, OrderedInv
<1> DEFINE U == [task |-> task', group |-> group]
<1>4. U \in Tables /\ Ordered(U)
  BY <1>2, <1>3, WokenOrdered
<1>5. Becomes(U)
  BY <1>1 DEF Becomes
<1> QED BY <1>4, <1>5, StepOrdered

LEMMA DispatchDoomedOrdered ==
    ASSUME SoundInv, OrderedInv, DispatchDoomed
    PROVE  OrderedInv'
<1> DEFINE S == Company(Table, NextReady)
           U == Finished(Table, S)
<1>1. In(Table, "ready") # {} /\ task[NextReady].linux /\ Becomes(U)
  BY DEF DispatchDoomed
<1>2. current \in Slot /\ Sound(Table, manager) /\ Table.task = task /\ Ordered(Table)
  BY TableType DEF SoundInv, TypeOK, OrderedInv
<1>3. NextReady \in Slot /\ NextReady \in Live(Table)
  BY <1>1, <1>2, NextReadyIsReady DEF Live
<1>4. NextReady # 0
  BY <1>1, <1>2 DEF Sound, Identified
<1>5. S \subseteq Live(Table)
  BY <1>2, <1>3, <1>4, CompanyAlive
<1> HIDE DEF S
<1>6. U \in Tables /\ Ordered(U)
  BY <1>2, <1>5, FinishedOrdered, FinishedIs DEF EndsTo, Sound, Live
<1> QED BY <1>1, <1>6, StepOrdered

LEMMA InitOrdered == Init => OrderedInv
<1> SUFFICES ASSUME Init PROVE OrderedInv
  OBVIOUS
<1> DEFINE first == [Free EXCEPT !.state = "ready", !.pid = 1, !.held = TRUE]
<1>1. /\ first.state = "ready" /\ first.group = 0 /\ first.parent = 0
  BY FreeType DEF Free
<1>2. task = [i \in Slot |-> IF i # 0 THEN Free ELSE first] /\ group = [g \in Pid |-> NoGroup]
      /\ Table \in Tables /\ Table.task = task /\ Table.group = group
  BY InitSound, TableType DEF Init, SoundInv
<1> HIDE DEF first
<1>3. \A i \in Slot : /\ Table.task[i].group = 0 /\ Table.task[i].parent = 0
                      /\ Table.task[i].state # "waiting"
  BY <1>1, <1>2, FreeType
<1>4. \A g : Members(Table, g) = {}
  BY <1>3 DEF Members, Used
<1>5. Cardinality({}) = 0
  BY FS_EmptySet
<1>6. \A g \in Pid : Table.group[g].alive = 0 /\ Table.group[g].references = 0
  BY <1>2 DEF NoGroup
<1>7. Counted(Table)
  BY <1>4, <1>5, <1>6, SMTT(30) DEF Counted
<1> QED BY <1>3, <1>7 DEF OrderedInv, Ordered, ThreadsCollected, Waited, Parented, In, Used

LEMMA NextOrdered ==
    ASSUME NoThreadStops, SoundInv, OrderedInv, [Next]_vars
    PROVE  OrderedInv'
<1>1. CASE UNCHANGED vars
  BY <1>1 DEF vars, OrderedInv, Table
<1>2. CASE \E foreign \in BOOLEAN : Spawn(foreign) \/ Exec(foreign)
  BY <1>2, SpawnOrdered, ExecOrdered
<1>3. CASE Clone \/ Exit \/ ExitGroup
  BY <1>3, CloneOrdered, ExitOrdered, ExitGroupOrdered
<1>4. CASE Wait \/ Stop \/ Logout
  BY <1>4, WaitOrdered, StopOrdered, LogoutOrdered
<1>5. CASE Sleep \/ Wake \/ Tick
  BY <1>5, SleepOrdered, WakeOrdered, TickOrdered
<1>6. CASE Claim \/ Preempt
  BY <1>6, EnteredOrdered, StepOrdered DEF Claim, Preempt
<1>7. CASE Dispatch
  BY <1>7 DEF Dispatch, OrderedInv, Table
<1>8. CASE DispatchDoomed
  BY <1>8, DispatchDoomedOrdered
<1> QED BY <1>1, <1>2, <1>3, <1>4, <1>5, <1>6, <1>7, <1>8 DEF Next

LEMMA AlwaysOrdered == NoThreadStops => (Spec => [](SoundInv /\ OrderedInv))
<1> SUFFICES ASSUME NoThreadStops PROVE Spec => [](SoundInv /\ OrderedInv)
  OBVIOUS
<1>1. SoundInv /\ OrderedInv /\ [Next]_vars => (SoundInv /\ OrderedInv)'
  BY NextSound, NextOrdered
<1> QED BY InitSound, InitOrdered, <1>1, PTL DEF Spec

\* compat_finish and linux_space_release never meet a count that is out of step
\* with the table, and a leader keeps its slot as long as a thread of its lives:
\* for any number of groups, threads, clones, exits and reapings.
THEOREM GroupsAlwaysCounted == NoThreadStops => (Spec => []GroupsCounted)
<1>1. SoundInv /\ OrderedInv => GroupsCounted
  BY TableType DEF SoundInv, OrderedInv, Ordered, Counted, GroupsCounted
<1> QED BY <1>1, AlwaysOrdered, PTL

\* Whoever waits for a child waits for one whose end is still to come and will
\* wake it: task_wait looks and sleeps in one call, the end of the last thread
\* of a group tells its leader's parent, and reaping takes no such child away.
THEOREM WaitersAlwaysWake == NoThreadStops => (Spec => []WaitersWillWake)
<1>1. SoundInv /\ OrderedInv => WaitersWillWake
  BY TableType DEF SoundInv, OrderedInv, Ordered, Waited, WaitersWillWake
<1> QED BY <1>1, AlwaysOrdered, PTL

\* No process outlives its parent with the parent's pid still in the table,
\* where a later process would inherit it; the run task_orphan shows why the
\* threads of a group may not spawn for this.
THEOREM ParentsAlwaysUndead ==
    NoThreadStops /\ NoThreadSpawns => (Spec => []ParentsUndead)
<1> SUFFICES ASSUME NoThreadStops, NoThreadSpawns PROVE Spec => []ParentsUndead
  OBVIOUS
<1>1. SoundInv /\ OrderedInv => ParentsUndead
  BY TableType
     DEF SoundInv, OrderedInv, Ordered, Parented, ParentsUndead, Undead, Used
<1> QED BY <1>1, AlwaysOrdered, PTL

-----------------------------------------------------------------------------
(* What becomes of an exit status that nobody has claimed *)

\* The process with pid p is in the table and has not ended (Undead of a table).
UndeadIn(T, p) == \E j \in Used(T) : T.task[j].pid = p /\ ~Done(T, j)

\* The zombie of slot i waits for its parent p to claim it.
Unclaimed(T, i, p) ==
    T.task[i].state = "zombie" /\ ~T.task[i].collected /\ T.task[i].parent = p

\* Between T and U the parent p, waiting for slot i, was woken and has its status.
Claimed(T, U, i, p) ==
    \E j \in Slot : /\ T.task[j].pid = p /\ T.task[j].state = "waiting"
                    /\ T.task[j].waitPid = T.task[i].pid /\ U.task[j].state # "waiting"

\* From T to U nobody begins to wait, nobody comes back, and an unclaimed status
\* stays unless its parent ends or gets it.
Carries(T, U) ==
    /\ \A j \in Slot : U.task[j].state = "waiting" =>
          /\ T.task[j].state = "waiting" /\ T.task[j].waitPid = U.task[j].waitPid
          /\ T.task[j].pid = U.task[j].pid
    /\ \A p \in Pid : UndeadIn(U, p) => UndeadIn(T, p)
    /\ \A i \in Slot, p \in Pid : Unclaimed(T, i, p) =>
          \/ Unclaimed(U, i, p) /\ U.task[i].pid = T.task[i].pid
          \/ ~UndeadIn(U, p)
          \/ Claimed(T, U, i, p)

LEMMA CarriesOn ==
    ASSUME NEW T, NEW U, NEW V, Carries(T, U), Carries(U, V)
    PROVE  Carries(T, V)
<1>1. \A j \in Slot : V.task[j].state = "waiting" =>
          /\ T.task[j].state = "waiting" /\ T.task[j].waitPid = V.task[j].waitPid
          /\ T.task[j].pid = V.task[j].pid
  BY DEF Carries
<1>2. \A p \in Pid : UndeadIn(V, p) => UndeadIn(T, p)
  BY DEF Carries
<1>3. ASSUME NEW i \in Slot, NEW p \in Pid, Unclaimed(T, i, p)
      PROVE  \/ Unclaimed(V, i, p) /\ V.task[i].pid = T.task[i].pid
             \/ ~UndeadIn(V, p)
             \/ Claimed(T, V, i, p)
  <2>1. CASE ~UndeadIn(U, p)
    BY <2>1 DEF Carries
  <2>2. CASE Claimed(T, U, i, p)
    BY <2>2 DEF Carries, Claimed
  <2>3. CASE Unclaimed(U, i, p) /\ U.task[i].pid = T.task[i].pid
    <3>1. CASE Claimed(U, V, i, p)
      BY <2>3, <3>1 DEF Carries, Claimed
    <3>2. CASE ~Claimed(U, V, i, p)
      BY <2>3, <3>2 DEF Carries
    <3> QED BY <3>1, <3>2
  <2> QED BY <1>3, <2>1, <2>2, <2>3 DEF Carries
<1> QED BY <1>1, <1>2, <1>3 DEF Carries

LEMMA ReapedCarries ==
    ASSUME NEW T, NEW m, Sound(T, m), NEW c \in Slot
    PROVE  /\ Carries(T, Reaped(T, c))
           /\ \A i \in Slot, p \in Pid : Unclaimed(T, i, p) =>
                 /\ Unclaimed(Reaped(T, c), i, p)
                 /\ Reaped(T, c).task[i].pid = T.task[i].pid
<1> DEFINE R == Reaped(T, c)
<1>1. ReapsTo(T, c, R)
  BY ReapedIs DEF Sound
<1> HIDE DEF R
<1>2. \A i \in Slot : T.task[i] \in Entry /\ (i \in Reapable(T, c) => T.task[i].state = "zombie")
  BY DEF Sound, Tables, Reapable, In
<1>3. ASSUME NEW i \in Slot
      PROVE  \/ R.task[i] = T.task[i]
             \/ /\ T.task[i].state = "zombie" /\ R.task[i].state = "free"
                /\ Forgettable(T.task[i])
             \/ /\ T.task[i].state = "zombie" /\ R.task[i].state = "zombie"
                /\ R.task[i].pid = T.task[i].pid /\ R.task[i].parent = T.task[i].parent
                /\ R.task[i].collected = T.task[i].collected /\ R.task[i].group = 0
                /\ ~GroupAlive(T, i) \/ T.task[i].pid # T.task[i].group
  <2>1. CASE i \notin Reapable(T, c)
    BY <1>1, <2>1 DEF ReapsTo
  <2>2. CASE i \in Reapable(T, c) /\ Forgettable(T.task[i])
    BY <1>1, <1>2, <2>2, FreeType DEF ReapsTo
  <2>3. CASE i \in Reapable(T, c) /\ ~Forgettable(T.task[i])
    <3>1. R.task[i] = [T.task[i] EXCEPT !.group = 0, !.held = FALSE] /\ T.task[i] \in Entry
      BY <1>1, <1>2, <2>3 DEF ReapsTo
    <3>2. ~ReapBlocked(T, i)
      BY <2>3 DEF Reapable
    <3> QED BY <1>2, <2>3, <3>1, <3>2 DEF Entry, ReapBlocked
  <2> QED BY <2>1, <2>2, <2>3
<1>4. \A i \in Slot, p \in Pid : Unclaimed(T, i, p) =>
                 Unclaimed(R, i, p) /\ R.task[i].pid = T.task[i].pid
  BY <1>3, PidsFinite DEF Unclaimed, Forgettable
<1>5. \A p \in Pid : UndeadIn(R, p) => UndeadIn(T, p)
  <2> SUFFICES ASSUME NEW p \in Pid, NEW j \in Used(R), R.task[j].pid = p, ~Done(R, j)
               PROVE  UndeadIn(T, p)
    BY DEF UndeadIn
  <2>1. j \in Slot /\ R.task[j].state # "free" /\ T.task[j] \in Entry
    BY <1>2 DEF Used
  <2>2. R.task[j] = T.task[j]
    BY <1>3, <2>1 DEF Done, GroupAlive
  <2>3. \A g \in Pid : R.group[g].alive = T.group[g].alive
    BY <1>1 DEF ReapsTo
  <2>4. ~Done(T, j)
    BY <2>1, <2>2, <2>3 DEF Done, GroupAlive, Entry
  <2> QED BY <2>1, <2>2, <2>4 DEF UndeadIn, Used
<1>6. \A j \in Slot : R.task[j].state = "waiting" => R.task[j] = T.task[j]
  BY <1>3
<1> QED BY <1>4, <1>5, <1>6 DEF Carries, R

LEMMA FinishedCarries ==
    ASSUME NEW T, NEW m, Sound(T, m), Counted(T), NEW S, S \subseteq Live(T)
    PROVE  Carries(T, Finished(T, S))
<1> DEFINE F == Finished(T, S)
<1>1. EndsTo(T, S, F)
  BY FinishedIs DEF Sound, Live
<1>2. \A j \in Told(T, S) : j \in Used(T) /\ Done(F, j)
  BY ToldIs
<1> HIDE DEF F
<1>3. \A j \in Slot : /\ F.task[j].pid = T.task[j].pid /\ F.task[j].waitPid = T.task[j].waitPid
                      /\ F.task[j].group = T.task[j].group
                      /\ F.task[j].state = "waiting" => T.task[j].state = "waiting"
                      /\ T.task[j].state = "zombie" => F.task[j].state = "zombie"
                      /\ F.task[j].state = "free" <=> T.task[j].state = "free"
                      /\ \A i \in Told(T, S) : Awaits(T, S, j, i) => F.task[j].state # "waiting"
  BY <1>1 DEF EndsTo, Awaits, Live
<1>4. Used(F) = Used(T)
  BY <1>3 DEF Used
<1>5. \A p \in Pid : UndeadIn(F, p) => UndeadIn(T, p)
  <2> SUFFICES ASSUME NEW p \in Pid, NEW j \in Used(F), F.task[j].pid = p, ~Done(F, j)
               PROVE  UndeadIn(T, p)
    BY DEF UndeadIn
  <2>1. j \in Slot /\ j \in Used(T) /\ T.task[j].pid = p /\ T.task[j] \in Entry
    BY <1>3, <1>4 DEF Used, Sound, Tables
  <2>2. ASSUME Done(T, j) PROVE FALSE
    <3>1. F.task[j].state = "zombie" /\ F.task[j].group = T.task[j].group
      BY <1>3, <2>1, <2>2 DEF Done
    <3> DEFINE g == T.task[j].group
    <3>2. g \in Pid /\ F.group[g].alive > 0 /\ ~(T.group[g].alive > 0)
      BY <2>1, <2>2, <3>1 DEF Done, GroupAlive, Entry
    <3>3. F.group[g].alive = T.group[g].alive - Cardinality(S \cap Members(T, g))
      BY <1>1, <3>2 DEF EndsTo
    <3>4. S \cap Members(T, g) \in SUBSET Slot
      BY GroupsFinite
    <3>5. Cardinality(S \cap Members(T, g)) \in Nat
      BY <3>4, SlotsFinite
    <3>6. T.group[g].alive \in Nat
      BY <3>2, AliveCounted
    <3> HIDE DEF g
    <3> QED BY <3>2, <3>3, <3>5, <3>6
  <2> QED BY <2>1, <2>2 DEF UndeadIn
<1>6. ASSUME NEW i \in Slot, NEW p \in Pid, Unclaimed(T, i, p)
      PROVE  \/ Unclaimed(F, i, p) /\ F.task[i].pid = T.task[i].pid
             \/ ~UndeadIn(F, p)
             \/ Claimed(T, F, i, p)
  <2>1. CASE p \in {T.task[k].pid : k \in Told(T, S)}
    <3>1. PICK k \in Told(T, S) : T.task[k].pid = p
      BY <2>1
    <3>2. \A j \in Used(F) : F.task[j].pid = p => j = k
      BY <1>2, <1>3, <1>4, <3>1 DEF Sound, Identified, Used
    <3>3. ~UndeadIn(F, p)
      BY <1>2, <3>1, <3>2 DEF UndeadIn
    <3> QED BY <3>3
  <2>2. CASE i \in Told(T, S) /\ \E j \in Slot : Awaits(T, S, j, i)
    BY <1>3, <1>6, <2>2 DEF Claimed, Awaits, Unclaimed
  <2>3. CASE /\ p \notin {T.task[k].pid : k \in Told(T, S)}
             /\ ~(i \in Told(T, S) /\ \E j \in Slot : Awaits(T, S, j, i))
    <3>1. F.task[i].parent = p /\ F.task[i].collected = T.task[i].collected
      BY <1>1, <1>6, <2>3, ZenonT(40) DEF EndsTo, Unclaimed, Sound, Tables, Entry
    <3> QED BY <1>3, <1>6, <3>1 DEF Unclaimed
  <2> QED BY <2>1, <2>2, <2>3
<1> QED BY <1>3, <1>5, <1>6 DEF Carries, F

LEMMA RelaxedCarries ==
    ASSUME NEW T, NEW m, Sound(T, m), NEW U, Relaxes(T, U),
           \A i \in Slot : U.task[i].collected = T.task[i].collected
    PROVE  Carries(T, U)
<1>1. Used(U) = Used(T) /\ \A j \in Used(T) : Done(U, j) <=> Done(T, j)
  BY RestatedDone DEF Relaxes
<1>2. \A i \in Slot : /\ U.task[i].pid = T.task[i].pid /\ U.task[i].parent = T.task[i].parent
                      /\ T.task[i].state = "zombie" => U.task[i].state = "zombie"
                      /\ U.task[i].state = "waiting" => /\ T.task[i].state = "waiting"
                                                        /\ U.task[i].waitPid = T.task[i].waitPid
  BY DEF Relaxes, Restates
<1>3. \A p \in Pid : UndeadIn(U, p) => UndeadIn(T, p)
  BY <1>1, <1>2 DEF UndeadIn, Used
<1> QED BY <1>2, <1>3 DEF Carries, Unclaimed

LEMMA SessionEndedCarries ==
    ASSUME NEW T, NEW m, Sound(T, m), Ordered(T), NEW c \in Slot
    PROVE  Carries(T, SessionEnded(T, m, c))
<1> DEFINE S == {i \in Live(T) : T.task[i].pid \notin {1, m}}
           F == Finished(T, S)
<1>1. S \subseteq Live(T) /\ 0 \notin S /\ \A i \in S : T.task[i].pid # m
  BY DEF Sound, Identified
<1>2. SessionEnded(T, m, c) = Reaped(F, c)
  BY DEF SessionEnded
<1> HIDE DEF S
<1>3. Sound(F, m) /\ Carries(T, F)
  BY <1>1, FinishedSound, FinishedCarries DEF Ordered
<1> HIDE DEF F
<1>4. Carries(F, Reaped(F, c))
  BY <1>3, ReapedCarries
<1> QED BY <1>2, <1>3, <1>4, CarriesOn

LEMMA EndedCarries ==
    ASSUME NEW T, Sound(T, manager), Ordered(T), NEW c \in Slot,
           NEW S, S \subseteq Live(T), 0 \notin S,
           \A i \in S : T.task[i].pid = manager => S = {i}
    PROVE  Carries(T, Ended(T, S, c))
<1>1. CASE \E i \in S : T.task[i].pid = manager
  <2> DEFINE U == SessionEnded(T, manager, c)
  <2>1. PICK k \in S : T.task[k].pid = manager /\ S = {k}
    BY <1>1
  <2>2. Ended(T, S, c) = Finished(U, S)
    BY <1>1 DEF Ended
  <2>3. Sound(U, manager) /\ Ordered(U) /\ k \in Live(U) /\ Carries(T, U)
    BY <2>1, SessionEndedSound, SessionEndedOrdered, SessionEndedCarries
  <2> HIDE DEF U
  <2>4. S \subseteq Live(U)
    BY <2>1, <2>3
  <2>5. Carries(U, Finished(U, S))
    BY <2>3, <2>4, FinishedCarries DEF Ordered
  <2> QED BY <2>2, <2>3, <2>5, CarriesOn
<1>2. CASE ~\E i \in S : T.task[i].pid = manager
  BY <1>2, FinishedCarries DEF Ended, Ordered
<1> QED BY <1>1, <1>2

\* The step of UnclaimedKept.
KeepsUnclaimed ==
    \A i \in Slot, p \in Pid :
          /\ task[i].state = "zombie" /\ ~task[i].collected /\ task[i].parent = p
          /\ Undead(p) /\ Undead(p)'
          => \/ task'[i].pid = task[i].pid
             \/ \E j \in Slot :
                  /\ task[j].pid = p /\ task[j].state = "waiting"
                  /\ task[j].waitPid = task[i].pid /\ task'[j].state # "waiting"

LEMMA StepKeeps ==
    ASSUME SoundInv, NEW T, T \in Tables, Becomes(T),
           \A i \in Slot, p \in Pid : Unclaimed(Table, i, p) =>
              \/ T.task[i].pid = task[i].pid
              \/ ~UndeadIn(T, p)
              \/ Claimed(Table, T, i, p)
    PROVE  KeepsUnclaimed
<1>1. Table.task = task /\ Table' = T /\ task' = T.task
  BY TableType, BecomesIs DEF SoundInv
<1>2. \A p : Undead(p)' => UndeadIn(T, p)
  BY <1>1 DEF Undead, UndeadIn, Used
<1> QED BY <1>1, <1>2 DEF KeepsUnclaimed, Unclaimed, Claimed

\* A call that changes no zombie's pid but by reaping.
LEMMA CallKeeps ==
    ASSUME SoundInv, NEW T, T \in Tables, Becomes(T),
           \A i \in Slot : Entered.task[i].state = "zombie" => T.task[i].pid = Entered.task[i].pid
    PROVE  KeepsUnclaimed
<1>1. Sound(Table, manager) /\ current \in Slot /\ Table.task = task
  BY TableType DEF SoundInv, TypeOK
<1>2. \A i \in Slot, p \in Pid : Unclaimed(Table, i, p) =>
         Entered.task[i].pid = task[i].pid /\ Entered.task[i].state = "zombie"
  BY <1>1, ReapedCarries DEF Entered, Unclaimed
<1> QED BY <1>2, StepKeeps

\* A call that ends processes after reaping.
LEMMA EndKeeps ==
    ASSUME SoundInv, NEW T, T \in Tables, Becomes(T), Carries(Entered, T)
    PROVE  KeepsUnclaimed
<1>1. Sound(Table, manager) /\ current \in Slot /\ Table.task = task
  BY TableType DEF SoundInv, TypeOK
<1>2. Carries(Table, T)
  BY <1>1, ReapedCarries, CarriesOn DEF Entered
<1> QED BY <1>1, <1>2, StepKeeps DEF Carries

LEMMA SpawnKeeps ==
    ASSUME SoundInv, NEW foreign \in BOOLEAN, Spawn(foreign)
    PROVE  KeepsUnclaimed
<1> DEFINE fresh == FreshPid(Entered)
           e == Newborn(fresh, Me.pid, foreign)
           I == Installed(Entered, e)
<1>1. at = "user" /\ In(Entered, "free") # {} /\ Becomes(I)
  BY DEF Spawn, NativeCall, Newborn
<1>2. Me.pid \in Pid /\ fresh \in Pid /\ Entered \in Tables
  BY <1>1, CallerSound, FreshPidIsFresh DEF Sound
<1>3. e \in Entry
  <2> HIDE DEF fresh
  <2> QED BY <1>2, FreeType DEF Newborn, Entry, State, Free
<1> HIDE DEF e
<1>4. /\ I \in Tables
      /\ \A i \in Slot : Entered.task[i].state = "zombie" => I.task[i] = Entered.task[i]
  BY <1>1, <1>2, <1>3, InstalledIs
<1> QED BY <1>1, <1>4, CallKeeps

LEMMA ExecKeeps ==
    ASSUME SoundInv, NEW foreign \in BOOLEAN, Exec(foreign)
    PROVE  KeepsUnclaimed
<1> DEFINE f == [Entered.task EXCEPT ![current].linux = foreign, ![current].group = 0]
           n == IF Me.group = 0 THEN Entered.group
                ELSE [Entered.group EXCEPT ![Me.group] = NoGroup]
           T == [task |-> f, group |-> n]
<1>1. at = "user" /\ Becomes(T)
  BY DEF Exec, NativeCall, LinuxCall
<1>2. /\ current \in Slot /\ Entered \in Tables /\ Me \in Entry
  BY <1>1, CallerSound DEF Sound
<1>3. f \in [Slot -> Entry] /\ \A i \in Slot : f[i].pid = Entered.task[i].pid
  BY <1>2, SMTT(30) DEF Tables, Entry
<1>4. n \in [Pid -> Count]
  BY <1>2 DEF Tables, Entry, NoGroup, Count
<1> HIDE DEF f, n
<1>5. T \in Tables /\ T.task = f
  BY <1>3, <1>4, MakeTable
<1> HIDE DEF T
<1> QED BY <1>1, <1>3, <1>5, CallKeeps

LEMMA CloneKeeps ==
    ASSUME SoundInv, Clone
    PROVE  KeepsUnclaimed
<1> DEFINE I == Installed(Joined, Thread)
<1>1. LinuxCall /\ at = "user" /\ In(Entered, "free") # {} /\ Becomes(I)
  BY CloneIs DEF LinuxCall
<1>2. /\ Joined \in Tables /\ Leader \in Pid /\ Me \in Entry /\ nextPid \in Pid
      /\ \A i \in Slot : /\ Joined.task[i].pid = Entered.task[i].pid
                         /\ Joined.task[i].state = Entered.task[i].state
  BY <1>1, CallerSound, JoinedSound DEF Sound
<1>3. Thread \in Entry
  BY <1>1, <1>2, CallerSound, FreshPidIsFresh, ThreadType DEF Thread, Sound
<1>4. In(Joined, "free") # {}
  BY <1>1, <1>2 DEF In
<1>5. /\ I \in Tables
      /\ \A i \in Slot : Joined.task[i].state = "zombie" => I.task[i] = Joined.task[i]
  BY <1>2, <1>3, <1>4, InstalledIs
<1> HIDE DEF I
<1> QED BY <1>1, <1>2, <1>5, CallKeeps

LEMMA ExitKeeps ==
    ASSUME SoundInv, OrderedInv, Exit
    PROVE  KeepsUnclaimed
<1> DEFINE T == Ended(Entered, {current}, current)
           joiners == IF Me.group = 0 THEN {} ELSE In(T, "sleeping") \cap Members(T, Me.group)
           J(j) == IF j = current THEN T ELSE [T EXCEPT !.task[j].state = "ready"]
           boss == Unmanaged(Entered, {current})
<1>1. /\ at = "user" /\ Me.pid # 1
      /\ \E j \in joiners \cup {current} : Becomes(Reaped(J(j), current))
  BY DEF Exit
<1>2. PICK j \in joiners \cup {current} : Becomes(Reaped(J(j), current))
  BY <1>1
<1>3. /\ current \in Slot /\ current # 0 /\ Entered.task[current] = Me
      /\ current \in Live(Entered) /\ Sound(Entered, manager) /\ Ordered(Entered)
  BY <1>1, CallerSound, EnteredOrdered DEF Sound, Identified
<1>4. Sound(T, boss) /\ Ordered(T) /\ Carries(Entered, T)
  BY <1>3, EndedSound, EndedOrdered, EndedCarries
<1> HIDE DEF boss
<1>5. Sound(J(j), boss) /\ Carries(Entered, J(j))
  <2>1. CASE j = current
    BY <1>4, <2>1
  <2>2. CASE j # current
    <3> HIDE DEF T
    <3>1. j \in Slot /\ T.task[j].state = "sleeping" /\ T \in Tables /\ T.task[j] \in Entry
      BY <1>4, <2>2 DEF In, Sound, Tables
    <3> DEFINE e == [T.task[j] EXCEPT !.state = "ready"]
    <3>2. /\ e \in Entry /\ e.state = "ready" /\ e.pid = T.task[j].pid
          /\ e.parent = T.task[j].parent /\ e.linux = T.task[j].linux
          /\ e.group = T.task[j].group /\ e.held = T.task[j].held
          /\ e.collected = T.task[j].collected
      BY <3>1 DEF Entry, State
    <3>3. J(j) = WithEntry(T, j, e)
      BY <2>2, <3>1 DEF Tables, WithEntry
    <3> HIDE DEF e, J, boss
    <3>4. /\ Restates(T, WithEntry(T, j, e))
          /\ \A i \in Slot : WithEntry(T, j, e).task[i] = IF i = j THEN e ELSE T.task[i]
      BY <1>4, <3>1, <3>2, RestateOne
    <3>5. /\ Relaxes(T, WithEntry(T, j, e))
          /\ \A i \in Slot : WithEntry(T, j, e).task[i].collected = T.task[i].collected
      BY <3>2, <3>4 DEF Relaxes
    <3>6. Carries(T, J(j))
      BY <1>4, <3>3, <3>5, RelaxedCarries
    <3> QED BY <1>4, <3>3, <3>4, <3>6, RestatedSound, CarriesOn
  <2> QED BY <2>1, <2>2
<1> HIDE DEF J, T
<1>6. Carries(Entered, Reaped(J(j), current)) /\ Reaped(J(j), current) \in Tables
  BY <1>3, <1>5, ReapedCarries, ReapedSound, CarriesOn DEF Sound
<1> QED BY <1>2, <1>6, EndKeeps

LEMMA ExitGroupKeeps ==
    ASSUME SoundInv, OrderedInv, ExitGroup
    PROVE  KeepsUnclaimed
<1> DEFINE S == Company(Entered, current)
           T == Ended(Entered, S, current)
<1>1. at = "user" /\ Me.pid # 1 /\ Becomes(Reaped(T, current))
  BY DEF ExitGroup
<1>2. /\ current \in Slot /\ current # 0 /\ Entered.task[current] = Me
      /\ current \in Live(Entered) /\ Sound(Entered, manager) /\ Ordered(Entered)
  BY <1>1, CallerSound, EnteredOrdered DEF Sound, Identified
<1>3. /\ S \subseteq Live(Entered) /\ 0 \notin S
      /\ \A i \in S : Entered.task[i].pid = manager => S = {i}
  BY <1>2, CompanyAlive
<1> HIDE DEF S
<1>4. Sound(T, Unmanaged(Entered, S)) /\ Carries(Entered, T)
  BY <1>2, <1>3, EndedSound, EndedCarries
<1> HIDE DEF T
<1>5. Carries(Entered, Reaped(T, current)) /\ Reaped(T, current) \in Tables
  BY <1>2, <1>4, ReapedCarries, ReapedSound, CarriesOn DEF Sound
<1> QED BY <1>1, <1>5, EndKeeps

LEMMA StopKeeps ==
    ASSUME SoundInv, OrderedInv, NoThreadStops, Stop
    PROVE  KeepsUnclaimed
<1>1. at = "user" /\ ~Me.linux
  BY DEF Stop, NativeCall, NoThreadStops
<1>2. PICK i \in Used(Entered) \ {current} :
         /\ ~Done(Entered, i)
         /\ Entered.task[i].pid # 1
         /\ Becomes(Ended(Entered, Company(Entered, i), current))
  BY DEF Stop
<1> DEFINE S == Company(Entered, i)
           U == Ended(Entered, S, current)
<1>3. /\ S \subseteq Live(Entered) /\ 0 \notin S
      /\ \A j \in S : Entered.task[j].pid = manager => S = {j}
  BY <1>1, <1>2, StoppedAlive
<1>4. Sound(Entered, manager) /\ Ordered(Entered) /\ current \in Slot
  BY <1>1, CallerSound, EnteredOrdered
<1> HIDE DEF S
<1>5. Carries(Entered, U) /\ U \in Tables
  BY <1>3, <1>4, EndedCarries, EndedSound DEF Sound
<1> QED BY <1>2, <1>5, EndKeeps DEF S

LEMMA LogoutKeeps ==
    ASSUME SoundInv, OrderedInv, Logout
    PROVE  KeepsUnclaimed
<1> DEFINE U == SessionEnded(Entered, manager, current)
<1>1. at = "user" /\ Becomes(U)
  BY DEF Logout
<1>2. Carries(Entered, U) /\ U \in Tables
  BY <1>1, CallerSound, EnteredOrdered, SessionEndedSound, SessionEndedCarries DEF Sound
<1> QED BY <1>1, <1>2, EndKeeps

LEMMA WaitKeeps ==
    ASSUME SoundInv, Wait
    PROVE  KeepsUnclaimed
<1>1. at = "user"
  BY DEF Wait, NativeCall
<1>2. PICK i \in Used(Entered) :
         IF Done(Entered, i)
         THEN Becomes([Entered EXCEPT !.task[i].collected = TRUE])
         ELSE Becomes([Entered EXCEPT !.task[current].state = "waiting",
                                      !.task[current].waitPid = Entered.task[i].pid])
  BY DEF Wait
<1>3. /\ i \in Slot /\ Entered.task[i] \in Entry /\ Entered \in Tables
      /\ Entered.task[i].state # "free" /\ Sound(Entered, manager)
      /\ current \in Slot /\ Entered.task[current] = Me
  BY <1>1, CallerSound DEF Used, Sound, Tables
<1>4. CASE Done(Entered, i)
  <2> DEFINE e == [Entered.task[i] EXCEPT !.collected = TRUE]
             U == WithEntry(Entered, i, e)
  <2>1. /\ e \in Entry /\ e.state = Entered.task[i].state /\ e.pid = Entered.task[i].pid
        /\ e.parent = Entered.task[i].parent /\ e.linux = Entered.task[i].linux
        /\ e.group = Entered.task[i].group /\ e.held = Entered.task[i].held
    BY <1>3 DEF Entry
  <2>2. U = [Entered EXCEPT !.task[i].collected = TRUE]
    BY <1>3 DEF Tables, WithEntry
  <2> HIDE DEF e
  <2>3. Restates(Entered, U)
    BY <1>3, <2>1, RestateOne
  <2>4. Becomes(U)
    BY <1>2, <1>4, <2>2
  <2> HIDE DEF U
  <2> QED BY <2>3, <2>4, CallKeeps DEF Restates
<1>5. CASE ~Done(Entered, i)
  <2> DEFINE e == [Me EXCEPT !.state = "waiting", !.waitPid = Entered.task[i].pid]
             U == WithEntry(Entered, current, e)
  <2>1. /\ e \in Entry /\ e.state = "waiting" /\ e.pid = Me.pid
        /\ e.parent = Me.parent /\ e.linux = Me.linux
        /\ e.group = Me.group /\ e.held = Me.held
    BY <1>1, <1>3, CallerSound DEF Entry, State
  <2>2. U = [Entered EXCEPT !.task[current].state = "waiting",
                            !.task[current].waitPid = Entered.task[i].pid]
    BY <1>1, <1>3, CallerSound DEF Tables, WithEntry
  <2> HIDE DEF e
  <2>3. Restates(Entered, U)
    BY <1>1, <1>3, <2>1, RestateOne, CallerSound
  <2>4. Becomes(U)
    BY <1>2, <1>5, <2>2
  <2> HIDE DEF U
  <2> QED BY <2>3, <2>4, CallKeeps DEF Restates
<1> QED BY <1>4, <1>5

LEMMA SleepKeeps ==
    ASSUME SoundInv, Sleep
    PROVE  KeepsUnclaimed
<1> DEFINE f == [Entered.task EXCEPT ![current].state = "sleeping"]
           U == [task |-> f, group |-> Entered.group]
<1>1. at = "user" /\ Becomes([Entered EXCEPT !.task[current].state = "sleeping"])
  BY DEF Sleep
<1>2. Entered \in Tables /\ current \in Slot
  BY <1>1, CallerSound DEF Sound
<1>3. U = [Entered EXCEPT !.task[current].state = "sleeping"]
  BY <1>2 DEF Tables
<1>4. f \in [Slot -> Entry] /\ \A k \in Slot : f[k].pid = Entered.task[k].pid
  BY <1>2 DEF Tables, Entry, State
<1> HIDE DEF f
<1>5. U \in Tables /\ U.task = f
  BY <1>2, <1>4, MakeTable DEF Tables
<1>6. Becomes(U)
  BY <1>1, <1>3
<1> HIDE DEF U
<1> QED BY <1>4, <1>5, <1>6, CallKeeps

LEMMA WakeKeeps ==
    ASSUME SoundInv, OrderedInv, Wake
    PROVE  KeepsUnclaimed
<1>1. at = "user"
  BY DEF Wake, LinuxCall
<1>2. PICK S \in SUBSET In(Entered, "sleeping") :
         Becomes([Entered EXCEPT !.task =
             [i \in Slot |-> IF i \in S THEN [@[i] EXCEPT !.state = "ready"] ELSE @[i]]])
  BY DEF Wake
<1> DEFINE f == [i \in Slot |-> IF i \in S THEN [Entered.task[i] EXCEPT !.state = "ready"]
                                ELSE Entered.task[i]]
           U == [task |-> f, group |-> Entered.group]
<1>3. Sound(Entered, manager) /\ Ordered(Entered)
  BY <1>1, CallerSound, EnteredOrdered
<1>4. [Entered EXCEPT !.task =
             [i \in Slot |-> IF i \in S THEN [@[i] EXCEPT !.state = "ready"] ELSE @[i]]] = U
  BY <1>3 DEF Sound, Tables
<1>5. U \in Tables
  BY <1>3, WokenOrdered
<1>6. \A i \in Slot : Entered.task[i].state = "zombie" => U.task[i] = Entered.task[i]
  BY DEF In
<1>7. Becomes(U)
  BY <1>2, <1>4
<1> HIDE DEF U
<1> QED BY <1>5, <1>6, <1>7, CallKeeps

LEMMA TickKeeps ==
    ASSUME SoundInv, Tick
    PROVE  KeepsUnclaimed
<1>1. PICK S \in SUBSET In(Table, "sleeping") :
         task' = [i \in Slot |-> IF i \in S THEN [task[i] EXCEPT !.state = "ready"] ELSE task[i]]
  BY DEF Tick
<1>2. \A i \in S : task[i].state = "sleeping"
  BY DEF In, Table
<1>3. \A i \in Slot : task[i].state = "zombie" => task'[i] = task[i]
  BY <1>1, <1>2
<1> QED BY <1>3 DEF KeepsUnclaimed

LEMMA DispatchDoomedKeeps ==
    ASSUME SoundInv, OrderedInv, DispatchDoomed
    PROVE  KeepsUnclaimed
<1> DEFINE S == Company(Table, NextReady)
           U == Finished(Table, S)
<1>1. In(Table, "ready") # {} /\ task[NextReady].linux /\ Becomes(U)
  BY DEF DispatchDoomed
<1>2. current \in Slot /\ Sound(Table, manager) /\ Table.task = task /\ Ordered(Table)
  BY TableType DEF SoundInv, TypeOK, OrderedInv
<1>3. NextReady \in Slot /\ NextReady \in Live(Table)
  BY <1>1, <1>2, NextReadyIsReady DEF Live
<1>4. NextReady # 0
  BY <1>1, <1>2 DEF Sound, Identified
<1>5. S \subseteq Live(Table)
  BY <1>2, <1>3, <1>4, CompanyAlive
<1> HIDE DEF S
<1>6. U \in Tables /\ Carries(Table, U)
  BY <1>2, <1>5, FinishedCarries, FinishedIs DEF EndsTo, Sound, Live, Ordered
<1> HIDE DEF U
<1> QED BY <1>1, <1>2, <1>6, StepKeeps DEF Carries

LEMMA NextKeeps ==
    ASSUME NoThreadStops, SoundInv, OrderedInv, Next
    PROVE  KeepsUnclaimed
<1>1. CASE \E foreign \in BOOLEAN : Spawn(foreign) \/ Exec(foreign)
  BY <1>1, SpawnKeeps, ExecKeeps
<1>2. CASE Clone \/ Exit \/ ExitGroup
  BY <1>2, CloneKeeps, ExitKeeps, ExitGroupKeeps
<1>3. CASE Wait \/ Stop \/ Logout
  BY <1>3, WaitKeeps, StopKeeps, LogoutKeeps
<1>4. CASE Sleep \/ Wake \/ Tick
  BY <1>4, SleepKeeps, WakeKeeps, TickKeeps
<1>5. CASE Claim \/ Preempt
  BY <1>5, EnteredOrdered, CallKeeps DEF Claim, Preempt
<1>6. CASE Dispatch
  BY <1>6 DEF Dispatch, KeepsUnclaimed
<1>7. CASE DispatchDoomed
  BY <1>7, DispatchDoomedKeeps
<1> QED BY <1>1, <1>2, <1>3, <1>4, <1>5, <1>6, <1>7 DEF Next

\* An exit status that nobody has claimed is never thrown away: not by reaping,
\* not by the end of a session, a group or a bystander, only by its parent's end
\* or by the parent that waits for it.
THEOREM UnclaimedAlwaysKept == NoThreadStops => (Spec => UnclaimedKept)
<1> SUFFICES ASSUME NoThreadStops PROVE Spec => UnclaimedKept
  OBVIOUS
<1>1. SoundInv /\ OrderedInv /\ [Next]_vars => [KeepsUnclaimed]_vars
  BY NextKeeps
<1>2. Spec => [][KeepsUnclaimed]_vars
  BY <1>1, AlwaysOrdered, PTL DEF Spec
<1> QED BY <1>2 DEF UnclaimedKept, KeepsUnclaimed
=============================================================================
