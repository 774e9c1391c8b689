------------------------------ MODULE NvmeProofs -------------------------------
(***************************************************************************)
(* Proofs about Nvme, for queues of any length, any number of identifiers  *)
(* and of pages.                                                           *)
(*                                                                         *)
(* Wired says what the controller can know of memory: the six pages of the *)
(* driver, and commands that name them.  It holds from the moment the      *)
(* controller is enabled until it is quiet, whatever has gone wrong, and   *)
(* also when the driver has forgotten the pages.  Idle and InFlight say    *)
(* where the one command is, for as long as the driver trusts the          *)
(* controller.                                                             *)
(***************************************************************************)
EXTENDS Nvme, TLAPS, FiniteSetTheorems

Place == 0 .. Entries - 1
Ops == {"features", "createCq", "createSq", "identify", "list", "namespace",
        "read", "write", "flush"}
Stages == {"off", "disabling", "enabling", "features", "createCq", "createSq", "identify",
           "list", "scan", "ready", "stopping", "lost"}
Active == {"features", "createCq", "createSq", "identify", "list", "scan", "ready"}

Command == [op : Ops, page : Page \cup {None}, cid : 0 .. Cids - 1, q : Queue]
Completion == [cid : 0 .. Cids - 1, ok : BOOLEAN, phase : {0, 1}]
Cell == {Zero} \cup Sector \cup Command \cup Completion
Ring == [tail : Place, head : Place, phase : {0, 1}, cid : 0 .. Cids - 1]
Device == [sq : Page \cup {None}, cq : Page \cup {None}, head : Place, slot : Place, phase : {0, 1}]

\* nvme_open refuses a controller with queues of one entry, and identifiers are
\* 16 bits wide; the rest is that the sentinels are nothing else.
NvmeAssumption ==
    /\ Entries \in Nat /\ Entries > 1 /\ Cids \in Nat /\ Cids > 1 /\ IsFiniteSet(Page)
    /\ None \notin Page /\ None \notin Command /\ None \notin Ops \cup Role /\ Zero \notin Completion

Host == [stage : Stages, pages : [Role -> Page \cup {None}], rings : [Queue -> Ring],
         failed : BOOLEAN, online : BOOLEAN, waiting : {None} \cup Command,
         answer : {None} \cup Ops]
Registers == [enable : BOOLEAN, sq : Page \cup {None}, cq : Page \cup {None}, bell : [Queue -> Place]]
Running == [cmd : Command, done : BOOLEAN, ok : BOOLEAN]
Types ==
    /\ drv \in Host /\ held \subseteq Page /\ mem \in [Page -> [Place -> Cell]] /\ reg \in Registers
    /\ ctl \in [ready : BOOLEAN, fatal : BOOLEAN, queues : [Queue -> Device], running : SUBSET Running]
    /\ cache \in Cell /\ stable \in Cell

\* Pages that are the driver's, one for each role.
Own(P) == P \in [Role -> held] /\ \A r, s \in Role : P[r] = P[s] => r = s

\* A command of the driver names the page that its kind needs.
PageOf(P, op) ==
    CASE op = "createCq" -> P["ioCq"]
      [] op = "createSq" -> P["ioSq"]
      [] op \in {"identify", "namespace", "read", "write"} -> P["data"]
      [] op = "list" -> P["list"]
      [] OTHER -> None
Issued(P, c) ==
    /\ c \in Command /\ c.page = PageOf(P, c.op)
    /\ c.q = IF c.op \in {"read", "write", "flush"} THEN "io" ELSE "admin"

\* There is nothing in the controller.
Detached == ctl.queues = [q \in Queue |-> NoQueue] /\ ctl.running = {}

\* What waits in a submission queue is one command of the driver.
Wired(P) ==
    /\ \A q \in Queue : /\ ctl.queues[q].sq \in {None, P[Sq(q)]}
                        /\ ctl.queues[q].cq \in {None, P[Cq(q)]}
    /\ \A x \in ctl.running : Issued(P, x.cmd)
    /\ ctl.ready => \A q \in Queue : ctl.queues[q].head # reg.bell[q] =>
          /\ Issued(P, mem[P[Sq(q)]][ctl.queues[q].head])
          /\ reg.bell[q] = (ctl.queues[q].head + 1) % Entries

\* The entries of a completion queue that the driver has seen have the phase of
\* this round, the others that of the last one.
Seen(q, i) ==
    LET e == mem[drv.pages[Cq(q)]][i]
    IN  e = Zero \/ (e \in Completion /\
                     e.phase = IF i < drv.rings[q].head THEN drv.rings[q].phase
                               ELSE 1 - drv.rings[q].phase)
Empty(q) ==
    /\ ctl.queues[q].head = reg.bell[q]
    /\ ctl.queues[q].slot = drv.rings[q].head /\ ctl.queues[q].phase = drv.rings[q].phase
    /\ \A i \in Place : Seen(q, i)
Idle == ctl.running = {} /\ \A q \in Queue : Empty(q)

\* What a command has done when its completion says so.
Effect(c) ==
    /\ c.op \in {"read", "write"} => mem[drv.pages["data"]][0] = cache
    /\ c.op = "flush" => stable = cache
    /\ c.op = "createCq" => ctl.queues["io"].cq = drv.pages["ioCq"]
    /\ c.op = "createSq" => ctl.queues["io"].sq = drv.pages["ioSq"]

\* The command is in its queue, or in the controller, or its completion is in
\* the other queue.
Queued(q) ==
    /\ ctl.running = {} /\ ctl.queues[q].head # reg.bell[q]
    /\ mem[drv.pages[Sq(q)]][ctl.queues[q].head] = drv.waiting
    /\ ctl.queues[q].slot = drv.rings[q].head /\ ctl.queues[q].phase = drv.rings[q].phase
    /\ \A i \in Place : Seen(q, i)
Fetched(q) ==
    /\ Empty(q)
    /\ \E x \in ctl.running : /\ ctl.running = {x} /\ x.cmd = drv.waiting
                              /\ x.done /\ x.ok => Effect(x.cmd)
Completed(q) ==
    LET h == drv.rings[q].head
    IN  /\ ctl.running = {} /\ ctl.queues[q].head = reg.bell[q]
        /\ ctl.queues[q].slot = (h + 1) % Entries
        /\ ctl.queues[q].phase = IF (h + 1) % Entries = 0 THEN 1 - drv.rings[q].phase
                                 ELSE drv.rings[q].phase
        /\ \A i \in Place \ {h} : Seen(q, i)
        /\ LET e == mem[drv.pages[Cq(q)]][h]
           IN  /\ e \in Completion /\ e.phase = drv.rings[q].phase
               /\ e.ok => Effect(drv.waiting)
InFlight ==
    /\ Issued(drv.pages, drv.waiting)
    /\ \A q \in Queue \ {drv.waiting.q} : Empty(q)
    /\ Queued(drv.waiting.q) \/ Fetched(drv.waiting.q) \/ Completed(drv.waiting.q)

\* The queues that are created when a stage has been reached.
Created ==
    /\ ctl.queues["admin"].sq = drv.pages["adminSq"]
    /\ ctl.queues["admin"].cq = drv.pages["adminCq"]
    /\ drv.waiting # None =>
          /\ drv.waiting.q = "io" => drv.stage = "ready"
          /\ drv.stage = "createSq" => drv.waiting.op = "createCq"
          /\ drv.stage = "identify" => drv.waiting.op = "createSq"
    /\ drv.stage \in {"identify", "list", "scan", "ready"} \/ drv.answer = "createCq" =>
          ctl.queues["io"].cq = drv.pages["ioCq"]
    /\ drv.stage \in {"list", "scan", "ready"} \/ drv.answer = "createSq" =>
          ctl.queues["io"].sq = drv.pages["ioSq"]

Fresh == [Off EXCEPT !.stage = drv.stage, !.pages = drv.pages]

\* What holds in the stages of the driver.
WhenOff ==
    drv.stage = "off" => /\ drv = Off /\ Detached /\ ~reg.enable
                         /\ ctl.ready => reg.bell = [q \in Queue |-> 0]
WhenLost ==
    drv.stage = "lost" => /\ drv = [Off EXCEPT !.stage = "lost"] /\ ~reg.enable
                          /\ \E P \in [Role -> held] : Own(P) /\ Wired(P)
WhenUp == drv.stage \notin {"off", "lost"} => Own(drv.pages) /\ Wired(drv.pages)
WhenNew ==
    /\ drv.stage = "disabling" => Detached /\ ~reg.enable
    /\ drv.stage \in {"disabling", "enabling"} =>
          drv = Fresh /\ \A r \in Role : mem[drv.pages[r]] = ZeroPage
\* The queues of a controller that has just been enabled.
FreshQueues(sq, cq) == [Stopped.queues EXCEPT !["admin"] = [NoQueue EXCEPT !.sq = sq, !.cq = cq]]
WhenEnabling ==
    drv.stage = "enabling" =>
          /\ reg.enable /\ reg.sq = drv.pages["adminSq"] /\ reg.cq = drv.pages["adminCq"]
          /\ reg.bell = [q \in Queue |-> 0]
          /\ ctl.ready => ctl.queues = FreshQueues(reg.sq, reg.cq) /\ ctl.running = {}
Trusted ==
    /\ drv.waiting = None /\ ~drv.failed => Idle
    /\ drv.waiting # None =>
          /\ ~drv.failed /\ drv.answer = None
          /\ drv.waiting.cid = drv.rings[drv.waiting.q].cid /\ InFlight
WhenActive ==
    drv.stage \in Active =>
          /\ reg.enable /\ ctl.ready /\ Created /\ Trusted
          /\ \A q \in Queue : drv.rings[q].tail = reg.bell[q]
WhenStopping == drv.stage = "stopping" => ~reg.enable /\ drv.waiting = None

IInv ==
    /\ Types /\ (~ctl.ready => Detached)
    /\ WhenOff /\ WhenLost /\ WhenUp /\ WhenNew /\ WhenEnabling /\ WhenActive /\ WhenStopping

-----------------------------------------------------------------------------
(***************************************************************************)
(* Arithmetic of the rings, and six pages out of enough                    *)
(***************************************************************************)

\* An index of a ring goes round, and is another one after a step.
LEMMA NextPlace ==
    ASSUME NEW n \in Nat, n > 1, NEW i \in 0 .. n - 1
    PROVE  /\ (i + 1) % n = IF i + 1 = n THEN 0 ELSE i + 1
           /\ (i + 1) % n \in 0 .. n - 1 /\ (i + 1) % n # i
<1>1. (i + 1) % n = IF i + 1 = n THEN 0 ELSE i + 1
  OBVIOUS
<1> QED
  BY <1>1

\* The identifier before one is another identifier.
LEMMA OtherCid ==
    ASSUME NEW n \in Nat, n > 1, NEW i \in 0 .. n - 1
    PROVE  (i + n - 1) % n \in 0 .. n - 1 /\ (i + n - 1) % n # i
<1>1. (i + n - 1) % n = IF i = 0 THEN n - 1 ELSE i - 1
  OBVIOUS
<1> QED
  BY <1>1

\* There are six roles.
LEMMA SixRoles == Cardinality(Role) = 6
<1> DEFINE a == {"adminSq"}  b == a \cup {"adminCq"}  c == b \cup {"ioSq"}
           d == c \cup {"ioCq"}  e == d \cup {"data"}  f == e \cup {"list"}
<1>1. IsFiniteSet(a) /\ Cardinality(a) = 1
  BY FS_Singleton
<1>2. IsFiniteSet(b) /\ Cardinality(b) = 2
  BY <1>1, FS_AddElement, "adminCq" \notin a
<1>3. IsFiniteSet(c) /\ Cardinality(c) = 3
  BY <1>2, FS_AddElement, "ioSq" \notin b
<1>4. IsFiniteSet(d) /\ Cardinality(d) = 4
  BY <1>3, FS_AddElement, "ioCq" \notin c
<1>5. IsFiniteSet(e) /\ Cardinality(e) = 5
  BY <1>4, FS_AddElement, "data" \notin d
<1>6. IsFiniteSet(f) /\ Cardinality(f) = 6
  BY <1>5, FS_AddElement, "list" \notin e
<1>7. f = Role
  BY DEF Role
<1> QED
  BY <1>6, <1>7

\* A set that is not empty, less one of its elements.
LEMMA OneLess ==
    ASSUME NEW S, NEW n \in Nat, IsFiniteSet(S), Cardinality(S) >= n + 1
    PROVE  \E x \in S : IsFiniteSet(S \ {x}) /\ Cardinality(S \ {x}) >= n
<1>1. Cardinality(S) \in Nat /\ Cardinality(S) # 0
  BY FS_CardinalityType
<1>2. PICK x \in S : TRUE
  BY <1>1, FS_EmptySet
<1>3. IsFiniteSet(S \ {x}) /\ Cardinality(S \ {x}) = Cardinality(S) - 1
  BY <1>2, FS_RemoveElement
<1> QED
  BY <1>1, <1>2, <1>3

\* nvme_open finds a page for each role, no page twice, none that is held.
LEMMA TakenOwn ==
    ASSUME NvmeAssumption, held \subseteq Page, Cardinality(Page \ held) >= Cardinality(Role)
    PROVE  /\ Taken \in [Role -> Page \ held]
           /\ \A r, s \in Role : r # s => Taken[r] # Taken[s]
<1> DEFINE S == Page \ held
           Good(f) == \A r, s \in Role : r # s => f[r] # f[s]
<1>1. IsFiniteSet(S) /\ Cardinality(S) >= 5 + 1
  BY SixRoles, FS_Subset DEF NvmeAssumption
<1> HIDE DEF S
<1>2. PICK a \in S : IsFiniteSet(S \ {a}) /\ Cardinality(S \ {a}) >= 4 + 1
  <2>1. \E x \in S : IsFiniteSet(S \ {x}) /\ Cardinality(S \ {x}) >= 5
    BY <1>1, OneLess
  <2> QED BY <2>1
<1> DEFINE Sa == S \ {a}
<1>3. PICK b \in Sa : IsFiniteSet(Sa \ {b}) /\ Cardinality(Sa \ {b}) >= 3 + 1
  <2>1. \E x \in Sa : IsFiniteSet(Sa \ {x}) /\ Cardinality(Sa \ {x}) >= 4
    BY <1>2, OneLess
  <2> QED BY <2>1
<1> DEFINE Sb == Sa \ {b}
<1>4. PICK c \in Sb : IsFiniteSet(Sb \ {c}) /\ Cardinality(Sb \ {c}) >= 2 + 1
  <2>1. \E x \in Sb : IsFiniteSet(Sb \ {x}) /\ Cardinality(Sb \ {x}) >= 3
    BY <1>3, OneLess
  <2> QED BY <2>1
<1> DEFINE Sc == Sb \ {c}
<1>5. PICK d \in Sc : IsFiniteSet(Sc \ {d}) /\ Cardinality(Sc \ {d}) >= 1 + 1
  <2>1. \E x \in Sc : IsFiniteSet(Sc \ {x}) /\ Cardinality(Sc \ {x}) >= 2
    BY <1>4, OneLess
  <2> QED BY <2>1
<1> DEFINE Sd == Sc \ {d}
<1>6. PICK e \in Sd : IsFiniteSet(Sd \ {e}) /\ Cardinality(Sd \ {e}) >= 0 + 1
  <2>1. \E x \in Sd : IsFiniteSet(Sd \ {x}) /\ Cardinality(Sd \ {x}) >= 1
    BY <1>5, OneLess
  <2> QED BY <2>1
<1> DEFINE Se == Sd \ {e}
<1>7. PICK g \in Se : TRUE
  <2>1. \E x \in Se : IsFiniteSet(Se \ {x}) /\ Cardinality(Se \ {x}) >= 0
    BY <1>6, OneLess
  <2> QED BY <2>1
<1> DEFINE F == [r \in Role |-> CASE r = "adminSq" -> a [] r = "adminCq" -> b [] r = "ioSq" -> c
                                  [] r = "ioCq" -> d [] r = "data" -> e [] OTHER -> g]
<1>8. F \in [Role -> S] /\ Good(F)
  BY <1>2, <1>3, <1>4, <1>5, <1>6, <1>7 DEF Role
<1>9. \E f \in [Role -> S] : Good(f)
  BY <1>8
<1> QED
  BY <1>9 DEF Taken, S

\* The driver before it is opened, in any stage and with any pages.
LEMMA OffTyped ==
    ASSUME NvmeAssumption, NEW stage \in Stages, NEW pages \in [Role -> Page \cup {None}]
    PROVE  [Off EXCEPT !.stage = stage, !.pages = pages] \in Host
<1>1. Rings \in [Queue -> Ring]
  BY DEF NvmeAssumption, Rings, Ring, Place
<1> QED
  BY <1>1 DEF Off, Host
LEMMA NoQueueTyped == ASSUME NvmeAssumption PROVE NoQueue \in Device /\ 0 \in Place
BY DEF NvmeAssumption, NoQueue, Device, Place
LEMMA ForgottenTyped ==
    ASSUME NvmeAssumption, NEW stage \in Stages
    PROVE  [Off EXCEPT !.stage = stage] \in Host /\ Off \in Host
<1>1. Rings \in [Queue -> Ring] /\ NoPages \in [Role -> Page \cup {None}]
  BY DEF NvmeAssumption, Rings, Ring, Place, NoPages
<1>2. "off" \in Stages
  BY DEF Stages
<1> HIDE DEF Stages, NoPages, Rings
<1> QED
  BY <1>1, <1>2 DEF Off, Host
\* They are empty, and the admin queues are where the registers say.
LEMMA FreshQueuesValue ==
    ASSUME NvmeAssumption, NEW sq \in Page, NEW cq \in Page
    PROVE  /\ FreshQueues(sq, cq) \in [Queue -> Device]
           /\ FreshQueues(sq, cq)["admin"].sq = sq /\ FreshQueues(sq, cq)["admin"].cq = cq
           /\ FreshQueues(sq, cq)["io"] = NoQueue
           /\ \A q \in Queue : LET t == FreshQueues(sq, cq)[q]
                               IN  t.head = 0 /\ t.slot = 0 /\ t.phase = 1
<1> DEFINE n == [NoQueue EXCEPT !.sq = sq, !.cq = cq]
<1>1. Stopped.queues = [q \in Queue |-> NoQueue]
  BY DEF Stopped
<1>2. NoQueue \in Device /\ NoQueue.head = 0 /\ NoQueue.slot = 0 /\ NoQueue.phase = 1
  BY NoQueueTyped DEF NoQueue
<1>3. n \in Device /\ n.sq = sq /\ n.cq = cq /\ n.head = 0 /\ n.slot = 0 /\ n.phase = 1
  BY <1>2 DEF Device
<1> HIDE DEF n
<1>4. FreshQueues(sq, cq) = [q \in Queue |-> IF q = "admin" THEN n ELSE NoQueue]
  BY <1>1 DEF FreshQueues, n
<1> QED
  BY <1>2, <1>3, <1>4 DEF Queue
\* The driver tells the controller to stop.
LEMMA ReleaseTyped ==
    ASSUME drv \in Host, reg \in Registers, Release(drv)
    PROVE  /\ drv' \in Host /\ drv' = [drv EXCEPT !.stage = "stopping"] /\ drv'.stage = "stopping"
           /\ drv'.pages = drv.pages /\ drv'.waiting = drv.waiting
           /\ reg' \in Registers /\ ~reg'.enable /\ reg'.bell = reg.bell
BY DEF Release, Host, Registers, Stages

-----------------------------------------------------------------------------
(***************************************************************************)
(* Starting and stopping the controller                                    *)
(***************************************************************************)

\* The invariant holds when the driver has not been opened.
LEMMA InitIInv == ASSUME NvmeAssumption, Init PROVE IInv
<1> USE DEF Init, Off, Stopped, NoQueue, NoPages, Rings, ZeroPage
<1>1. Types
  <2>2. drv \in Host
    BY ForgottenTyped DEF Stages
  <2>3. mem \in [Page -> [Place -> Cell]]
    BY DEF Place, Cell
  <2>4. reg \in Registers
    BY NoQueueTyped DEF Registers
  <2>5. Stopped.queues \in [Queue -> Device]
    BY NoQueueTyped
  <2>6. ctl \in [ready : BOOLEAN, fatal : BOOLEAN, queues : [Queue -> Device], running : SUBSET Running]
    <3>1. Stopped \in [ready : BOOLEAN, fatal : BOOLEAN, queues : [Queue -> Device], running : SUBSET Running]
      BY <2>5 DEF Stopped
    <3> HIDE DEF Stopped
    <3> QED
      BY <3>1
  <2> QED
    BY <2>2, <2>3, <2>4, <2>6 DEF Types, Cell
<1>2. Detached /\ WhenOff
  BY DEF Detached, WhenOff
<1>3. WhenLost /\ WhenUp /\ WhenNew /\ WhenEnabling /\ WhenActive /\ WhenStopping
  BY DEF WhenLost, WhenUp, WhenNew, WhenEnabling, WhenActive, WhenStopping, Active
<1> QED
  BY <1>1, <1>2, <1>3 DEF IInv

\* nvme_open has its pages, and nothing of the controller is in them.
LEMMA OpenIInv == ASSUME NvmeAssumption, IInv, Open PROVE IInv'
<1>1. /\ drv = Off /\ Detached /\ drv.stage = "off"
      /\ ctl.ready => reg.bell = [q \in Queue |-> 0]
  BY DEF IInv, Open, WhenOff
<1>2. Types
  BY DEF IInv
<1>3. /\ Taken \in [Role -> Page \ held]
      /\ \A r, s \in Role : r # s => Taken[r] # Taken[s]
  BY <1>2, TakenOwn DEF Open, Types
<1> HIDE DEF Taken
<1>4. /\ drv' = [Off EXCEPT !.stage = "disabling", !.pages = Taken]
      /\ drv'.stage = "disabling" /\ drv'.pages = Taken
      /\ held' = held \cup {Taken[r] : r \in Role}
      /\ mem' = [p \in Page |-> IF p \in held' \ held THEN ZeroPage ELSE mem[p]]
      /\ reg' = [reg EXCEPT !.enable = FALSE] /\ ctl' = ctl /\ cache' = cache /\ stable' = stable
  BY DEF Open, Off, drive
<1>5. held' \subseteq Page /\ Taken \in [Role -> held']
  BY <1>2, <1>3, <1>4 DEF Types
<1>6. Types'
  <2>1. Taken \in [Role -> Page \cup {None}]
    BY <1>3
  <2>2. (drv \in Host)'
    BY <2>1, <1>4, OffTyped DEF Stages
  <2>3. ZeroPage \in [Place -> Cell]
    BY DEF ZeroPage, Place, Cell
  <2>4. (mem \in [Page -> [Place -> Cell]])'
    BY <2>3, <1>2, <1>4 DEF Types
  <2>5. (reg \in Registers)'
    BY <1>2, <1>4 DEF Types, Registers
  <2> QED
    BY <2>2, <2>4, <2>5, <1>2, <1>4, <1>5 DEF Types
<1>7. (Own(drv.pages) /\ Wired(drv.pages))'
  <2>1. Own(drv.pages)'
    BY <1>3, <1>4, <1>5 DEF Own
  <2>2. Wired(drv.pages)'
    BY <1>1, <1>4 DEF Wired, Detached, NoQueue, Types
  <2> QED
    BY <2>1, <2>2
<1>8. WhenNew'
  <2>1. \A r \in Role : Taken[r] \in held' \ held /\ Taken[r] \in Page
    BY <1>3, <1>4
  <2>2. (\A r \in Role : mem[drv.pages[r]] = ZeroPage)'
    BY <2>1, <1>4
  <2>3. (Detached /\ ~reg.enable /\ drv = Fresh)'
    BY <1>1, <1>2, <1>4 DEF Detached, Fresh, Types, Off
  <2> QED
    BY <2>2, <2>3 DEF WhenNew
<1>9. (WhenOff /\ WhenLost /\ WhenEnabling /\ WhenActive /\ WhenStopping)'
  BY <1>4 DEF WhenOff, WhenLost, WhenEnabling, WhenActive, WhenStopping, Active
<1>10. WhenUp'
  BY <1>7 DEF WhenUp
<1>11. (~ctl.ready => Detached)'
  BY <1>1, <1>4 DEF Detached
<1> QED
  BY <1>6, <1>8, <1>9, <1>10, <1>11 DEF IInv

\* The controller is enabled once it is quiet, or given up.
LEMMA EnableIInv == ASSUME NvmeAssumption, IInv, Enable PROVE IInv'
<1>1. /\ Types /\ drv.stage = "disabling" /\ Detached /\ ~reg.enable /\ drv = Fresh
      /\ Own(drv.pages) /\ Wired(drv.pages)
      /\ \A r \in Role : mem[drv.pages[r]] = ZeroPage
  BY DEF IInv, Enable, WhenNew, WhenUp
<1>2. held' = held /\ mem' = mem /\ ctl' = ctl /\ cache' = cache /\ stable' = stable
  BY DEF Enable, drive
<1>3. CASE /\ ~ctl.ready
           /\ reg' = [reg EXCEPT !.enable = TRUE, !.sq = drv.pages["adminSq"],
                                 !.cq = drv.pages["adminCq"], !.bell = [q \in Queue |-> 0]]
           /\ drv' = [drv EXCEPT !.stage = "enabling"]
  <2>1. drv'.stage = "enabling" /\ drv'.pages = drv.pages
    BY <1>1, <1>3 DEF Types
  <2>2. Types'
    <3>1. [q \in Queue |-> 0] \in [Queue -> Place]
      BY NoQueueTyped
    <3>2. drv.pages["adminSq"] \in Page /\ drv.pages["adminCq"] \in Page
      BY <1>1 DEF Own, Types, Role
    <3>3. (reg \in Registers)'
      BY <1>1, <1>3, <3>1, <3>2 DEF Types, Registers
    <3>4. (drv \in Host)'
      BY <1>1, <1>3 DEF Types, Host, Stages
    <3> QED
      BY <1>1, <1>2, <3>3, <3>4 DEF Types
  <2>3. (Own(drv.pages) /\ Wired(drv.pages))'
    BY <1>1, <1>2, <1>3, <2>1 DEF Own, Wired, Detached
  <2>4. (WhenNew /\ WhenEnabling)'
    BY <1>1, <1>2, <1>3, <2>1 DEF WhenNew, WhenEnabling, Fresh, Off, Types, Host, Registers, Detached
  <2> QED
    BY <1>1, <1>2, <2>1, <2>2, <2>3, <2>4
       DEF IInv, WhenOff, WhenLost, WhenUp, WhenActive, WhenStopping, Active, Detached
<1>4. CASE ctl.ready /\ Release(drv)
  <2>1. drv'.stage = "stopping" /\ drv'.pages = drv.pages /\ drv'.waiting = None
    BY <1>1, <1>4, ReleaseTyped DEF Types, Fresh, Off
  <2>2. Types'
    BY <1>1, <1>2, <1>4, ReleaseTyped DEF Types
  <2>3. (Own(drv.pages) /\ Wired(drv.pages) /\ ~reg.enable)'
    BY <1>1, <1>2, <1>4, <2>1, ReleaseTyped DEF Own, Wired, Types
  <2> QED
    BY <1>1, <1>2, <2>1, <2>2, <2>3
       DEF IInv, WhenOff, WhenLost, WhenUp, WhenActive, WhenStopping, WhenNew, WhenEnabling,
           Active, Detached
<1> QED
  BY <1>3, <1>4 DEF Enable

\* A ready controller has the admin queues, and nothing in them.
LEMMA EnabledIInv == ASSUME NvmeAssumption, IInv, Enabled PROVE IInv'
<1>1. /\ Types /\ drv.stage = "enabling" /\ drv = Fresh /\ (~ctl.ready => Detached)
      /\ Own(drv.pages) /\ Wired(drv.pages)
      /\ \A r \in Role : mem[drv.pages[r]] = ZeroPage
      /\ reg.enable /\ reg.sq = drv.pages["adminSq"] /\ reg.cq = drv.pages["adminCq"]
      /\ reg.bell = [q \in Queue |-> 0]
      /\ ctl.ready => ctl.queues = FreshQueues(reg.sq, reg.cq) /\ ctl.running = {}
  BY DEF IInv, Enabled, WhenNew, WhenUp, WhenEnabling
<1>2. held' = held /\ mem' = mem /\ ctl' = ctl /\ cache' = cache /\ stable' = stable
  BY DEF Enabled, drive
<1>5. /\ ctl.ready => /\ ctl.queues["admin"].sq = reg.sq /\ ctl.queues["admin"].cq = reg.cq
                      /\ \A q \in Queue : /\ ctl.queues[q].head = 0 /\ ctl.queues[q].slot = 0
                                           /\ ctl.queues[q].phase = 1
  <2>1. drv.pages["adminSq"] \in Page /\ drv.pages["adminCq"] \in Page
    BY <1>1 DEF Own, Types, Role
  <2> QED
    BY <1>1, <2>1, FreshQueuesValue
<1>3. CASE ctl.ready /\ ~ctl.fatal /\ drv' = [drv EXCEPT !.stage = "features"] /\ UNCHANGED reg
  <2>1. /\ drv'.stage = "features" /\ drv'.pages = drv.pages /\ drv'.rings = Rings
        /\ drv'.waiting = None /\ drv'.answer = None
    BY <1>1, <1>3 DEF Types, Fresh, Off
  <2>2. Types'
    BY <1>1, <1>2, <1>3 DEF Types, Host, Stages
  <2>3. (Own(drv.pages) /\ Wired(drv.pages))'
    BY <1>1, <1>2, <1>3, <2>1 DEF Own, Wired
  <2>4. Created'
    <3>1. ctl.queues["admin"].sq = reg.sq /\ ctl.queues["admin"].cq = reg.cq
      BY <1>3, <1>5
    <3>2. None \notin {"createCq", "createSq"}
      BY DEF NvmeAssumption, Ops
    <3> QED
      BY <1>1, <1>2, <2>1, <3>1, <3>2 DEF Created
  <2>5. Idle'
    <3>1. \A q \in Queue : ctl.queues[q].head = 0 /\ ctl.queues[q].slot = 0 /\ ctl.queues[q].phase = 1
      BY <1>3, <1>5
    <3>2. (\A q \in Queue : \A i \in Place : mem[drv.pages[Cq(q)]][i] = Zero)'
      <4>1. \A q \in Queue : Cq(q) \in Role
        BY DEF Cq, Queue, Role
      <4>2. \A r \in Role : mem'[drv'.pages[r]] = ZeroPage
        BY <1>1, <1>2, <2>1
      <4>3. \A i \in Place : ZeroPage[i] = Zero
        BY DEF ZeroPage, Place
      <4> QED
        BY <4>1, <4>2, <4>3
    <3> QED
      BY <1>1, <1>2, <1>3, <2>1, <3>1, <3>2 DEF Idle, Empty, Seen, Rings
  <2>6. WhenActive'
    BY <1>1, <1>2, <1>3, <2>1, <2>4, <2>5 DEF WhenActive, Trusted, Rings
  <2> QED
    BY <1>1, <1>2, <2>1, <2>2, <2>3, <2>6
       DEF IInv, WhenOff, WhenLost, WhenUp, WhenNew, WhenEnabling, WhenStopping, Detached
<1>4. CASE (~ctl.ready \/ ctl.fatal) /\ Release(drv)
  <2>1. drv'.stage = "stopping" /\ drv'.pages = drv.pages /\ drv'.waiting = None
    BY <1>1, <1>4, ReleaseTyped DEF Types, Fresh, Off
  <2>2. Types'
    BY <1>1, <1>2, <1>4, ReleaseTyped DEF Types
  <2>3. (Own(drv.pages) /\ Wired(drv.pages) /\ ~reg.enable)'
    BY <1>1, <1>2, <1>4, <2>1, ReleaseTyped DEF Own, Wired, Types
  <2> QED
    BY <1>1, <1>2, <2>1, <2>2, <2>3
       DEF IInv, WhenOff, WhenLost, WhenUp, WhenActive, WhenStopping, WhenNew, WhenEnabling,
           Active, Detached
<1> QED
  BY <1>3, <1>4 DEF Enabled

\* The driver goes when the controller is quiet, and forgets its pages when it
\* is not.
LEMMA ReleasedIInv == ASSUME NvmeAssumption, IInv, Released PROVE IInv'
<1>1. /\ Types /\ Detached /\ ~ctl.ready /\ ~reg.enable
  BY DEF IInv, Released, Quiet, WhenStopping
<1>2. /\ drv' = Off /\ held' \subseteq held /\ mem' = mem /\ reg' = reg /\ ctl' = ctl
      /\ cache' = cache /\ stable' = stable
  BY DEF Released, drive
<1>3. Types'
  BY <1>1, <1>2, ForgottenTyped DEF Types, Stages
<1> QED
  BY <1>1, <1>2, <1>3 DEF IInv, WhenOff, WhenLost, WhenUp, WhenActive, WhenStopping, WhenNew,
                          WhenEnabling, Active, Detached, Off

LEMMA QuarantinedIInv == ASSUME NvmeAssumption, IInv, Quarantined PROVE IInv'
<1>1. /\ Types /\ ctl.ready /\ ~reg.enable /\ Own(drv.pages) /\ Wired(drv.pages)
  BY DEF IInv, Quarantined, WhenStopping, WhenUp
<1>2. /\ drv' = [Off EXCEPT !.stage = "lost"] /\ held' = held /\ mem' = mem /\ reg' = reg
      /\ ctl' = ctl /\ cache' = cache /\ stable' = stable /\ drv'.stage = "lost"
  BY DEF Quarantined, drive, Off
<1>3. Types'
  <2>2. (drv \in Host)'
    BY <1>2, ForgottenTyped DEF Stages
  <2> QED
    BY <1>1, <1>2, <2>2 DEF Types
<1>4. WhenLost'
  <2> DEFINE P == drv.pages
  <2>1. P \in [Role -> held'] /\ \A r, s \in Role : P[r] = P[s] => r = s
    BY <1>1, <1>2 DEF Own
  <2>2. (\A q \in Queue : /\ ctl.queues[q].sq \in {None, P[Sq(q)]}
                         /\ ctl.queues[q].cq \in {None, P[Cq(q)]})
    BY <1>1 DEF Wired
  <2> QED
    BY <1>1, <1>2, <2>1 DEF WhenLost, Own, Wired
<1> QED
  BY <1>1, <1>2, <1>3, <1>4 DEF IInv, WhenOff, WhenUp, WhenActive, WhenStopping, WhenNew,
                                WhenEnabling, Active, Detached

-----------------------------------------------------------------------------
(***************************************************************************)
(* Steps of the controller                                                 *)
(***************************************************************************)

\* The roles of the queues differ from each other and from the data.
LEMMA QueueRoles ==
    /\ \A q \in Queue : Sq(q) \in Role /\ Cq(q) \in Role
    /\ \A q, k \in Queue : Sq(q) # Cq(k) /\ (q # k => Sq(q) # Sq(k) /\ Cq(q) # Cq(k))
    /\ \A q \in Queue : Sq(q) # "data" /\ Cq(q) # "data"
    /\ {"data", "list", "adminSq", "adminCq", "ioSq", "ioCq"} \subseteq Role
BY DEF Queue, Role, Sq, Cq

\* So their pages differ.
LEMMA OwnPages ==
    ASSUME NvmeAssumption, held \subseteq Page, NEW P, Own(P)
    PROVE  /\ \A r \in Role : P[r] \in held /\ P[r] \in Page /\ P[r] # None
           /\ \A q, k \in Queue : P[Sq(q)] # P[Cq(k)] /\ (q # k => P[Sq(q)] # P[Sq(k)] /\ P[Cq(q)] # P[Cq(k)])
           /\ \A q \in Queue : P[Sq(q)] # P["data"] /\ P[Cq(q)] # P["data"]
BY QueueRoles DEF Own, NvmeAssumption

\* A controller is enabled only while nvme_open waits for it.
LEMMA GetsReadyIInv == ASSUME NvmeAssumption, IInv, GetsReady PROVE IInv'
<1>1. Types /\ reg.enable /\ ~ctl.ready
  BY DEF IInv, GetsReady
<1>2. drv.stage = "enabling"
  BY <1>1 DEF IInv, WhenOff, WhenLost, WhenNew, WhenActive, WhenStopping, Active, Types, Host,
              Stages, GetsReady
<1>3. /\ reg.sq = drv.pages["adminSq"] /\ reg.cq = drv.pages["adminCq"]
      /\ reg.bell = [q \in Queue |-> 0] /\ Own(drv.pages) /\ Wired(drv.pages)
      /\ drv = Fresh /\ \A r \in Role : mem[drv.pages[r]] = ZeroPage
  BY <1>1, <1>2 DEF IInv, WhenNew, WhenUp, WhenEnabling
<1>4. drv' = drv /\ held' = held /\ mem' = mem /\ reg' = reg /\ cache' = cache /\ stable' = stable
  BY DEF GetsReady, host, drive
<1>5. ctl'.ready /\ ctl'.queues = FreshQueues(reg.sq, reg.cq) /\ ctl'.running = {}
      /\ ctl' \in [ready : BOOLEAN, fatal : BOOLEAN, queues : [Queue -> Device], running : SUBSET Running]
  <2>1. drv.pages["adminSq"] \in Page /\ drv.pages["adminCq"] \in Page
    BY <1>1, <1>3, OwnPages DEF Types, Role
  <2>2. ctl' = [Stopped EXCEPT !.ready = TRUE, !.queues = FreshQueues(reg.sq, reg.cq)]
    BY DEF GetsReady, FreshQueues
  <2> QED
    BY <1>3, <2>1, <2>2, FreshQueuesValue DEF Stopped
<1>6. Types'
  BY <1>1, <1>4, <1>5 DEF Types
<1>7. Wired(drv.pages)'
  <2>1. drv.pages["adminSq"] \in Page /\ drv.pages["adminCq"] \in Page
    BY <1>1, <1>3, OwnPages DEF Types, Role
  <2>2. \A q \in Queue : LET t == ctl'.queues[q]
                         IN  t.sq \in {None, drv.pages[Sq(q)]} /\ t.cq \in {None, drv.pages[Cq(q)]} /\ t.head = 0
    BY <1>3, <1>5, <2>1, FreshQueuesValue DEF Queue, NoQueue, Sq, Cq
  <2> QED
    BY <1>3, <1>4, <1>5, <2>2 DEF Wired
<1> QED
  BY <1>1, <1>2, <1>3, <1>4, <1>5, <1>6, <1>7 DEF IInv, WhenOff, WhenLost, WhenUp, WhenNew,
     WhenEnabling, WhenActive, WhenStopping, Active, Own, Fresh

\* A controller that has been told to stop lets go of everything.
LEMMA GetsQuietIInv == ASSUME NvmeAssumption, IInv, GetsQuiet PROVE IInv'
<1>1. Types /\ ~reg.enable
  BY DEF IInv, GetsQuiet
<1>2. drv.stage \notin Active /\ drv.stage # "enabling"
  BY <1>1 DEF IInv, WhenActive, WhenEnabling
<1>4. drv' = drv /\ held' = held /\ mem' = mem /\ reg' = reg /\ cache' = cache /\ stable' = stable
  BY DEF GetsQuiet, host, drive
<1>5. ctl' = Stopped
  BY DEF GetsQuiet
<1>6. Detached' /\ ~ctl'.ready /\ Types'
  <2>1. Stopped.queues = [q \in Queue |-> NoQueue] /\ Stopped.running = {} /\ ~Stopped.ready
    BY DEF Stopped
  <2>2. Stopped \in [ready : BOOLEAN, fatal : BOOLEAN, queues : [Queue -> Device], running : SUBSET Running]
    BY NoQueueTyped DEF Stopped
  <2> QED
    BY <1>1, <1>4, <1>5, <2>1, <2>2 DEF Detached, Types
<1>7. \A P : Wired(P)'
  BY <1>6 DEF Wired, Detached, NoQueue
<1>8. \A P : Own(P) => Own(P)'
  BY <1>4 DEF Own
<1>9. WhenLost'
  BY <1>4, <1>7, <1>8 DEF IInv, WhenLost
<1>10. WhenUp' /\ WhenNew' /\ WhenOff'
  BY <1>1, <1>4, <1>6, <1>7, <1>8 DEF IInv, WhenUp, WhenNew, WhenOff, Fresh, Own
<1> QED
  BY <1>1, <1>2, <1>4, <1>6, <1>9, <1>10
     DEF IInv, WhenEnabling, WhenActive, WhenStopping, Active, Own

\* A fatal status changes nothing else.
LEMMA BreaksIInv == ASSUME NvmeAssumption, IInv, Breaks PROVE IInv'
<1>1. Types
  BY DEF IInv
<1>4. drv' = drv /\ held' = held /\ mem' = mem /\ reg' = reg /\ cache' = cache /\ stable' = stable
  BY DEF Breaks, host, drive
<1>5. ctl'.ready = ctl.ready /\ ctl'.queues = ctl.queues /\ ctl'.running = ctl.running /\ Types'
  BY <1>1, <1>4 DEF Breaks, Types
<1>6. Detached' = Detached /\ Fresh' = Fresh /\ (\A P : Own(P)' = Own(P)) /\ (\A P : Wired(P)' = Wired(P))
  BY <1>4, <1>5 DEF Detached, Fresh, Own, Wired
<1>7. Created' = Created /\ Idle' = Idle
  BY <1>4, <1>5 DEF Created, Idle, Empty, Seen
<1>8. InFlight' = InFlight
  BY <1>4, <1>5 DEF InFlight, Issued, PageOf, Empty, Seen, Queued, Fetched, Completed, Effect
<1> QED
  BY <1>4, <1>5, <1>6, <1>7, <1>8
     DEF IInv, WhenOff, WhenLost, WhenUp, WhenNew, WhenEnabling, WhenActive, WhenStopping, Trusted

\* A controller that does something is ready, and has been told the queues.
Plugged == ctl.ready /\ drv.stage \notin {"off", "disabling"} /\ ~Detached
LEMMA RestIInv ==
    ASSUME NvmeAssumption, IInv, Plugged, drv.stage # "enabling",
           drv' = drv, held' = held, reg' = reg, ctl'.ready = ctl.ready, Types',
           \A P : Own(P) /\ Wired(P) => Wired(P)',
           drv.stage \in Active => Created' /\ Trusted'
    PROVE  IInv'
<1>1. \A P : Own(P) => Own(P)'
  BY DEF Own
<1>2. WhenLost' /\ WhenUp'
  BY <1>1 DEF IInv, WhenLost, WhenUp
<1>3. WhenActive'
  BY DEF IInv, WhenActive
<1> QED
  BY <1>2, <1>3 DEF IInv, Plugged, WhenOff, WhenNew, WhenEnabling, WhenStopping

\* A command in a queue is one of the driver's.
LEMMA FetchIInv == ASSUME NvmeAssumption, IInv, NEW q \in Queue, Fetch(q) PROVE IInv'
<1> DEFINE t == ctl.queues[q]  cmd == mem[t.sq][t.head]
           x == [cmd |-> cmd, done |-> FALSE, ok |-> FALSE]
<1>1. Types /\ ctl.ready /\ t.sq # None /\ t.head # reg.bell[q]
  BY DEF IInv, Fetch
<1>2. drv' = drv /\ held' = held /\ mem' = mem /\ reg' = reg /\ cache' = cache /\ stable' = stable
  BY DEF Fetch, host, drive
<1>3. ctl' = [ctl EXCEPT !.queues[q].head = (@ + 1) % Entries, !.running = @ \cup {x}]
  BY DEF Fetch
<1>4. t \in Device /\ t.head \in 0 .. Entries - 1 /\ Entries \in Nat /\ Entries > 1
  BY <1>1 DEF Types, Device, Place, NvmeAssumption
<1>5. (t.head + 1) % Entries \in Place
  BY <1>4, NextPlace DEF Place
<1> HIDE DEF x
<1>6. /\ ctl'.ready = ctl.ready /\ ctl'.fatal = ctl.fatal /\ ctl'.running = ctl.running \cup {x}
      /\ ctl'.queues \in [Queue -> Device]
      /\ \A k \in Queue : LET u == ctl'.queues[k]  v == ctl.queues[k]
                          IN  /\ u.sq = v.sq /\ u.cq = v.cq /\ u.slot = v.slot /\ u.phase = v.phase
                              /\ u.head = IF k = q THEN (v.head + 1) % Entries ELSE v.head
  BY <1>1, <1>3, <1>4, <1>5 DEF Types, Device
<1>7. ASSUME NEW P, Own(P), Wired(P)
      PROVE  cmd = mem[P[Sq(q)]][t.head] /\ Issued(P, cmd) /\ ctl'.queues[q].head = reg.bell[q]
  BY <1>1, <1>6, <1>7 DEF Wired
<1> HIDE DEF cmd
<1>8. Plugged /\ drv.stage # "enabling"
  <2>1. ~Detached
    BY <1>1 DEF Detached, NoQueue
  <2>2. drv.stage # "enabling"
    <3>1. SUFFICES ASSUME drv.stage = "enabling" PROVE FALSE
      OBVIOUS
    <3>2. Own(drv.pages) /\ reg.bell[q] = 0 /\ ctl.queues = FreshQueues(reg.sq, reg.cq)
          /\ reg.sq = drv.pages["adminSq"] /\ reg.cq = drv.pages["adminCq"]
      BY <1>1, <3>1 DEF IInv, WhenUp, WhenEnabling
    <3>3. reg.sq \in Page /\ reg.cq \in Page
      BY <1>1, <3>2, OwnPages DEF Types, Role
    <3> QED
      BY <1>1, <3>2, <3>3, FreshQueuesValue
  <2> QED
    BY <1>1, <2>1, <2>2 DEF IInv, WhenOff, WhenNew, Plugged
<1>9. ASSUME NEW P, Own(P), Wired(P) PROVE Wired(P)'
  <2>1. x.cmd = cmd /\ Issued(P, cmd)
    BY <1>7, <1>9 DEF x
  <2>2. (\A k \in Queue : ctl.queues[k].sq \in {None, P[Sq(k)]} /\ ctl.queues[k].cq \in {None, P[Cq(k)]})'
    BY <1>6, <1>9 DEF Wired
  <2>3. (\A y \in ctl.running : Issued(P, y.cmd))'
    BY <1>6, <1>9, <2>1 DEF Wired, Issued, PageOf
  <2>4. ASSUME NEW k \in Queue, ctl'.queues[k].head # reg'.bell[k]
        PROVE  /\ Issued(P, mem'[P[Sq(k)]][ctl'.queues[k].head])
               /\ reg'.bell[k] = (ctl'.queues[k].head + 1) % Entries
    BY <1>1, <1>2, <1>6, <1>7, <1>9, <2>4 DEF Wired
  <2> QED
    BY <2>2, <2>3, <2>4 DEF Wired, Issued, PageOf
<1>10. \E P : Own(P) /\ Wired(P)
  BY <1>8 DEF IInv, Plugged, WhenLost, WhenUp
<1>11. Types'
  <2>1. cmd \in Command
    BY <1>7, <1>10 DEF Issued
  <2>2. x \in Running
    BY <2>1 DEF x, Running
  <2> QED
    BY <1>1, <1>2, <1>6, <2>2 DEF Types, Fetch
<1>12. ASSUME drv.stage \in Active PROVE Created' /\ Trusted'
  <2>1. Created /\ Trusted /\ Own(drv.pages) /\ Wired(drv.pages)
    BY <1>12 DEF IInv, WhenActive, WhenUp, Active
  <2>2. Created'
    BY <1>2, <1>6, <2>1 DEF Created, Queue
  <2>3. CASE drv.waiting = None
    <3>1. drv.failed
      BY <1>1, <2>1, <2>3 DEF Trusted, Idle, Empty
    <3> QED
      BY <1>2, <2>2, <2>3, <3>1 DEF Trusted
  <2>4. CASE drv.waiting # None
    <3>1. InFlight /\ q = drv.waiting.q /\ Queued(q)
      BY <1>1, <2>1, <2>4 DEF Trusted, InFlight, Empty, Fetched, Completed
    <3>2. cmd = drv.waiting /\ ctl'.queues[q].head = reg.bell[q]
      BY <1>7, <2>1, <3>1 DEF Queued
    <3>3. ctl'.running = {x} /\ x.cmd = drv.waiting /\ ~x.done
      BY <1>6, <3>1, <3>2 DEF Queued, x
    <3>4. Empty(q)'
      BY <1>2, <1>6, <3>1, <3>2 DEF Queued, Empty, Seen
    <3>5. Fetched(q)'
      BY <1>2, <3>3, <3>4 DEF Fetched
    <3>6. ASSUME NEW k \in Queue, k # q PROVE Empty(k)'
      BY <1>2, <1>6, <3>1, <3>6 DEF InFlight, Empty, Seen
    <3>7. InFlight'
      BY <1>2, <3>1, <3>5, <3>6 DEF InFlight, Issued, PageOf
    <3> QED
      BY <1>2, <2>1, <2>2, <2>4, <3>7 DEF Trusted
  <2> QED
    BY <2>3, <2>4
<1> QED
  BY <1>2, <1>6, <1>8, <1>9, <1>11, <1>12, RestIInv

\* A command that runs is one of the driver's.
LEMMA RunningPlugged ==
    ASSUME NvmeAssumption, IInv, NEW x \in ctl.running
    PROVE  /\ Plugged /\ drv.stage # "enabling" /\ x \in Running
           /\ \E P : Own(P) /\ Wired(P) /\ Issued(P, x.cmd)
           /\ drv.stage \in Active =>
                 /\ Created /\ Trusted /\ Own(drv.pages) /\ Wired(drv.pages)
                 /\ ~drv.failed => /\ drv.waiting # None /\ InFlight /\ Fetched(drv.waiting.q)
                                   /\ ctl.running = {x} /\ x.cmd = drv.waiting
<1>1. Types /\ ~Detached /\ ctl.ready
  BY DEF IInv, Detached
<1>2. Plugged /\ drv.stage # "enabling"
  BY <1>1 DEF IInv, Plugged, WhenOff, WhenNew, WhenEnabling
<1>3. \E P : Own(P) /\ Wired(P)
  BY <1>2 DEF IInv, Plugged, WhenLost, WhenUp
<1>4. ASSUME drv.stage \in Active
      PROVE  /\ Created /\ Trusted /\ Own(drv.pages) /\ Wired(drv.pages)
             /\ ~drv.failed => /\ drv.waiting # None /\ InFlight /\ Fetched(drv.waiting.q)
                               /\ ctl.running = {x} /\ x.cmd = drv.waiting
  <2>1. Created /\ Trusted /\ Own(drv.pages) /\ Wired(drv.pages)
    BY <1>4 DEF IInv, WhenActive, WhenUp, Active
  <2>2. ASSUME ~drv.failed PROVE drv.waiting # None /\ InFlight /\ Fetched(drv.waiting.q)
    BY <2>1, <2>2 DEF Trusted, Idle, InFlight, Queued, Completed
  <2> QED
    BY <2>1, <2>2 DEF Fetched
<1> QED
  BY <1>1, <1>2, <1>3, <1>4 DEF Wired, Types

\* What a command does, it does to the page of the data or to the queues that
\* it names.
LEMMA PerformIInv == ASSUME NvmeAssumption, IInv, NEW x \in ctl.running, Perform(x) PROVE IInv'
<1> DEFINE c == x.cmd
           made == CASE c.op = "createCq" -> [ctl.queues EXCEPT !["io"].cq = c.page]
                     [] c.op = "createSq" -> [ctl.queues EXCEPT !["io"].sq = c.page]
                     [] OTHER -> ctl.queues
<1>1. Types /\ ~x.done /\ drv' = drv /\ held' = held /\ reg' = reg
  BY DEF IInv, Perform, host
<1>2. PICK ok \in BOOLEAN :
          /\ ctl' = [ctl EXCEPT !.running = (@ \ {x}) \cup {[x EXCEPT !.done = TRUE, !.ok = ok]},
                                !.queues = IF ok THEN made ELSE @]
          /\ cache' = IF ok /\ c.op = "write" THEN mem[c.page][0] ELSE cache
          /\ stable' \in IF ok /\ c.op = "flush" THEN {cache} ELSE {stable, cache'}
          /\ mem' = IF ok /\ c.op = "read" THEN [mem EXCEPT ![c.page][0] = cache] ELSE mem
  BY DEF Perform
<1> DEFINE y == [x EXCEPT !.done = TRUE, !.ok = ok]
<1>3. x \in Running
  BY RunningPlugged
<1>4. y \in Running /\ y.cmd = c /\ y.done /\ y.ok = ok
  BY <1>3 DEF Running
<1> HIDE DEF y
<1>5. PICK R : Own(R) /\ Wired(R) /\ Issued(R, c)
  BY RunningPlugged
<1>6. /\ c.op \in {"read", "write"} => c.page = R["data"]
      /\ c.op = "createCq" => c.page = R["ioCq"]
      /\ c.op = "createSq" => c.page = R["ioSq"]
      /\ \A r \in Role : R[r] \in Page /\ R[r] # None
  BY <1>1, <1>5, OwnPages DEF Issued, PageOf, Types
<1>7. /\ made \in [Queue -> Device]
      /\ \A k \in Queue : LET u == made[k]  v == ctl.queues[k]
                          IN  /\ u.head = v.head /\ u.slot = v.slot /\ u.phase = v.phase
                              /\ u.sq = IF k = "io" /\ c.op = "createSq" THEN c.page ELSE v.sq
                              /\ u.cq = IF k = "io" /\ c.op = "createCq" THEN c.page ELSE v.cq
  <2>1. ctl.queues \in [Queue -> Device]
    BY <1>1 DEF Types
  <2>2. CASE c.op = "createCq"
    <3>1. c.page \in Page
      BY <1>6, <2>2, QueueRoles
    <3> QED
      BY <2>1, <2>2, <3>1 DEF Device, Queue
  <2>3. CASE c.op = "createSq"
    <3>1. c.page \in Page
      BY <1>6, <2>3, QueueRoles
    <3> QED
      BY <2>1, <2>3, <3>1 DEF Device, Queue
  <2>4. CASE c.op \notin {"createCq", "createSq"}
    BY <2>1, <2>4
  <2> QED
    BY <2>2, <2>3, <2>4
<1> HIDE DEF made
<1>8. /\ ctl'.ready = ctl.ready /\ ctl'.fatal = ctl.fatal
      /\ ctl'.running = (ctl.running \ {x}) \cup {y} /\ ctl'.queues \in [Queue -> Device]
      /\ \A k \in Queue : LET u == ctl'.queues[k]  v == ctl.queues[k]
                          IN  /\ u.head = v.head /\ u.slot = v.slot /\ u.phase = v.phase
                              /\ u.sq = IF ok /\ k = "io" /\ c.op = "createSq" THEN c.page ELSE v.sq
                              /\ u.cq = IF ok /\ k = "io" /\ c.op = "createCq" THEN c.page ELSE v.cq
  BY <1>1, <1>2, <1>7 DEF Types, y
<1>9. /\ mem' \in [Page -> [Place -> Cell]] /\ cache' \in Cell /\ stable' \in Cell
      /\ \A p \in Page : p # R["data"] => mem'[p] = mem[p]
      /\ ok /\ c.op = "read" => mem'[c.page][0] = cache
      /\ c.op # "read" => mem' = mem
  <2>1. c.op \in {"read", "write"} => c.page \in Page
    BY <1>6, QueueRoles
  <2> QED
    BY <1>1, <1>2, <1>6, <2>1, NoQueueTyped DEF Types
<1>10. ASSUME NEW P, Own(P), Wired(P) PROVE Wired(P)'
  <2>1. Issued(P, c) /\ Issued(P, y.cmd)
    BY <1>4, <1>10 DEF Wired
  <2>2. /\ c.op \in {"read", "write"} => c.page = P["data"]
        /\ c.op = "createCq" => c.page = P["ioCq"]
        /\ c.op = "createSq" => c.page = P["ioSq"]
    BY <2>1 DEF Issued, PageOf
  <2>3. (\A k \in Queue : ctl.queues[k].sq \in {None, P[Sq(k)]} /\ ctl.queues[k].cq \in {None, P[Cq(k)]})'
    BY <1>8, <1>10, <2>2 DEF Wired, Sq, Cq, Queue
  <2>4. (\A z \in ctl.running : Issued(P, z.cmd))'
    BY <1>8, <1>10, <2>1 DEF Wired, Issued, PageOf
  <2>5. \A k \in Queue : mem'[P[Sq(k)]] = mem[P[Sq(k)]]
    <3>1. \A k \in Queue : P[Sq(k)] \in Page /\ P[Sq(k)] # P["data"]
      BY <1>1, <1>10, OwnPages, QueueRoles DEF Types
    <3>2. CASE c.op = "read"
      BY <1>6, <1>9, <2>2, <3>1, <3>2
    <3>3. CASE c.op # "read"
      BY <1>9, <3>3
    <3> QED
      BY <3>2, <3>3
  <2>6. ASSUME ctl'.ready, NEW k \in Queue, ctl'.queues[k].head # reg'.bell[k]
        PROVE  /\ Issued(P, mem'[P[Sq(k)]][ctl'.queues[k].head])
               /\ reg'.bell[k] = (ctl'.queues[k].head + 1) % Entries
    BY <1>1, <1>8, <1>10, <2>5, <2>6 DEF Wired
  <2> QED
    BY <2>3, <2>4, <2>6 DEF Wired, Issued, PageOf
<1>11. Types'
  <2>1. ctl' = [ctl EXCEPT !.running = ctl'.running, !.queues = ctl'.queues]
    BY <1>1, <1>2 DEF Types
  <2> QED
    BY <1>1, <1>4, <1>8, <1>9, <2>1 DEF Types
<1>12. ASSUME drv.stage \in Active PROVE Created' /\ Trusted'
  <2>1. Created /\ Trusted /\ Own(drv.pages) /\ Wired(drv.pages)
    BY <1>12, RunningPlugged
  <2>2. /\ c.op \in {"read", "write"} => c.page = drv.pages["data"]
        /\ c.op = "createCq" => c.page = drv.pages["ioCq"]
        /\ c.op = "createSq" => c.page = drv.pages["ioSq"]
    BY <2>1 DEF Wired, Issued, PageOf
  <2>3. Created'
    BY <1>1, <1>8, <2>1, <2>2 DEF Created, Queue
  <2>4. CASE drv.failed
    BY <1>1, <2>1, <2>3, <2>4 DEF Trusted
  <2>5. CASE ~drv.failed
    <3>1. /\ drv.waiting # None /\ InFlight /\ Fetched(drv.waiting.q)
          /\ ctl.running = {x} /\ c = drv.waiting
      BY <1>12, <2>5, RunningPlugged
    <3>2. \A k \in Queue : mem'[drv.pages[Cq(k)]] = mem[drv.pages[Cq(k)]]
      <4>1. \A k \in Queue : drv.pages[Cq(k)] \in Page /\ drv.pages[Cq(k)] # drv.pages["data"]
        BY <1>1, <2>1, OwnPages, QueueRoles DEF Types
      <4>2. CASE c.op = "read"
        BY <1>6, <1>9, <2>2, <4>1, <4>2
      <4>3. CASE c.op # "read"
        BY <1>9, <4>3
      <4> QED
        BY <4>2, <4>3
    <3>3. \A k \in Queue : Empty(k)'
      <4>1. \A k \in Queue : Empty(k)
        BY <3>1 DEF InFlight, Fetched
      <4> QED
        BY <1>1, <1>8, <3>2, <4>1 DEF Empty, Seen
    <3>4. ASSUME ok PROVE Effect(c)'
      <4>1. c.op \in {"read", "write"} => mem'[drv.pages["data"]][0] = cache'
        BY <1>2, <1>9, <2>2, <3>4
      <4>2. c.op = "flush" => stable' = cache'
        BY <1>2, <3>4
      <4> QED
        BY <1>1, <1>8, <2>2, <3>4, <4>1, <4>2 DEF Effect, Queue
    <3>5. Fetched(drv.waiting.q)'
      <4>1. drv.waiting.q \in Queue
        BY <3>1 DEF InFlight, Issued, Command
      <4>2. ctl'.running = {y} /\ y.cmd = drv.waiting
        BY <1>4, <1>8, <3>1
      <4>3. y.ok => Effect(drv.waiting)'
        BY <1>1, <1>4, <3>1, <3>4 DEF Effect
      <4> QED
        BY <1>1, <3>3, <4>1, <4>2, <4>3 DEF Fetched
    <3>6. InFlight'
      BY <1>1, <3>1, <3>3, <3>5 DEF InFlight, Issued, PageOf
    <3> QED
      BY <1>1, <2>1, <2>3, <3>1, <3>6 DEF Trusted
  <2> QED
    BY <2>3, <2>4, <2>5
<1> QED
  BY <1>1, <1>8, <1>10, <1>11, <1>12, RestIInv, RunningPlugged

\* A completion goes to its place in the completion queue and nowhere else.
LEMMA PostIInv == ASSUME NvmeAssumption, IInv, NEW x \in ctl.running, Post(x) PROVE IInv'
<1> DEFINE c == x.cmd  q == c.q  t == ctl.queues[q]
<1>1. Types /\ x.done /\ drv' = drv /\ held' = held /\ reg' = reg /\ cache' = cache /\ stable' = stable
  BY DEF IInv, Post, host, drive
<1>2. PICK cid \in {c.cid, (c.cid + Cids - 1) % Cids} :
          /\ mem' = [mem EXCEPT ![t.cq][t.slot] = [cid |-> cid, ok |-> x.ok, phase |-> t.phase]]
          /\ ctl' = [ctl EXCEPT !.running = @ \ {x},
                       !.queues[q].slot = (t.slot + 1) % Entries,
                       !.queues[q].phase = IF (t.slot + 1) % Entries = 0 THEN 1 - @ ELSE @]
  BY DEF Post
<1> DEFINE e == [cid |-> cid, ok |-> x.ok, phase |-> t.phase]
<1>3. x \in Running /\ c \in Command /\ q \in Queue /\ t \in Device
  BY <1>1, RunningPlugged DEF Running, Command, Types
<1>4. /\ e \in Completion /\ e.ok = x.ok /\ e.phase = t.phase
  <2>1. cid \in 0 .. Cids - 1
    BY <1>2, <1>3, OtherCid DEF Command, NvmeAssumption
  <2> QED
    BY <1>3, <2>1 DEF Completion, Running, Device
<1> HIDE DEF e
<1>5. (t.slot + 1) % Entries \in Place /\ t.slot \in Place
  BY <1>3, NextPlace DEF Device, Place, NvmeAssumption
<1>6. /\ ctl'.ready = ctl.ready /\ ctl'.running = ctl.running \ {x}
      /\ ctl'.queues \in [Queue -> Device]
      /\ \A k \in Queue : LET u == ctl'.queues[k]  v == ctl.queues[k]
                          IN  /\ u.sq = v.sq /\ u.cq = v.cq /\ u.head = v.head
                              /\ k # q => u = v
                              /\ k = q => /\ u.slot = (v.slot + 1) % Entries
                                          /\ u.phase = IF (v.slot + 1) % Entries = 0 THEN 1 - v.phase
                                                       ELSE v.phase
      /\ ctl' = [ctl EXCEPT !.running = ctl'.running, !.queues = ctl'.queues]
  <2> DEFINE s == (t.slot + 1) % Entries
             f == IF s = 0 THEN 1 - t.phase ELSE t.phase
             n == [t EXCEPT !.slot = s, !.phase = f]
  <2>1. n \in Device /\ n.sq = t.sq /\ n.cq = t.cq /\ n.head = t.head /\ n.slot = s /\ n.phase = f
    <3>1. f \in {0, 1}
      BY <1>3 DEF Device
    <3> HIDE DEF s, f
    <3> QED
      BY <1>3, <1>5, <3>1 DEF Device, s
  <2>2. ctl' = [ctl EXCEPT !.running = @ \ {x}, !.queues = [@ EXCEPT ![q] = n]]
    BY <1>1, <1>2, <1>3, ZenonT(40) DEF Types, Device
  <2> HIDE DEF n
  <2>3. ctl'.queues = [ctl.queues EXCEPT ![q] = n] /\ ctl'.ready = ctl.ready
        /\ ctl'.running = ctl.running \ {x}
        /\ ctl' = [ctl EXCEPT !.running = ctl'.running, !.queues = ctl'.queues]
    BY <1>1, <2>2 DEF Types
  <2>4. ctl.queues \in [Queue -> Device]
    BY <1>1 DEF Types
  <2> HIDE DEF s, f
  <2>5. /\ ctl'.queues \in [Queue -> Device] /\ ctl'.queues[q] = n
        /\ \A k \in Queue \ {q} : ctl'.queues[k] = ctl.queues[k]
    BY <1>3, <2>1, <2>3, <2>4
  <2> QED
    BY <2>1, <2>3, <2>5 DEF s, f
<1>7. /\ mem' \in [Page -> [Place -> Cell]]
      /\ \A p \in Page : p # t.cq => mem'[p] = mem[p]
      /\ t.cq \in Page => /\ mem'[t.cq][t.slot] = e
                          /\ \A i \in Place \ {t.slot} : mem'[t.cq][i] = mem[t.cq][i]
  <2>1. mem' = [mem EXCEPT ![t.cq][t.slot] = e]
    BY <1>2 DEF e
  <2>2. e \in Cell
    BY <1>4 DEF Cell
  <2> QED
    BY <1>1, <1>5, <2>1, <2>2 DEF Types
<1>8. ASSUME NEW P, Own(P), Wired(P) PROVE Wired(P)'
  <2>1. t.cq \in {None, P[Cq(q)]}
    BY <1>3, <1>8 DEF Wired
  <2>2. (\A k \in Queue : ctl.queues[k].sq \in {None, P[Sq(k)]} /\ ctl.queues[k].cq \in {None, P[Cq(k)]})'
    BY <1>6, <1>8 DEF Wired
  <2>3. (\A z \in ctl.running : Issued(P, z.cmd))'
    BY <1>6, <1>8 DEF Wired, Issued, PageOf
  <2>4. \A k \in Queue : mem'[P[Sq(k)]] = mem[P[Sq(k)]]
    BY <1>1, <1>3, <1>7, <1>8, <2>1, OwnPages, QueueRoles DEF Types
  <2>5. ASSUME ctl'.ready, NEW k \in Queue, ctl'.queues[k].head # reg'.bell[k]
        PROVE  /\ Issued(P, mem'[P[Sq(k)]][ctl'.queues[k].head])
               /\ reg'.bell[k] = (ctl'.queues[k].head + 1) % Entries
    BY <1>1, <1>6, <1>8, <2>4, <2>5 DEF Wired
  <2> QED
    BY <2>2, <2>3, <2>5 DEF Wired, Issued, PageOf
<1>9. Types'
  BY <1>1, <1>6, <1>7 DEF Types
<1>10. ASSUME drv.stage \in Active PROVE Created' /\ Trusted'
  <2>1. Created /\ Trusted /\ Own(drv.pages) /\ Wired(drv.pages)
    BY <1>10, RunningPlugged
  <2>2. Created'
    BY <1>1, <1>6, <2>1 DEF Created, Queue
  <2>3. CASE drv.failed
    BY <1>1, <2>1, <2>2, <2>3 DEF Trusted
  <2>4. CASE ~drv.failed
    <3>1. /\ drv.waiting # None /\ InFlight /\ Fetched(q)
          /\ ctl.running = {x} /\ c = drv.waiting
      BY <1>10, <2>4, RunningPlugged
    <3>2. t.cq = drv.pages[Cq(q)] /\ t.cq \in Page
      <4>1. q = "io" => drv.stage = "ready"
        BY <2>1, <3>1 DEF Created
      <4>2. t.cq = drv.pages[Cq(q)]
        BY <1>3, <2>1, <4>1 DEF Created, Queue, Cq
      <4> QED
        BY <1>1, <1>3, <2>1, <4>2, OwnPages, QueueRoles DEF Types
    <3>3. mem'[drv.pages["data"]] = mem[drv.pages["data"]]
      BY <1>1, <1>3, <1>7, <2>1, <3>2, OwnPages, QueueRoles DEF Types
    <3>4. \A k \in Queue \ {q} : Empty(k)'
      <4>1. ASSUME NEW k \in Queue, k # q PROVE mem'[drv.pages[Cq(k)]] = mem[drv.pages[Cq(k)]]
        BY <1>1, <1>3, <1>7, <2>1, <3>2, <4>1, OwnPages, QueueRoles DEF Types
      <4>2. \A k \in Queue \ {q} : Empty(k)
        BY <3>1 DEF InFlight
      <4> QED
        BY <1>1, <1>6, <4>1, <4>2 DEF Empty, Seen
    <3>5. /\ t.head = reg.bell[q] /\ t.slot = drv.rings[q].head /\ t.phase = drv.rings[q].phase
          /\ \A i \in Place : Seen(q, i) /\ (x.ok => Effect(c))
      BY <1>1, <3>1 DEF Fetched, Empty
    <3>6. (\A i \in Place \ {drv.rings[q].head} : Seen(q, i))'
      <4> DEFINE P == drv.pages[Cq(q)]
                 h == drv.rings[q].head
                 Other == Place \ {h}
      <4>1. drv' = drv /\ P \in Page /\ t.cq = P /\ t.slot = h
        BY <1>1, <3>2, <3>5
      <4>2. \A i \in Other : mem'[P][i] = mem[P][i]
        <5> HIDE DEF t, P, h
        <5> QED
          BY <1>7, <4>1
      <4>3. \A i \in Other : Seen(q, i)
        BY <3>5
      <4>4. ASSUME NEW i \in Other PROVE Seen(q, i)'
        <5>1. mem'[drv'.pages[Cq(q)]][i] = mem[drv.pages[Cq(q)]][i]
          BY <4>1, <4>2
        <5> HIDE DEF q, P, h, Other
        <5> QED
          BY <4>1, <4>3, <5>1 DEF Seen
      <4> HIDE DEF q
      <4> QED
        BY <4>1, <4>4
    <3>7. x.ok => Effect(c)'
      BY <1>1, <1>5, <1>6, <3>3, <3>5 DEF Effect, Queue
    <3>8. Completed(q)'
      <4>1. ctl'.running = {}
        BY <1>6, <3>1
      <4>2. mem'[drv'.pages[Cq(q)]][drv'.rings[q].head] = e
        BY <1>1, <1>7, <3>2, <3>5
      <4>3. e \in Completion /\ e.phase = drv'.rings[q].phase /\ (e.ok => Effect(drv.waiting)')
        BY <1>1, <1>4, <3>1, <3>5, <3>7 DEF Effect
      <4> QED
        <5> DEFINE h == drv.rings[q].head
                   u == ctl'.queues[q]
                   s == (h + 1) % Entries
        <5>1. drv' = drv /\ reg' = reg /\ drv.rings[q].head = h /\ drv.rings[q].phase = t.phase
          BY <1>1, <3>5
        <5>2. u.head = reg.bell[q] /\ u.slot = s /\ u.phase = IF s = 0 THEN 1 - t.phase ELSE t.phase
          <6>1. /\ ctl'.queues[q].head = ctl.queues[q].head
                /\ ctl'.queues[q].slot = (ctl.queues[q].slot + 1) % Entries
                /\ ctl'.queues[q].phase = IF (ctl.queues[q].slot + 1) % Entries = 0 THEN 1 - ctl.queues[q].phase
                                          ELSE ctl.queues[q].phase
            <7> HIDE DEF q
            <7> QED
              BY <1>3, <1>6
          <6> QED
            BY <3>5, <6>1
        <5> HIDE DEF q, t, h, s, u
        <5>3. ctl'.queues[q].head = reg'.bell[q] /\ ctl'.queues[q].slot = (drv'.rings[q].head + 1) % Entries
              /\ ctl'.queues[q].phase = IF (drv'.rings[q].head + 1) % Entries = 0 THEN 1 - drv'.rings[q].phase
                                        ELSE drv'.rings[q].phase
          BY <5>1, <5>2 DEF u, s
        <5> QED
          BY <3>6, <4>1, <4>2, <4>3, <5>1, <5>3 DEF Completed
    <3>9. InFlight'
      BY <1>1, <3>1, <3>4, <3>8 DEF InFlight, Issued, PageOf
    <3> QED
      BY <1>1, <2>1, <2>2, <3>1, <3>9 DEF Trusted
  <2> QED
    BY <2>3, <2>4
<1> QED
  BY <1>1, <1>6, <1>8, <1>9, <1>10, RestIInv, RunningPlugged

-----------------------------------------------------------------------------
(***************************************************************************)
(* One command after the other                                             *)
(***************************************************************************)

\* A stage of the driver that has commands keeps its pages and its registers.
LEMMA ActiveParts ==
    ASSUME NvmeAssumption, IInv, drv.stage \in Active
    PROVE  /\ Types /\ reg.enable /\ ctl.ready /\ Created /\ Trusted
           /\ Own(drv.pages) /\ Wired(drv.pages)
           /\ \A q \in Queue : drv.rings[q].tail = reg.bell[q]
BY DEF IInv, WhenActive, WhenUp, Active
LEMMA ActiveIInv ==
    ASSUME NvmeAssumption, IInv, drv.stage \in Active, drv'.stage \in Active, drv'.pages = drv.pages,
           held' = held, ctl' = ctl, reg'.enable, Types', Wired(drv.pages)',
           Created' /\ Trusted', (\A q \in Queue : drv.rings[q].tail = reg.bell[q])'
    PROVE  IInv'
<1>1. Own(drv.pages)'
  BY ActiveParts DEF Own
<1> QED
  BY <1>1, ActiveParts DEF IInv, WhenOff, WhenLost, WhenUp, WhenNew, WhenEnabling, WhenActive,
                           WhenStopping, Active

\* The next command goes to the next place of a queue that is empty.
LEMMA SubmitIInv ==
    ASSUME NvmeAssumption, IInv, drv.stage \in Active,
           NEW stage \in Active, NEW op \in Ops, NEW q \in Queue, NEW page, NEW value \in {None} \cup Cell,
           q = IF op \in {"read", "write", "flush"} THEN "io" ELSE "admin",
           page = PageOf(drv.pages, op),
           q = "io" => stage = "ready",
           stage = "createSq" => op = "createCq", stage = "identify" => op = "createSq",
           stage \in {"identify", "list", "scan", "ready"} => ctl.queues["io"].cq = drv.pages["ioCq"],
           stage \in {"list", "scan", "ready"} => ctl.queues["io"].sq = drv.pages["ioSq"],
           Submit([drv EXCEPT !.stage = stage], q, op, page, value),
           held' = held, ctl' = ctl, cache' = cache, stable' = stable
    PROVE  IInv'
<1> DEFINE r == drv.rings[q]
           cid == (r.cid + 1) % Cids
           next == (r.tail + 1) % Entries
           cmd == [op |-> op, page |-> page, cid |-> cid, q |-> q]
<1>1. /\ Types /\ reg.enable /\ ctl.ready /\ Created /\ Trusted
      /\ Own(drv.pages) /\ Wired(drv.pages)
      /\ \A k \in Queue : drv.rings[k].tail = reg.bell[k]
  BY ActiveParts
<1>2. /\ drv \in Host /\ r \in Ring /\ r.tail \in 0 .. Entries - 1 /\ Entries \in Nat /\ Entries > 1
      /\ r.cid \in 0 .. Cids - 1 /\ Cids \in Nat /\ Cids > 1
  BY <1>1 DEF Types, Host, Ring, Place, NvmeAssumption
<1>3. next \in Place /\ next # r.tail /\ cid \in 0 .. Cids - 1
  BY <1>2, NextPlace DEF Place
<1>4. ~drv.failed /\ drv.waiting = None
  BY <1>2 DEF Submit, Host
<1>5. Idle
  BY <1>1, <1>4 DEF Trusted
<1>6. cmd \in Command /\ Issued(drv.pages, cmd) /\ cmd # None
  <2>1. page \in Page \cup {None}
    BY <1>1, OwnPages, QueueRoles DEF PageOf, Types, Ops
  <2>2. cmd \in Command /\ cmd.page = page /\ cmd.op = op /\ cmd.q = q
    BY <1>3, <2>1 DEF Command
  <2> QED
    BY <2>2 DEF Issued, NvmeAssumption
<1>7. /\ drv' = [drv EXCEPT !.stage = stage,
                            !.rings = [drv.rings EXCEPT ![q] = [r EXCEPT !.cid = cid, !.tail = next]],
                            !.waiting = cmd, !.answer = None]
      /\ reg' = [reg EXCEPT !.bell[q] = next]
      /\ mem' = [mem EXCEPT ![drv.pages[Sq(q)]][r.tail] = cmd,
                            ![drv.pages["data"]][0] = IF value = None THEN @ ELSE value]
  <2> DEFINE d == [drv EXCEPT !.stage = stage]
  <2>1. d.rings = drv.rings /\ d.pages = drv.pages /\ d = [drv EXCEPT !.stage = stage]
    BY <1>2 DEF Host
  <2> HIDE DEF d
  <2>2. /\ reg' = [reg EXCEPT !.bell[q] = next]
        /\ mem' = [mem EXCEPT ![drv.pages[Sq(q)]][r.tail] = cmd,
                              ![drv.pages["data"]][0] = IF value = None THEN @ ELSE value]
    <3>1. /\ reg' = [reg EXCEPT !.bell[q] = (d.rings[q].tail + 1) % Entries]
          /\ mem' = [mem EXCEPT ![d.pages[Sq(q)]][d.rings[q].tail] =
                                    [op |-> op, page |-> page, cid |-> (d.rings[q].cid + 1) % Cids, q |-> q],
                                ![d.pages["data"]][0] = IF value = None THEN @ ELSE value]
      BY Zenon DEF Submit, d
    <3>2. /\ d.pages = drv.pages /\ d.rings[q].tail = r.tail /\ (d.rings[q].tail + 1) % Entries = next
          /\ [op |-> op, page |-> page, cid |-> (d.rings[q].cid + 1) % Cids, q |-> q] = cmd
      BY <2>1
    <3> HIDE DEF cmd, next, cid, r
    <3> QED
      BY <3>1, <3>2
  <2>3. drv' = [d EXCEPT !.rings[q].cid = cid, !.rings[q].tail = next, !.waiting = cmd, !.answer = None]
    BY <2>1 DEF Submit, d
  <2>4. drv.rings \in [Queue -> Ring]
    BY <1>2 DEF Host
  <2> HIDE DEF cmd, next, cid
  <2>5. drv' = [drv EXCEPT !.stage = stage,
                           !.rings = [drv.rings EXCEPT ![q] = [r EXCEPT !.cid = cid, !.tail = next]],
                           !.waiting = cmd, !.answer = None]
    <3>1. d \in Host
      <4>1. stage \in Stages
        BY DEF Active, Stages
      <4> QED
        BY <1>2, <4>1 DEF d, Host
    <3>2. drv' = [d EXCEPT !.rings = [drv.rings EXCEPT ![q].cid = cid, ![q].tail = next],
                           !.waiting = cmd, !.answer = None]
      BY <2>1, <2>3, <3>1, ZenonT(40) DEF Host
    <3>3. [drv.rings EXCEPT ![q].cid = cid, ![q].tail = next]
             = [drv.rings EXCEPT ![q] = [r EXCEPT !.cid = cid, !.tail = next]]
      BY <2>4 DEF Ring
    <3> QED
      BY <1>2, <2>1, <3>2, <3>3 DEF Host
  <2> QED
    BY <2>2, <2>5
<1> HIDE DEF cmd, next, cid
<1>8. /\ drv' \in Host /\ drv'.stage = stage /\ drv'.pages = drv.pages /\ drv'.waiting = cmd
      /\ drv'.answer = None /\ ~drv'.failed
      /\ drv'.rings[q].cid = cid /\ drv'.rings[q].tail = next
      /\ \A k \in Queue : /\ drv'.rings[k].head = drv.rings[k].head
                          /\ drv'.rings[k].phase = drv.rings[k].phase
                          /\ k # q => drv'.rings[k] = drv.rings[k]
  <2>1. stage \in Stages
    BY DEF Active, Stages
  <2> DEFINE n == [r EXCEPT !.cid = cid, !.tail = next]
             rings == [drv.rings EXCEPT ![q] = n]
  <2>2. n \in Ring /\ n.cid = cid /\ n.tail = next /\ n.head = r.head /\ n.phase = r.phase
    BY <1>2, <1>3 DEF Ring, Place
  <2>3. drv' = [drv EXCEPT !.stage = stage, !.rings = rings, !.waiting = cmd, !.answer = None]
    BY <1>7
  <2> HIDE DEF n
  <2>4. rings \in [Queue -> Ring] /\ rings[q] = n /\ \A k \in Queue \ {q} : rings[k] = drv.rings[k]
    BY <1>2, <2>2 DEF Host
  <2> HIDE DEF rings
  <2>5. /\ drv' \in Host /\ drv'.stage = stage /\ drv'.pages = drv.pages /\ drv'.waiting = cmd
        /\ drv'.answer = None /\ ~drv'.failed /\ drv'.rings = rings
    BY <1>2, <1>4, <1>6, <2>1, <2>3, <2>4 DEF Host
  <2> QED
    BY <2>2, <2>4, <2>5
<1>9. /\ reg' \in Registers /\ reg'.enable /\ reg'.bell[q] = next
      /\ \A k \in Queue \ {q} : reg'.bell[k] = reg.bell[k]
  BY <1>1, <1>3, <1>7 DEF Types, Registers
<1>10. /\ mem' \in [Page -> [Place -> Cell]]
       /\ mem'[drv.pages[Sq(q)]][r.tail] = cmd
       /\ \A k \in Queue : mem'[drv.pages[Cq(k)]] = mem[drv.pages[Cq(k)]]
       /\ \A k \in Queue \ {q} : mem'[drv.pages[Sq(k)]] = mem[drv.pages[Sq(k)]]
  <2>1. /\ drv.pages[Sq(q)] \in Page /\ drv.pages["data"] \in Page /\ drv.pages[Sq(q)] # drv.pages["data"]
        /\ \A k \in Queue : drv.pages[Cq(k)] \in Page /\ drv.pages[Cq(k)] # drv.pages[Sq(q)]
                            /\ drv.pages[Cq(k)] # drv.pages["data"]
        /\ \A k \in Queue \ {q} : drv.pages[Sq(k)] \in Page /\ drv.pages[Sq(k)] # drv.pages[Sq(q)]
                            /\ drv.pages[Sq(k)] # drv.pages["data"]
    BY <1>1, OwnPages, QueueRoles DEF Types
  <2>2. cmd \in Cell /\ 0 \in Place /\ r.tail \in Place /\ mem \in [Page -> [Place -> Cell]]
    BY <1>1, <1>2, <1>6, NoQueueTyped DEF Cell, Place, Types
  <2> DEFINE s == drv.pages[Sq(q)]  d == drv.pages["data"]
  <2> HIDE DEF s, d
  <2>3. mem' = [mem EXCEPT ![s][r.tail] = cmd, ![d][0] = IF value = None THEN @ ELSE value]
    BY <1>7 DEF s, d
  <2>4. s \in Page /\ d \in Page /\ s # d
    BY <2>1 DEF s, d
  <2>5. /\ mem' \in [Page -> [Place -> Cell]] /\ mem'[s][r.tail] = cmd
        /\ \A p \in Page \ {s, d} : mem'[p] = mem[p]
    BY <2>2, <2>3, <2>4
  <2> QED
    BY <2>1, <2>5 DEF s, d
<1>11. Types'
  BY <1>1, <1>8, <1>9, <1>10 DEF Types
<1>12. /\ ctl.running = {} /\ ctl.queues[q].head = r.tail
       /\ \A k \in Queue : ctl.queues[k].head = reg.bell[k]
  BY <1>1, <1>5 DEF Idle, Empty
<1>13. Wired(drv.pages)'
  <2>1. (\A k \in Queue : ctl.queues[k].sq \in {None, drv.pages[Sq(k)]}
                          /\ ctl.queues[k].cq \in {None, drv.pages[Cq(k)]})'
    BY <1>1, <1>8 DEF Wired
  <2>2. ASSUME NEW k \in Queue, ctl.queues[k].head # reg'.bell[k]
        PROVE  k = q /\ mem'[drv.pages[Sq(k)]][ctl.queues[k].head] = cmd
    BY <1>9, <1>10, <1>12, <2>2
  <2>3. (\A k \in Queue : ctl.queues[k].head # reg.bell[k] =>
          /\ Issued(drv.pages, mem[drv.pages[Sq(k)]][ctl.queues[k].head])
          /\ reg.bell[k] = (ctl.queues[k].head + 1) % Entries)'
    <3>1. SUFFICES ASSUME NEW k \in Queue, ctl.queues[k].head # reg'.bell[k]
                   PROVE  (/\ Issued(drv.pages, mem[drv.pages[Sq(k)]][ctl.queues[k].head])
                           /\ reg.bell[k] = (ctl.queues[k].head + 1) % Entries)'
      OBVIOUS
    <3>2. mem'[drv'.pages[Sq(k)]][ctl'.queues[k].head] = cmd /\ drv'.pages = drv.pages
      BY <1>8, <2>2, <3>1
    <3>3. reg'.bell[k] = (ctl'.queues[k].head + 1) % Entries
      BY <1>9, <1>12, <2>2, <3>1 DEF next
    <3> QED
      BY <1>6, <3>2, <3>3 DEF Issued, PageOf
  <2> QED
    BY <1>12, <2>1, <2>3 DEF Wired
<1>14. Created'
  BY <1>1, <1>6, <1>8, NvmeAssumption DEF Created, cmd, NvmeAssumption, Ops
<1>15. Trusted'
  <2>1. \A k \in Queue, i \in Place : Seen(k, i)'
    <3>1. \A k \in Queue, i \in Place : Seen(k, i)
      BY <1>5 DEF Idle, Empty
    <3> QED
      BY <1>8, <1>10, <3>1, SMTT(30) DEF Seen
  <2>2. \A k \in Queue : ctl.queues[k].slot = drv'.rings[k].head /\ ctl.queues[k].phase = drv'.rings[k].phase
    BY <1>5, <1>8 DEF Idle, Empty
  <2>3. \A k \in Queue \ {q} : Empty(k)'
    BY <1>9, <1>12, <2>1, <2>2 DEF Empty
  <2>4. Queued(q)'
    BY <1>1, <1>3, <1>8, <1>9, <1>10, <1>12, <2>1, <2>2 DEF Queued
  <2>5. cmd.q = q /\ cmd.cid = cid
    BY DEF cmd
  <2>6. InFlight'
    BY <1>6, <1>8, <2>3, <2>4, <2>5 DEF InFlight, Issued, PageOf
  <2> QED
    BY <1>6, <1>8, <2>5, <2>6 DEF Trusted
<1>16. (\A k \in Queue : drv.rings[k].tail = reg.bell[k])'
  BY <1>1, <1>8, <1>9
<1> QED
  BY <1>8, <1>9, <1>11, <1>13, <1>14, <1>15, <1>16, ActiveIInv

\* The commands of nvme_open, in order.
LEMMA SetupIInv == ASSUME NvmeAssumption, IInv, Setup PROVE IInv'
<1> USE DEF Ask, drive
<1>1. /\ None \notin {"features", "createCq", "createSq", "identify", "ioCq", "ioSq", "data", "list"}
      /\ Zero \in {None} \cup Cell
  BY DEF NvmeAssumption, Ops, Role, Cell
<1>2. CASE Ask("features", "features", None, "createCq")
  <2>1. drv.stage \in Active /\ "createCq" \in Active /\ "features" \in Ops /\ "admin" \in Queue
    BY <1>2 DEF Active, Ops, Queue
  <2>2. PageOf(drv.pages, "features") = None
    BY DEF PageOf
  <2> QED
    BY <1>1, <1>2, <2>1, <2>2, SubmitIInv
<1>3. CASE drv.answer = "features" /\ Ask("createCq", "createCq", "ioCq", "createSq")
  <2>1. drv.stage \in Active /\ "createSq" \in Active /\ "createCq" \in Ops /\ "admin" \in Queue
    BY <1>3 DEF Active, Ops, Queue
  <2>2. PageOf(drv.pages, "createCq") = drv.pages["ioCq"]
    BY DEF PageOf
  <2> QED
    BY <1>1, <1>3, <2>1, <2>2, SubmitIInv
<1>4. CASE drv.answer = "createCq" /\ Ask("createSq", "createSq", "ioSq", "identify")
  <2>1. drv.stage \in Active /\ "identify" \in Active /\ "createSq" \in Ops /\ "admin" \in Queue
    BY <1>4 DEF Active, Ops, Queue
  <2>2. PageOf(drv.pages, "createSq") = drv.pages["ioSq"]
    BY DEF PageOf
  <2>3. ctl.queues["io"].cq = drv.pages["ioCq"]
    BY <1>4, <2>1, ActiveParts DEF Created
  <2> QED
    BY <1>1, <1>4, <2>1, <2>2, <2>3, SubmitIInv
<1>5. CASE drv.answer = "createSq" /\ Ask("identify", "identify", "data", "list")
  <2>1. drv.stage \in Active /\ "list" \in Active /\ "identify" \in Ops /\ "admin" \in Queue
    BY <1>5 DEF Active, Ops, Queue
  <2>2. PageOf(drv.pages, "identify") = drv.pages["data"]
    BY DEF PageOf
  <2>3. ctl.queues["io"].cq = drv.pages["ioCq"] /\ ctl.queues["io"].sq = drv.pages["ioSq"]
    BY <1>5, <2>1, ActiveParts DEF Created
  <2> QED
    BY <1>1, <1>5, <2>1, <2>2, <2>3, SubmitIInv
<1>6. CASE drv.answer = "identify" /\ Ask("list", "list", "list", "scan")
  <2>1. drv.stage \in Active /\ "scan" \in Active /\ "list" \in Ops /\ "admin" \in Queue
    BY <1>6 DEF Active, Ops, Queue
  <2>2. PageOf(drv.pages, "list") = drv.pages["list"]
    BY DEF PageOf
  <2>3. ctl.queues["io"].cq = drv.pages["ioCq"] /\ ctl.queues["io"].sq = drv.pages["ioSq"]
    BY <1>6, <2>1, ActiveParts DEF Created
  <2> QED
    BY <1>1, <1>6, <2>1, <2>2, <2>3, SubmitIInv
<1>7. CASE Ask("scan", "namespace", "data", "scan")
  <2>1. drv.stage \in Active /\ "scan" \in Active /\ "namespace" \in Ops /\ "admin" \in Queue
    BY <1>7 DEF Active, Ops, Queue
  <2>2. PageOf(drv.pages, "namespace") = drv.pages["data"]
    BY DEF PageOf
  <2>3. ctl.queues["io"].cq = drv.pages["ioCq"] /\ ctl.queues["io"].sq = drv.pages["ioSq"]
    BY <1>7, <2>1, ActiveParts DEF Created
  <2> QED
    BY <1>1, <1>7, <2>1, <2>2, <2>3, SubmitIInv
<1> QED
  BY <1>2, <1>3, <1>4, <1>5, <1>6, <1>7 DEF Setup

\* The calls of the disk layer.
LEMMA CallIInv ==
    ASSUME NvmeAssumption, IInv, NEW op \in {"read", "write", "flush"}, NEW value \in {None} \cup Cell,
           Call(op, value)
    PROVE  IInv'
<1>1. /\ drv.stage = "ready" /\ "ready" \in Active /\ op \in Ops /\ "io" \in Queue
      /\ Submit(drv, "io", op, IF op = "flush" THEN None ELSE drv.pages["data"], value)
      /\ held' = held /\ ctl' = ctl /\ cache' = cache /\ stable' = stable
  BY DEF Call, Active, Ops, Queue, drive
<1>2. drv = [drv EXCEPT !.stage = "ready"]
  BY <1>1, ActiveParts DEF Types, Host
<1>3. PageOf(drv.pages, op) = IF op = "flush" THEN None ELSE drv.pages["data"]
  BY DEF PageOf
<1>4. ctl.queues["io"].cq = drv.pages["ioCq"] /\ ctl.queues["io"].sq = drv.pages["ioSq"]
  BY <1>1, ActiveParts DEF Created
<1> QED
  BY <1>1, <1>2, <1>3, <1>4, SubmitIInv

\* The namespace is found, or the driver gives up between two commands.
LEMMA SelectIInv == ASSUME NvmeAssumption, IInv, Select PROVE IInv'
<1>1. /\ drv.stage = "scan" /\ drv.waiting = None /\ drv' = [drv EXCEPT !.stage = "ready", !.online = TRUE]
      /\ held' = held /\ mem' = mem /\ reg' = reg /\ ctl' = ctl /\ cache' = cache /\ stable' = stable
  BY DEF Select, drive
<1>2. /\ Types /\ reg.enable /\ Created /\ Trusted /\ Wired(drv.pages)
      /\ \A q \in Queue : drv.rings[q].tail = reg.bell[q]
  BY <1>1, ActiveParts DEF Active
<1>3. /\ drv'.stage = "ready" /\ drv'.pages = drv.pages /\ drv'.waiting = None /\ drv'.rings = drv.rings
      /\ drv'.failed = drv.failed /\ drv'.answer = drv.answer /\ drv' \in Host
  BY <1>1, <1>2 DEF Types, Host, Stages
<1>4. Types' /\ Wired(drv.pages)' /\ Created'
  BY <1>1, <1>2, <1>3 DEF Types, Wired, Created
<1>5. Trusted'
  BY <1>1, <1>2, <1>3 DEF Trusted, Idle, Empty, Seen
<1> QED
  BY <1>1, <1>2, <1>3, <1>4, <1>5, ActiveIInv DEF Active

LEMMA GiveUpIInv == ASSUME NvmeAssumption, IInv, GiveUp PROVE IInv'
<1>1. /\ drv.stage \in Active /\ drv.waiting = None /\ Release(drv)
      /\ held' = held /\ mem' = mem /\ ctl' = ctl /\ cache' = cache /\ stable' = stable
  BY DEF GiveUp, drive, Active
<1>2. /\ Types /\ Own(drv.pages) /\ Wired(drv.pages) /\ ctl.ready
  BY <1>1, ActiveParts
<1>3. /\ drv'.stage = "stopping" /\ drv'.pages = drv.pages /\ drv'.waiting = None /\ drv' \in Host
      /\ reg' \in Registers /\ ~reg'.enable /\ reg'.bell = reg.bell
  BY <1>1, <1>2, ReleaseTyped DEF Types
<1>4. Types' /\ (Own(drv.pages) /\ Wired(drv.pages))'
  BY <1>1, <1>2, <1>3 DEF Types, Own, Wired
<1> QED
  BY <1>1, <1>2, <1>3, <1>4 DEF IInv, WhenOff, WhenLost, WhenUp, WhenNew, WhenEnabling, WhenActive,
                                WhenStopping, Active

\* Only a stage with commands waits for one.
LEMMA WaitingActive ==
    ASSUME NvmeAssumption, IInv, drv.waiting # None
    PROVE  /\ drv.stage \in Active /\ ~drv.failed /\ drv.answer = None /\ InFlight
           /\ drv.waiting.q \in Queue /\ drv.waiting \in Command
<1>1. drv.stage \in Active
  <2>1. drv.stage \in Stages
    BY DEF IInv, Types, Host
  <2>2. Off.waiting = None /\ [Off EXCEPT !.stage = "lost"].waiting = None /\ Fresh.waiting = None
    BY DEF Off, Fresh
  <2>3. drv.stage \notin {"off", "lost", "disabling", "enabling", "stopping"}
    BY <2>2 DEF IInv, WhenOff, WhenLost, WhenNew, WhenStopping
  <2> QED
    BY <2>1, <2>3 DEF Stages, Active
<1> QED
  BY <1>1, ActiveParts DEF Trusted, InFlight, Issued, Command

\* A completion that the driver finds is that of its command.
LEMMA PostedCompleted ==
    ASSUME NvmeAssumption, IInv, drv.waiting # None, Posted(drv.waiting.q)
    PROVE  Completed(drv.waiting.q)
<1> DEFINE q == drv.waiting.q  h == drv.rings[q].head
<1>1. InFlight /\ Types /\ q \in Queue
  BY WaitingActive DEF IInv
<1>2. h \in 0 .. Entries - 1 /\ drv.rings[q].phase \in {0, 1}
  BY <1>1 DEF Types, Host, Ring, Place
<1>3. ~Seen(q, h)
  <2> DEFINE c == mem[drv.pages[Cq(q)]][h]
             f == drv.rings[q].phase
  <2>1. c # Zero /\ c.phase = f
    BY DEF Posted
  <2>2. f # 1 - f /\ ~(h < h)
    <3> HIDE DEF h
    <3> QED
      BY <1>2
  <2> HIDE DEF c, q, h, f
  <2>3. ~(c = Zero \/ (c \in Completion /\ c.phase = IF h < h THEN f ELSE 1 - f))
    BY <2>1, <2>2
  <2> QED
    BY <2>3, Zenon DEF Seen, c, f, h, q
<1>4. ~Queued(q) /\ ~Fetched(q)
  BY <1>2, <1>3 DEF Queued, Fetched, Empty, Place
<1> QED
  BY <1>1, <1>4 DEF InFlight

\* The queue without its first completion.
LEMMA PoppedRing ==
    ASSUME NvmeAssumption, Types, NEW w \in Queue
    PROVE  LET h == drv.rings[w].head
               n == (h + 1) % Entries
               R == Popped(w).rings
           IN  /\ R \in [Queue -> Ring] /\ R[w].head = n
               /\ R[w].phase = IF n = 0 THEN 1 - drv.rings[w].phase ELSE drv.rings[w].phase
               /\ \A q \in Queue : R[q].tail = drv.rings[q].tail /\ (q # w => R[q] = drv.rings[q])
               /\ Popped(w) = [drv EXCEPT !.rings = R, !.waiting = None]
<1> DEFINE h == drv.rings[w].head  n == (h + 1) % Entries  p == drv.rings[w].phase
           f == IF n = 0 THEN 1 - p ELSE p
           ring == [drv.rings[w] EXCEPT !.head = n, !.phase = f]
           R == [drv.rings EXCEPT ![w] = ring]
<1>1. drv \in Host /\ drv.rings \in [Queue -> Ring] /\ drv.rings[w] \in Ring
  BY DEF Types, Host
<1>2. n \in Place /\ f \in {0, 1}
  BY <1>1, NextPlace DEF Ring, Place, NvmeAssumption
<1>3. ring \in Ring /\ ring.head = n /\ ring.phase = f /\ ring.tail = drv.rings[w].tail
  <2> HIDE DEF n, f
  <2> QED
    BY <1>1, <1>2 DEF Ring
<1>4. Popped(w) = [drv EXCEPT !.rings = R, !.waiting = None]
  BY <1>1, ZenonT(40) DEF Popped, Host, Ring
<1> HIDE DEF ring
<1>5. /\ R \in [Queue -> Ring] /\ R[w] = ring
      /\ \A q \in Queue \ {w} : R[q] = drv.rings[q]
  BY <1>1, <1>3
<1> HIDE DEF R
<1>6. Popped(w).rings = R
  BY <1>1, <1>4 DEF Host
<1> QED
  BY <1>3, <1>4, <1>5, <1>6

\* It is empty, for the controller as for the driver.
LEMMA PoppedIdle ==
    ASSUME NvmeAssumption, IInv, drv.waiting # None, NEW w \in Queue, w = drv.waiting.q, Completed(w),
           drv'.pages = drv.pages, drv'.rings = Popped(w).rings,
           ctl' = ctl, mem' = mem, reg' = reg
    PROVE  Idle'
<1> DEFINE h == drv.rings[w].head  n == (h + 1) % Entries  p == drv.rings[w].phase
           f == IF n = 0 THEN 1 - p ELSE p
<1>1. InFlight /\ Types /\ drv \in Host /\ drv.rings \in [Queue -> Ring]
  BY WaitingActive DEF IInv, Types, Host
<1>2. /\ Entries \in Nat /\ Entries > 1 /\ h \in 0 .. Entries - 1 /\ p \in {0, 1}
      /\ n = IF h + 1 = Entries THEN 0 ELSE h + 1
  BY <1>1, NextPlace DEF Ring, Place, NvmeAssumption
<1>3. /\ drv'.rings[w].head = n /\ drv'.rings[w].phase = f
      /\ \A q \in Queue \ {w} : drv'.rings[q] = drv.rings[q]
  BY <1>1, PoppedRing, ZenonT(40)
<1>4. ASSUME NEW i \in 0 .. Entries - 1, i # h
      PROVE  (IF i < h THEN p ELSE 1 - p) = (IF i < n THEN f ELSE 1 - f)
  <2>1. CASE h + 1 = Entries
    <3>1. n = 0 /\ f = 1 - p /\ i < h
      BY <1>2, <1>4, <2>1
    <3> QED
      BY <1>2, <1>4, <3>1
  <2>2. CASE h + 1 # Entries
    <3>1. n = h + 1 /\ f = p
      BY <1>2, <2>2
    <3> QED
      BY <1>2, <1>4, <3>1
  <2> QED
    BY <2>1, <2>2
<1>5. (IF h < n THEN f ELSE 1 - f) = p
  <2>1. CASE h + 1 = Entries
    BY <1>2, <2>1
  <2>2. CASE h + 1 # Entries
    BY <1>2, <2>2
  <2> QED
    BY <2>1, <2>2
<1>6. /\ ctl.running = {} /\ ctl.queues[w].head = reg.bell[w] /\ ctl.queues[w].slot = n
      /\ ctl.queues[w].phase = f /\ \A i \in Place \ {h} : Seen(w, i)
      /\ mem[drv.pages[Cq(w)]][h] \in Completion /\ mem[drv.pages[Cq(w)]][h].phase = p
  BY DEF Completed
<1> HIDE DEF n, f
<1>7. (\A i \in Place : Seen(w, i))'
  <2>1. SUFFICES ASSUME NEW i \in Place PROVE Seen(w, i)'
    OBVIOUS
  <2>2. i \in 0 .. Entries - 1
    BY DEF Place
  <2> DEFINE e == mem[drv.pages[Cq(w)]][i]
  <2>3. e = Zero \/ (e \in Completion /\ e.phase = IF i < n THEN f ELSE 1 - f)
    <3>1. CASE i = h
      BY <1>5, <1>6, <3>1
    <3>2. CASE i # h
      BY <1>4, <1>6, <2>2, <3>2 DEF Seen
    <3> QED
      BY <3>1, <3>2
  <2> QED
    BY <1>3, <2>3 DEF Seen
<1>8. \A q \in Queue \ {w} : Empty(q)'
  <2>1. \A q \in Queue \ {w} : Empty(q)
    BY <1>1 DEF InFlight
  <2> QED
    BY <1>3, <2>1 DEF Empty, Seen
<1>9. Empty(w)'
  BY <1>3, <1>6, <1>7 DEF Empty
<1> QED
  BY <1>6, <1>8, <1>9 DEF Idle

\* Whatever ends the wait, an answer means that the command was done, and
\* without one the driver has the queues as they were or gives the controller up.
LEMMA WaitIInv ==
    ASSUME NvmeAssumption, IInv, Wait
    PROVE  IInv' /\ (drv'.answer # None => drv'.answer = drv.waiting.op /\ Effect(drv.waiting))
<1> DEFINE q == drv.waiting.q
<1>1. /\ drv.waiting # None
      /\ held' = held /\ mem' = mem /\ reg' = reg /\ ctl' = ctl /\ cache' = cache /\ stable' = stable
  BY DEF Wait, drive
<1>2. /\ drv.stage \in Active /\ ~drv.failed /\ q \in Queue /\ drv.waiting \in Command
      /\ Types /\ drv \in Host /\ reg.enable /\ Created /\ Wired(drv.pages)
      /\ \A k \in Queue : drv.rings[k].tail = reg.bell[k]
  BY <1>1, WaitingActive, ActiveParts DEF Types
<1>3. drv.waiting.op \in Ops /\ None \notin Ops
  BY <1>2 DEF Command, NvmeAssumption
<1>4. ASSUME NEW rings \in [Queue -> Ring], \A k \in Queue : rings[k].tail = drv.rings[k].tail,
             NEW ok \in BOOLEAN, NEW failed \in BOOLEAN,
             drv' = Ended([drv EXCEPT !.rings = rings, !.waiting = None], ok, failed),
             failed \/ (Idle' /\ (ok => Effect(drv.waiting))), failed => ~ok
      PROVE  IInv' /\ (drv'.answer # None => drv'.answer = drv.waiting.op /\ Effect(drv.waiting))
  <2>1. /\ drv'.stage = drv.stage /\ drv'.pages = drv.pages /\ drv'.rings = rings /\ drv'.waiting = None
        /\ drv'.failed = failed /\ drv'.answer = (IF ok THEN drv.waiting.op ELSE None)
        /\ drv' \in Host
    BY <1>2, <1>3, <1>4 DEF Ended, Host
  <2>2. Types' /\ Wired(drv.pages)'
    BY <1>1, <1>2, <2>1 DEF Types, Wired
  <2>3. Created'
    <3>1. drv'.answer \in {"createCq", "createSq"} => ok /\ Effect(drv.waiting) /\ drv.waiting.op = drv'.answer
      BY <1>3, <1>4, <2>1 DEF Ops
    <3> QED
      BY <1>1, <1>2, <2>1, <3>1 DEF Created, Effect
  <2>4. Trusted'
    BY <1>4, <2>1 DEF Trusted
  <2>5. IInv'
    BY <1>1, <1>2, <1>4, <2>1, <2>2, <2>3, <2>4, ActiveIInv
  <2> QED
    BY <1>4, <2>1, <2>5
<1>5. CASE Posted(q)
  <2> DEFINE R == Popped(q).rings
  <2>1. /\ R \in [Queue -> Ring] /\ \A k \in Queue : R[k].tail = drv.rings[k].tail
        /\ Popped(q) = [drv EXCEPT !.rings = R, !.waiting = None]
    BY <1>2, PoppedRing
  <2>2. Completed(q)
    BY <1>1, <1>5, PostedCompleted
  <2>3. Entry(q).ok \in BOOLEAN /\ (Entry(q).ok => Effect(drv.waiting))
    BY <2>2 DEF Completed, Entry, Completion
  <2> HIDE DEF R
  <2>4. CASE drv' = Ended(Popped(q), Accepted(Entry(q), drv.waiting), FALSE)
    <3>1. drv'.pages = drv.pages /\ drv'.rings = R
      BY <1>2, <2>1, <2>4 DEF Ended, Host
    <3>2. Idle'
      BY <1>1, <1>2, <2>2, <3>1, PoppedIdle DEF R
    <3>3. drv' = Ended([drv EXCEPT !.rings = R, !.waiting = None], Entry(q).ok, FALSE)
      BY <2>1, <2>4 DEF Accepted
    <3> QED
      BY <1>4, <2>1, <2>3, <3>2, <3>3
  <2>5. CASE drv' = Ended(Popped(q), FALSE, TRUE)
    <3>1. drv' = Ended([drv EXCEPT !.rings = R, !.waiting = None], FALSE, TRUE)
      BY <2>1, <2>5
    <3> QED
      BY <1>4, <2>1, <3>1
  <2> QED
    BY <1>5, <2>4, <2>5 DEF Wait, Ends
<1>6. CASE ~Posted(q)
  <2>1. drv' = Ended(drv, FALSE, TRUE)
    BY <1>6 DEF Wait, Ends
  <2>2. drv' = Ended([drv EXCEPT !.rings = drv.rings, !.waiting = None], FALSE, TRUE)
    BY <1>2, <2>1 DEF Ended, Host
  <2>3. drv.rings \in [Queue -> Ring]
    BY <1>2 DEF Host
  <2> QED
    BY <1>4, <2>2, <2>3
<1> QED
  BY <1>5, <1>6

-----------------------------------------------------------------------------
(***************************************************************************)
(* The theorems                                                            *)
(***************************************************************************)

\* The invariant is kept by every step of the driver and of the controller.
LEMMA NextIInv == ASSUME NvmeAssumption, IInv, [Next]_nvmeVars PROVE IInv'
<1>1. CASE Driver
  <2>1. CASE Open \/ Enable \/ Enabled
    BY <2>1, OpenIInv, EnableIInv, EnabledIInv
  <2>2. CASE Wait \/ Setup \/ Select \/ GiveUp
    BY <2>2, WaitIInv, SetupIInv, SelectIInv, GiveUpIInv
  <2>3. CASE Released \/ Quarantined
    BY <2>3, ReleasedIInv, QuarantinedIInv
  <2>4. CASE Call("read", None) \/ Call("flush", None) \/ \E v \in Sector : Call("write", v)
    <3>1. Sector \subseteq Cell
      BY DEF Cell
    <3> QED
      BY <2>4, <3>1, CallIInv
  <2> QED
    BY <1>1, <2>1, <2>2, <2>3, <2>4 DEF Driver
<1>2. CASE Controller
  BY <1>2, GetsReadyIInv, GetsQuietIInv, BreaksIInv, FetchIInv, PerformIInv, PostIInv DEF Controller
<1>3. CASE UNCHANGED nvmeVars
  <2>1. /\ drv' = drv /\ held' = held /\ mem' = mem /\ reg' = reg /\ ctl' = ctl
        /\ cache' = cache /\ stable' = stable
    BY <1>3 DEF nvmeVars, host, drive
  <2>2. Types' = Types /\ Detached' = Detached /\ Fresh' = Fresh /\ (\A P : Own(P)' = Own(P)) /\ (\A P : Wired(P)' = Wired(P))
    BY <2>1 DEF Types, Detached, Fresh, Own, Wired
  <2>3. Created' = Created /\ Idle' = Idle
    BY <2>1 DEF Created, Idle, Empty, Seen
  <2>4. InFlight' = InFlight
    BY <2>1 DEF InFlight, Issued, PageOf, Empty, Seen, Queued, Fetched, Completed, Effect
  <2> QED
    BY <2>1, <2>2, <2>3, <2>4
       DEF IInv, WhenOff, WhenLost, WhenUp, WhenNew, WhenEnabling, WhenActive, WhenStopping, Trusted
<1> QED
  BY <1>1, <1>2, <1>3 DEF Next

\* The invariant holds in every state, for queues and memory of any size.
THEOREM NvmeInvariant == ASSUME NvmeAssumption PROVE Spec => []IInv
<1>1. Init => IInv
  BY InitIInv
<1>2. IInv /\ [Next]_nvmeVars => IInv'
  BY NextIInv
<1> QED
  BY <1>1, <1>2, PTL DEF Spec

\* The controller reaches only pages that are held.
LEMMA WiredReach ==
    ASSUME NvmeAssumption, Types, NEW P, Own(P), Wired(P)
    PROVE  Reach \subseteq held
<1>1. \A x \in ctl.running : x.cmd.page \in held \cup {None}
  <2>1. SUFFICES ASSUME NEW x \in ctl.running PROVE x.cmd.page \in held \cup {None}
    OBVIOUS
  <2>2. x.cmd.page = PageOf(P, x.cmd.op) /\ x.cmd.op \in Ops
    BY DEF Wired, Issued, Command
  <2>3. \A r \in Role : P[r] \in held
    BY OwnPages DEF Types
  <2> QED
    BY <2>2, <2>3, QueueRoles DEF PageOf, Ops
<1>2. \A q \in Queue : ctl.queues[q].sq \in held \cup {None} /\ ctl.queues[q].cq \in held \cup {None}
  BY OwnPages, QueueRoles DEF Wired, Types
<1> QED
  BY <1>1, <1>2 DEF Reach

\* nvme_release and its quarantine: however slow, broken or deaf the controller
\* is, the pages it can still read or write have not gone back to the page
\* allocator.
THEOREM DmaStaysHome == ASSUME NvmeAssumption PROVE Spec => []NoStrayDma
<1>1. ASSUME IInv PROVE NoStrayDma
  <2>1. Types
    BY <1>1 DEF IInv
  <2>2. Reach \subseteq held
    <3>1. CASE drv.stage = "off"
      <4>1. Detached
        BY <1>1, <3>1 DEF IInv, WhenOff
      <4> QED
        BY <4>1 DEF Detached, Reach, NoQueue
    <3>2. CASE drv.stage # "off"
      <4>1. \E P : Own(P) /\ Wired(P)
        BY <1>1, <3>2 DEF IInv, WhenLost, WhenUp
      <4> QED
        BY <1>1, <2>1, <4>1, WiredReach
    <3> QED
      BY <3>1, <3>2
  <2>3. {drv.pages[r] : r \in Role} \ {None} \subseteq held
    <3>1. CASE drv.stage \in {"off", "lost"}
      <4>1. drv.pages = NoPages
        BY <1>1, <3>1 DEF IInv, WhenOff, WhenLost, Off
      <4> QED
        BY <4>1 DEF NoPages
    <3>2. CASE drv.stage \notin {"off", "lost"}
      BY <1>1, <3>2 DEF IInv, WhenUp, Own
    <3> QED
      BY <3>1, <3>2
  <2>4. drv.rings \in [Queue -> [tail : 0 .. Entries - 1, head : 0 .. Entries - 1, phase : {0, 1},
                                 cid : 0 .. Cids - 1]]
    BY <2>1 DEF Types, Host, Ring, Place
  <2> QED
    BY <2>1, <2>2, <2>3, <2>4 DEF NoStrayDma, Types, Host
<1>2. IInv => NoStrayDma
  BY <1>1
<1> QED
  BY <1>2, NvmeInvariant, PTL

\* nvme_transfer and nvme_flush: success is never taken from a stale, a late or
\* a foreign completion, in any round of the rings.
THEOREM AnswersAreTrue == ASSUME NvmeAssumption PROVE Spec => AnswersTrue
<1> DEFINE A == drv.waiting # None /\ drv'.waiting = None /\ drv'.answer # None =>
                   /\ drv.waiting.op \in {"read", "write"} => mem[drv.pages["data"]][0] = cache
                   /\ drv.waiting.op = "flush" => stable = cache
<1>1. ASSUME IInv, [Next]_nvmeVars PROVE [A]_nvmeVars
  <2>1. SUFFICES ASSUME Next, drv.waiting # None, drv'.waiting = None, drv'.answer # None
                 PROVE  A
    BY <1>1
  <2>2. drv.stage \in Active
    BY <1>1, <2>1, WaitingActive
  <2>3. drv' # drv
    BY <2>1
  <2>4. ~Controller
    BY <2>3 DEF Controller, GetsReady, GetsQuiet, Breaks, Fetch, Perform, Post, host
  <2>5. ~(Open \/ Enable \/ Enabled \/ Select \/ GiveUp \/ Released \/ Quarantined)
    BY <2>1, <2>2 DEF Open, Enable, Enabled, Select, GiveUp, Released, Quarantined, Active
  <2>6. ~Setup
    BY <2>1 DEF Setup, Ask
  <2>7. ~(Call("read", None) \/ Call("flush", None) \/ \E v \in Sector : Call("write", v))
    BY <2>1 DEF Call, Submit
  <2>8. Wait
    BY <2>1, <2>4, <2>5, <2>6, <2>7 DEF Next, Driver
  <2>9. Effect(drv.waiting)
    BY <1>1, <2>1, <2>8, WaitIInv
  <2> QED
    BY <2>9 DEF Effect
<1>2. IInv /\ [Next]_nvmeVars => [A]_nvmeVars
  BY <1>1
<1> QED
  BY <1>2, NvmeInvariant, PTL DEF Spec, AnswersTrue
=============================================================================
