-------------------------------- MODULE Nvme --------------------------------
(***************************************************************************)
(* The NVMe driver, kernel/nvme.c, and a controller beside it that reads   *)
(* and writes memory on its own.                                           *)
(*                                                                         *)
(*  - drv     struct nvme, and the command nvme_submit is waiting for      *)
(*  - held    pages taken from the page allocator and not given back       *)
(*  - mem     what the held pages hold: queue entries, or a sector         *)
(*  - reg     the registers; ctl the controller behind them                *)
(*  - cache, stable   the sector in the drive and what a power loss leaves *)
(*                                                                         *)
(* The controller may take any time for anything, report errors, answer    *)
(* with a command identifier nobody waits for, fail for good, and never    *)
(* stop when it is told to.  It is written from what the driver assumes.   *)
(***************************************************************************)
EXTENDS Integers, FiniteSets

CONSTANTS
    Entries,      \* entries of a queue: MIN(max_entries, NVME_DEPTH)
    Cids,       \* identifiers before they wrap (2^16 in the code)
    Page,       \* pages of memory
    Sector,     \* contents of a sector
    Zero, None

VARIABLES drv, held, mem, reg, ctl, cache, stable
host   == <<drv, held>>
drive  == <<cache, stable>>
nvmeVars == <<host, mem, reg, ctl, drive>>

Queue == {"admin", "io"}
Role  == {"adminSq", "adminCq", "ioSq", "ioCq", "data", "list"}
Sq(q) == IF q = "admin" THEN "adminSq" ELSE "ioSq"
Cq(q) == IF q = "admin" THEN "adminCq" ELSE "ioCq"
ZeroPage == [i \in 0 .. Entries - 1 |-> Zero]

\* the queues after nvme_open, and the driver after memset(&nvme, 0, ...)
Rings == [q \in Queue |-> [tail |-> 0, head |-> 0, phase |-> 1, cid |-> 0]]
NoPages == [r \in Role |-> None]
Off == [stage |-> "off", pages |-> NoPages, rings |-> Rings, failed |-> FALSE,
        online |-> FALSE, waiting |-> None, answer |-> None]

NoQueue == [sq |-> None, cq |-> None, head |-> 0, slot |-> 0, phase |-> 1]
Stopped == [ready |-> FALSE, fatal |-> FALSE, queues |-> [q \in Queue |-> NoQueue], running |-> {}]

Init ==
    /\ drv = Off
    /\ held = {} /\ mem = [p \in Page |-> ZeroPage]
    /\ reg = [enable |-> FALSE, sq |-> None, cq |-> None, bell |-> [q \in Queue |-> 0]]
    \* firmware may have left the controller running, on pages of its own
    /\ ctl \in {Stopped, [Stopped EXCEPT !.ready = TRUE]}
    /\ cache \in Sector /\ stable = cache

(***************************************************************************)
(* nvme_open, up to the admin queue                                        *)
(***************************************************************************)
\* Six pages, zeroed; with fewer the driver gives back what it got.
Taken == CHOOSE f \in [Role -> Page \ held] : \A r, s \in Role : r # s => f[r] # f[s]
Open ==
    /\ drv.stage = "off" /\ Cardinality(Page \ held) >= Cardinality(Role)
    /\ drv' = [Off EXCEPT !.stage = "disabling", !.pages = Taken]
    /\ held' = held \cup {drv'.pages[r] : r \in Role}
    /\ mem' = [p \in Page |-> IF p \in held' \ held THEN ZeroPage ELSE mem[p]]
    /\ reg' = [reg EXCEPT !.enable = FALSE]
    /\ UNCHANGED <<ctl, drive>>

\* nvme_release(true) tells the controller to stop, then waits
Release(d) == drv' = [d EXCEPT !.stage = "stopping"] /\ reg' = [reg EXCEPT !.enable = FALSE]

\* nvme_wait_ready ends with what it waits for, or its time is up.
Enable ==
    /\ drv.stage = "disabling"
    /\ \/ /\ ~ctl.ready
          /\ reg' = [reg EXCEPT !.enable = TRUE, !.sq = drv.pages["adminSq"],
                                !.cq = drv.pages["adminCq"], !.bell = [q \in Queue |-> 0]]
          /\ drv' = [drv EXCEPT !.stage = "enabling"]
       \/ ctl.ready /\ Release(drv)
    /\ UNCHANGED <<held, mem, ctl, drive>>
Enabled ==
    /\ drv.stage = "enabling"
    /\ \/ ctl.ready /\ ~ctl.fatal /\ drv' = [drv EXCEPT !.stage = "features"] /\ UNCHANGED reg
       \/ (~ctl.ready \/ ctl.fatal) /\ Release(drv)
    /\ UNCHANGED <<held, mem, ctl, drive>>

(***************************************************************************)
(* nvme_submit: one command, then waiting for its completion               *)
(***************************************************************************)
Submit(d, q, op, page, value) ==
    LET r    == d.rings[q]
        cid  == (r.cid + 1) % Cids
        next == (r.tail + 1) % Entries
        cmd  == [op |-> op, page |-> page, cid |-> cid, q |-> q]
    IN  /\ ~d.failed /\ d.waiting = None
        /\ mem' = [mem EXCEPT ![d.pages[Sq(q)]][r.tail] = cmd,
                              ![d.pages["data"]][0] = IF value = None THEN @ ELSE value]
        /\ drv' = [d EXCEPT !.rings[q].cid = cid, !.rings[q].tail = next,
                            !.waiting = cmd, !.answer = None]
        /\ reg' = [reg EXCEPT !.bell[q] = next]

\* the completion at the head of the queue is a new one
Posted(q) ==
    LET e == mem[drv.pages[Cq(q)]][drv.rings[q].head]
    IN  e # Zero /\ e.phase = drv.rings[q].phase
Entry(q) == mem[drv.pages[Cq(q)]][drv.rings[q].head]
Accepted(e, cmd) == e.ok
\* the driver with the completion taken off the queue
Popped(q) ==
    LET head == (drv.rings[q].head + 1) % Entries
    IN  [drv EXCEPT !.rings[q].head = head, !.rings[q].phase = IF head = 0 THEN 1 - @ ELSE @,
                    !.waiting = None]
\* How a command ends: done, refused, or the controller is not to be used again.
\* It has, perhaps, not ended for the controller.
Ended(d, ok, failed) ==
    LET bad == ~ok /\ drv.stage = "ready"
    IN  [d EXCEPT !.waiting = None, !.answer = IF ok THEN drv.waiting.op ELSE None,
                  !.failed = failed, !.online = @ /\ ~bad]
Ends ==
    LET q == drv.waiting.q
    IN  \/ Posted(q) /\ Entry(q).cid = drv.waiting.cid /\ ~ctl.fatal
           /\ drv' = Ended(Popped(q), Accepted(Entry(q), drv.waiting), FALSE)
        \/ Posted(q) /\ (Entry(q).cid # drv.waiting.cid \/ ctl.fatal)
           /\ drv' = Ended(Popped(q), FALSE, TRUE)
        \* no completion: a fatal status is seen, or NVME_POLLS are over
        \/ ~Posted(q) /\ drv' = Ended(drv, FALSE, TRUE)
Wait ==
    /\ drv.waiting # None
    /\ Ends
    /\ UNCHANGED <<held, mem, reg, ctl, drive>>

(***************************************************************************)
(* nvme_open, the commands; nvme_transfer and nvme_flush; nvme_release     *)
(***************************************************************************)
\* A command that went wrong ends the setup, except the list of namespaces,
\* which old controllers do not know.
Ask(stage, op, role, next) ==
    /\ drv.stage = stage /\ drv.waiting = None
    /\ Submit([drv EXCEPT !.stage = next], "admin", op,
              IF role = None THEN None ELSE drv.pages[role],
              IF op = "namespace" THEN Zero ELSE None)
    /\ UNCHANGED <<held, ctl, drive>>
Setup ==
    \/ Ask("features", "features", None, "createCq")
    \/ drv.answer = "features" /\ Ask("createCq", "createCq", "ioCq", "createSq")
    \/ drv.answer = "createCq" /\ Ask("createSq", "createSq", "ioSq", "identify")
    \/ drv.answer = "createSq" /\ Ask("identify", "identify", "data", "list")
    \/ drv.answer = "identify" /\ Ask("list", "list", "list", "scan")
    \* nvme_select_namespace clears the page first; one after the other is asked
    \/ Ask("scan", "namespace", "data", "scan")
\* a namespace of the right format
Select ==
    /\ drv.stage = "scan" /\ drv.waiting = None /\ drv.answer = "namespace"
    /\ drv' = [drv EXCEPT !.stage = "ready", !.online = TRUE]
    /\ UNCHANGED <<held, mem, reg, ctl, drive>>
\* A step went wrong, there is no namespace to ask for, or the disk is not one
\* of ours (disk_init): nvme_release(true) or nvme_shutdown
GiveUp ==
    /\ drv.stage \in {"createCq", "createSq", "identify", "list", "scan", "ready"}
    /\ drv.waiting = None
    /\ drv.stage \in {"scan", "ready"} \/ drv.answer = None
    /\ Release(drv)
    /\ UNCHANGED <<held, mem, ctl, drive>>

Call(op, value) ==
    /\ drv.stage = "ready" /\ drv.online
    /\ Submit(drv, "io", op, IF op = "flush" THEN None ELSE drv.pages["data"], value)
    /\ UNCHANGED <<held, ctl, drive>>

\* the pages go back, or stay out of use for ever
\* mutated: nobody waits for the controller
QuietAtOnce == TRUE
Quiet == ~ctl.ready
Released ==
    /\ drv.stage = "stopping" /\ Quiet
    /\ drv' = Off
    /\ held' = held \ {drv.pages[r] : r \in Role}
    /\ UNCHANGED <<mem, reg, ctl, drive>>
Quarantined ==
    /\ drv.stage = "stopping" /\ ctl.ready
    /\ drv' = [Off EXCEPT !.stage = "lost"]
    /\ UNCHANGED <<held, mem, reg, ctl, drive>>

Driver ==
    \/ Open \/ Enable \/ Enabled \/ Wait \/ Setup \/ Select \/ GiveUp \/ Released \/ Quarantined
    \/ Call("read", None) \/ Call("flush", None)
    \/ \E v \in Sector : Call("write", v)

(***************************************************************************)
(* The controller                                                          *)
(***************************************************************************)
GetsReady ==
    /\ reg.enable /\ ~ctl.ready /\ ~ctl.fatal
    /\ ctl' = [Stopped EXCEPT !.ready = TRUE,
                              !.queues["admin"] = [NoQueue EXCEPT !.sq = reg.sq, !.cq = reg.cq]]
    /\ UNCHANGED <<host, mem, reg, drive>>
GetsQuiet ==
    /\ ~reg.enable /\ (ctl.ready \/ ctl.fatal)
    /\ ctl' = Stopped
    /\ UNCHANGED <<host, mem, reg, drive>>
Breaks ==
    /\ ~ctl.fatal
    /\ ctl' = [ctl EXCEPT !.fatal = TRUE]
    /\ UNCHANGED <<host, mem, reg, drive>>
Fetch(q) ==
    /\ ctl.ready /\ ctl.queues[q].sq # None /\ ctl.queues[q].head # reg.bell[q]
    /\ LET cmd == mem[ctl.queues[q].sq][ctl.queues[q].head]
       IN  ctl' = [ctl EXCEPT !.queues[q].head = (@ + 1) % Entries,
                              !.running = @ \cup {[cmd |-> cmd, done |-> FALSE, ok |-> FALSE]}]
    /\ UNCHANGED <<host, mem, reg, drive>>

\* what the command does, if it is not refused
Perform(x) ==
    /\ x \in ctl.running /\ ~x.done
    /\ LET c == x.cmd
           made == CASE c.op = "createCq" -> [ctl.queues EXCEPT !["io"].cq = c.page]
                     [] c.op = "createSq" -> [ctl.queues EXCEPT !["io"].sq = c.page]
                     [] OTHER -> ctl.queues
       IN  \E ok \in BOOLEAN :
             /\ ctl' = [ctl EXCEPT !.running = (@ \ {x}) \cup {[x EXCEPT !.done = TRUE, !.ok = ok]},
                                   !.queues = IF ok THEN made ELSE @]
             /\ cache' = IF ok /\ c.op = "write" THEN mem[c.page][0] ELSE cache
             /\ stable' \in IF ok /\ c.op = "flush" THEN {cache} ELSE {stable, cache'}
             /\ mem' = IF ok /\ c.op = "read" THEN [mem EXCEPT ![c.page][0] = cache] ELSE mem
    /\ UNCHANGED <<host, reg>>

\* the completion, with the identifier of the command or a wrong one
Post(x) ==
    /\ x \in ctl.running /\ x.done
    /\ LET q == x.cmd.q
           t == ctl.queues[q]
       IN  \E cid \in {x.cmd.cid, (x.cmd.cid + Cids - 1) % Cids} :
             /\ mem' = [mem EXCEPT ![t.cq][t.slot] = [cid |-> cid, ok |-> x.ok, phase |-> t.phase]]
             /\ ctl' = [ctl EXCEPT !.running = @ \ {x},
                          !.queues[q].slot = (t.slot + 1) % Entries,
                          !.queues[q].phase = IF (t.slot + 1) % Entries = 0 THEN 1 - @ ELSE @]
    /\ UNCHANGED <<host, reg, drive>>

Controller ==
    \/ GetsReady \/ GetsQuiet \/ Breaks
    \/ \E q \in Queue : Fetch(q)
    \/ \E x \in ctl.running : Perform(x) \/ Post(x)

Next == Driver \/ Controller
Spec == Init /\ [][Next]_nvmeVars

(***************************************************************************)
(* Properties                                                              *)
(***************************************************************************)
\* pages the controller may read or write now
Reach ==
    ((UNION {{ctl.queues[q].sq, ctl.queues[q].cq} : q \in Queue}) \cup {x.cmd.page : x \in ctl.running})
    \ {None}

\* Whatever is late, refused, broken or forgotten: a page that the controller
\* can still read or write has not gone back to the page allocator, and the
\* driver only waits where it has its pages.
NoStrayDma ==
    /\ drv.failed \in BOOLEAN /\ drv.online \in BOOLEAN /\ held \subseteq Page
    /\ drv.rings \in [Queue -> [tail : 0 .. Entries - 1, head : 0 .. Entries - 1, phase : {0, 1},
                                cid : 0 .. Cids - 1]]
    /\ Reach \subseteq held
    /\ {drv.pages[r] : r \in Role} \ {None} \subseteq held

\* A call that succeeds did what it says: what nvme_read gives is what the drive
\* holds, what nvme_write was given is what it holds, and after nvme_flush a
\* power loss leaves it.  No late, stale or wrong completion is taken for it.
AnswersTrue ==
    [][drv.waiting # None /\ drv'.waiting = None /\ drv'.answer # None =>
          /\ drv.waiting.op \in {"read", "write"} => mem[drv.pages["data"]][0] = cache
          /\ drv.waiting.op = "flush" => stable = cache]_nvmeVars
=============================================================================
