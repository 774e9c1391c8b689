-------------------------------- MODULE Ahci --------------------------------
(***************************************************************************)
(* The AHCI driver, kernel/ahci.c, the search for a disk over the ports of *)
(* a controller (disk_init), and the ports, which read and write memory on *)
(* their own.                                                              *)
(*                                                                         *)
(*  - drv     struct ahci, and how far the driver is in a call             *)
(*  - held    pages taken from the page allocator and not given back       *)
(*  - data, bytes   the sector in data_page, header->bytes (is it all?)    *)
(*  - port    per port the registers (PxCLB, PxFB, PxCMD, PxCI, PxIS) and  *)
(*            what the port is doing: cr and fr, and the command it runs   *)
(*  - cache, stable   the sector in the drive and what a power loss leaves *)
(*                                                                         *)
(* A port may take any time for anything, never stop, transfer too little, *)
(* or fail and say so only after it has cleared its command.               *)
(***************************************************************************)
EXTENDS Integers, FiniteSets

CONSTANTS
    Ports,      \* number of ports
    Page,       \* pages of memory
    Sector,     \* contents of a sector
    None

VARIABLES drv, held, data, bytes, port, cache, stable
memory   == <<data, bytes>>
drive    == <<cache, stable>>
ahciVars == <<drv, held, memory, port, drive>>

Role    == {"command", "fis", "table", "data"}
NoPages == [r \in Role |-> None]
Port    == 1 .. Ports

\* firmware may have left an engine running, on pages of its own
Left(runs) == [clb |-> None, fb |-> None, st |-> runs, fre |-> runs, cr |-> runs, fr |-> runs,
               ci |-> None, error |-> FALSE, running |-> None]
Off(next)  == [stage |-> "off", port |-> next, pages |-> NoPages, online |-> FALSE,
               then |-> "", op |-> None, answer |-> None]

AhciInit ==
    /\ drv = Off(1)
    /\ held = {}
    /\ data \in Sector /\ bytes = 0
    /\ port \in [Port -> {Left(FALSE), Left(TRUE)}]
    /\ cache \in Sector /\ stable = cache

Now      == port[drv.port]
Set(new) == port' = [port EXCEPT ![drv.port] = new]

(***************************************************************************)
(* ahci_init                                                               *)
(***************************************************************************)
Taken == CHOOSE f \in [Role -> Page \ held] : \A r, s \in Role : r # s => f[r] # f[s]
Open ==
    /\ drv.stage = "off" /\ drv.port \in Port
    /\ Cardinality(Page \ held) >= Cardinality(Role)
    /\ drv' = [drv EXCEPT !.stage = "scan", !.pages = Taken]
    /\ held' = held \cup {drv'.pages[r] : r \in Role}
    /\ UNCHANGED <<memory, port, drive>>

\* stop_engine first clears ST and waits; `then' is what its caller does after.
StopEngine(then) ==
    /\ drv' = [drv EXCEPT !.stage = "stopCr", !.then = then, !.op = None]
    /\ Set([Now EXCEPT !.st = FALSE])
    /\ UNCHANGED <<held, memory, drive>>
\* a port with a device on it, or the next one
Scan ==
    /\ drv.stage = "scan" /\ drv.port \in Port
    /\ \/ StopEngine("start")
       \/ drv' = [drv EXCEPT !.port = @ + 1] /\ UNCHANGED <<held, memory, port, drive>>
\* the pages are given back only by who has seen every engine stop
GiveBack(next) == drv' = Off(next) /\ held' = held \ {drv.pages[r] : r \in Role}
NoDisk ==
    /\ drv.stage = "scan" /\ drv.port \notin Port
    /\ GiveBack(drv.port)
    /\ UNCHANGED <<memory, port, drive>>

\* AHCI_TIMEOUT reads found the engine running: its pages are never used again.
Quarantine ==
    /\ \/ drv.stage = "stopCr" /\ Now.cr
       \/ drv.stage = "stopFr" /\ Now.fr
    /\ drv' = Off(Ports + 1)
    /\ UNCHANGED <<held, memory, port, drive>>
CrStopped == ~Now.cr
StopReceive ==
    /\ drv.stage = "stopCr" /\ CrStopped
    /\ drv' = [drv EXCEPT !.stage = "stopFr"]
    /\ Set([Now EXCEPT !.fre = FALSE])
    /\ UNCHANGED <<held, memory, drive>>
EngineStopped(then) == drv.stage = "stopFr" /\ ~Now.fr /\ drv.then = then
Skip ==
    /\ EngineStopped("skip")
    /\ drv' = [drv EXCEPT !.stage = "scan", !.port = @ + 1]
    /\ UNCHANGED <<held, memory, port, drive>>
StartEngine ==
    /\ EngineStopped("start")
    /\ drv' = [drv EXCEPT !.stage = "started"]
    /\ Set([Now EXCEPT !.clb = drv.pages["command"], !.fb = drv.pages["fis"], !.error = FALSE,
                       !.fre = TRUE, !.st = TRUE])
    /\ UNCHANGED <<held, memory, drive>>
\* ahci_shutdown after scan_storage did not find a volume: its next port is asked
Shutdown ==
    /\ EngineStopped("shutdown")
    /\ GiveBack(drv.port + 1)
    /\ UNCHANGED <<memory, port, drive>>

(***************************************************************************)
(* issue: one command in slot 0                                            *)
(***************************************************************************)
Issue(op, stage) ==
    /\ bytes' = 0
    /\ drv' = [drv EXCEPT !.stage = stage, !.op = op, !.answer = None]
    /\ Set([Now EXCEPT !.error = FALSE,
                       !.ci = [op |-> op, table |-> drv.pages["table"],
                               page |-> IF op = "flush" THEN None ELSE drv.pages["data"]]])
    /\ UNCHANGED <<held, drive>>
Identify == drv.stage = "started" /\ Issue("identify", "wait") /\ UNCHANGED data
\* The task file never gets ready, the signature is wrong, or identify failed.
Unsuitable == drv.stage \in {"started", "unidentified"} /\ StopEngine("skip")

\* How issue ended.  Nothing takes the command back from a port that is late.
Ended(ok) ==
    /\ drv' = [drv EXCEPT !.stage = IF drv.op = "identify" /\ ~ok THEN "unidentified" ELSE "ready",
                          !.op = None, !.answer = IF ok THEN drv.op ELSE None,
                          !.online = ok]
    /\ UNCHANGED <<held, memory, port, drive>>
\* Until the command is gone PxIS is read before PxCI.
Failed == drv.stage = "wait" /\ Now.error /\ Ended(FALSE)
Cleared ==
    /\ drv.stage = "wait" /\ ~Now.error
    /\ drv' = [drv EXCEPT !.stage = "cleared"]
    /\ UNCHANGED <<held, memory, port, drive>>
Again ==
    /\ drv.stage = "cleared" /\ Now.ci # None
    /\ drv' = [drv EXCEPT !.stage = "wait"]
    /\ UNCHANGED <<held, memory, port, drive>>
\* mutated: PxIS is not read again
NoLateError == FALSE
LateError == Now.error
Complete ==
    /\ drv.stage = "cleared" /\ Now.ci = None
    /\ Ended(~LateError /\ (drv.op # "flush" => bytes = 512))
TimesOut == drv.stage = "wait" /\ Now.ci # None /\ Ended(FALSE)

\* ahci_read, ahci_write and ahci_flush
Call(op) ==
    /\ drv.stage = "ready" /\ drv.online
    /\ Issue(op, "wait")
    /\ data' \in (IF op = "write" THEN Sector ELSE {data})
\* ahci_shutdown, when the disk is not one of ours
GiveUp == drv.stage = "ready" /\ StopEngine("shutdown")

Driver ==
    \/ Open \/ Scan \/ NoDisk \/ Quarantine \/ StopReceive \/ Skip \/ StartEngine \/ Shutdown
    \/ Identify \/ Unsuitable \/ Failed \/ Cleared \/ Again \/ Complete \/ TimesOut \/ GiveUp
    \/ \E op \in {"read", "write", "flush"} : Call(op)

(***************************************************************************)
(* The ports                                                               *)
(***************************************************************************)
Does(p, new) == port' = [port EXCEPT ![p] = new]
Engine(p) ==
    LET x == port[p] IN
    /\ \/ x.fre /\ ~x.fr /\ Does(p, [x EXCEPT !.fr = TRUE])
       \/ x.st /\ ~x.cr /\ Does(p, [x EXCEPT !.cr = TRUE])
       \/ ~x.fre /\ x.fr /\ Does(p, [x EXCEPT !.fr = FALSE])
       \/ ~x.st /\ x.cr /\ Does(p, [x EXCEPT !.cr = FALSE, !.ci = None, !.running = None])
    /\ UNCHANGED <<drv, held, memory, drive>>
Begin(p) ==
    LET x == port[p] IN
    /\ x.cr /\ x.st /\ x.ci # None /\ x.running = None /\ ~x.error
    /\ Does(p, [x EXCEPT !.running = x.ci])
    /\ UNCHANGED <<drv, held, memory, drive>>
Finish(p) ==
    LET x == port[p]
        c == x.running
    IN  /\ c # None
        /\ \/ /\ Does(p, [x EXCEPT !.running = None, !.ci = None])
              /\ cache' = IF c.op = "write" THEN data ELSE cache
              /\ data' = IF c.op = "read" THEN cache ELSE data
              /\ stable' \in {IF c.op = "flush" THEN cache ELSE stable, cache'}
              /\ bytes' = 512
           \* too little; or an error, with the command there or gone
           \/ /\ \E error \in BOOLEAN, ci \in {x.ci, None} :
                    /\ error \/ (ci = None /\ c.op # "flush")
                    /\ Does(p, [x EXCEPT !.running = None, !.error = error, !.ci = ci])
                    /\ bytes' \in {0} \cup (IF error THEN {512} ELSE {})
              /\ UNCHANGED <<data, drive>>
    /\ UNCHANGED <<drv, held>>
Device == \E p \in Port : Engine(p) \/ Begin(p) \/ Finish(p)

AhciNext == Driver \/ Device
AhciSpec == AhciInit /\ [][AhciNext]_ahciVars

(***************************************************************************)
(* Properties                                                              *)
(***************************************************************************)
\* pages a port may read or write now
Reach(p) ==
    ((IF port[p].cr THEN {port[p].clb} ELSE {}) \cup (IF port[p].fr THEN {port[p].fb} ELSE {})
     \cup (IF port[p].running = None THEN {} ELSE {port[p].running.table, port[p].running.page}))
    \ {None}

\* Whatever fails or never ends, on whichever port: a page that an engine can
\* still read or write has not gone back to the page allocator.
NoStrayDma ==
    /\ held \subseteq Page /\ drv.port \in 1 .. Ports + 1 /\ bytes \in {0, 512}
    /\ \A p \in Port : Reach(p) \subseteq held
    /\ {drv.pages[r] : r \in Role} \ {None} \subseteq held

\* A call that succeeds did what it says, errors that show late included.
AnswersTrue ==
    [][drv.op # None /\ drv'.op = None /\ drv'.answer # None =>
          /\ drv.op \in {"read", "write"} => data = cache
          /\ drv.op = "flush" => stable = cache]_ahciVars
=============================================================================
