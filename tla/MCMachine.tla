------------------------------ MODULE MCMachine ------------------------------
(***************************************************************************)
(* Files, Pages, Nvme, Ahci and Usb on small machines, for TLC: one of     *)
(* them runs, chosen at the start.                                         *)
(***************************************************************************)
EXTENDS Files, Pages

VARIABLES part

(***************************************************************************)
(* Files                                                                   *)
(***************************************************************************)
\* What a program sees, worked out when something of it changes, and how many
\* more changes, saves and restarts there may be
VARIABLES shown, budget

Allowed(writes, paths, saves) == [writes |-> writes, paths |-> paths, saves |-> saves, restarts |-> 1]
Budgets == IF limits.size = 0 THEN {Allowed(0, 3, 1)} ELSE {Allowed(3, 1, 1), Allowed(2, 1, 2)}

\* A deep tree of empty files; one long file over few blocks; no disk at all.
Diskless == [nodes |-> 3, depth |-> 1, size |-> 1, end |-> 0]
Small == {Diskless,
          [nodes |-> 5, depth |-> 2, size |-> 0, end |-> 0],
          [nodes |-> 3, depth |-> 1, size |-> 3, end |-> 3]}

Shown(contents, t, descriptors, directory, kept) ==
    [files |-> contents, handles |-> Handles(t, descriptors), cwd |-> Path(t, directory), saved |-> kept]
FilesInit ==
    /\ Init /\ budget \in Budgets
    /\ shown = Shown(Contents(nodes, blk), nodes, fd, cwd, SavedTree(roots, later, blk))
Costs(field) == budget[field] > 0 /\ budget' = [budget EXCEPT ![field] = @ - 1]
FilesNext ==
    /\ \/ Descriptors /\ UNCHANGED budget
       \/ Writes /\ Costs("writes")
       \/ Paths /\ Costs("paths")
       \/ Saves /\ Costs("saves")
       \/ Restart /\ Costs("restarts")
    /\ shown' = Shown(IF UNCHANGED <<nodes, blk>> THEN shown.files ELSE Contents(nodes', blk'),
                      nodes', fd', cwd',
                      IF UNCHANGED medium THEN shown.saved ELSE SavedTree(roots', later', blk'))
filesVars == <<vars, shown, budget>>

\* Seen by a program, the nodes, extents, pins and roots are a tree of files:
\* every call of the file system, save and restart is a step of FileTree.
Promised == INSTANCE FileTree WITH
    files <- shown.files, handles <- shown.handles, cwd <- shown.cwd, saved <- shown.saved
FilesPromise == Promised!Init /\ [][part = "files" => [Promised!Next]_(Promised!vars)]_shown

\* Blocks that no extent leads to are the same to every later step: a cell is
\* written before its block is in a file.
Reached == {b \in DOMAIN blk : \E e \in Taken : b \in e.physical .. e.physical + e.blocks - 1}

(***************************************************************************)
(* Nvme, Ahci and Usb                                                      *)
(***************************************************************************)
CONSTANTS Entries, Cids, Ports, DmaPage, Sector, Zero, None
VARIABLES nvme, nvmeHeld, mem, reg, ctl, ahci, ahciHeld, data, bytes, port, cache, stable
driveVars == <<cache, stable>>
nvmeVars == <<nvme, nvmeHeld, mem, reg, ctl>>
ahciVars == <<ahci, ahciHeld, data, bytes, port>>
NvmeDrive == INSTANCE Nvme WITH Page <- DmaPage, drv <- nvme, held <- nvmeHeld
AhciDrive == INSTANCE Ahci WITH Page <- DmaPage, drv <- ahci, held <- ahciHeld

CONSTANTS D, Kinds
VARIABLES usb, dev, told, used, usbCtl, ring, plug, left
usbVars == <<usb, dev, told, used, usbCtl, ring, plug, left>>
\* Two ports, and one behind the hub that may be in the first
HubOf == <<0, 0, 1>>
Happens(plugs, reports, faults) == [plugs |-> plugs, reports |-> reports, faults |-> faults]
Starts == {[kinds |-> <<"hub", None, "keyboard">>,      left |-> Happens(1, 1, 0)],
           [kinds |-> <<"hub", "adapter", "keyboard">>, left |-> Happens(0, 1, 1)],
           [kinds |-> <<"mouse", "mouse", None>>,       left |-> Happens(1, 1, 0)],
           [kinds |-> <<"keyboard", None, None>>,       left |-> Happens(1, 1, 1)]}
UsbHost == INSTANCE Usb WITH drv <- usb, ctl <- usbCtl
\* What becomes of a transfer is the same whatever number it has, and nothing
\* becomes of a failed host.
UsbView == IF usb.host = "failed" THEN <<told, used>>
           ELSE <<[usb EXCEPT !.addr = 0, !.serial = 0, !.res = IF usb.stack = <<>> THEN 0 ELSE @],
                  usb.addr = usb.serial, dev, told, used, usbCtl, ring, plug, left>>

\* Pages that a controller can still reach stay out of use (nvme.c, ahci.c, usb.c).
NoStrayDma ==
    /\ part = "nvme" => NvmeDrive!NoStrayDma
    /\ part = "ahci" => AhciDrive!NoStrayDma
    /\ part = "usb" => UsbHost!NoStrayDma
\* Calls of the drivers that succeed did what they say (nvme.c, ahci.c, usb.c).
AnswersTrue == NvmeDrive!AnswersTrue /\ AhciDrive!AnswersTrue /\ []UsbHost!AnswersTrue
\* The table of devices is what is plugged in, and nothing is held of a device that
\* has gone (usb.c).
DevicesTrue == UsbHost!TableTrue /\ UsbHost!InputReleased

(***************************************************************************)
(* One of them                                                             *)
(***************************************************************************)
Resting(name, start) == part # name => start
MCInit ==
    /\ part \in {"files", "memory", "nvme", "ahci", "usb"}
    /\ PagesInit
    /\ Resting("memory", managed = 3 /\ busy = {0})
    /\ NvmeDrive!Init
    /\ Resting("nvme", ~ctl.ready)
    /\ AhciDrive!AhciInit
    /\ Resting("ahci", data = cache /\ \A p \in 1 .. Ports : ~port[p].cr)
    /\ part \notin {"nvme", "ahci"} => cache = CHOOSE s \in Sector : TRUE
    /\ UsbHost!Init
    /\ Resting("usb", left = Happens(1, 1, 1))
    /\ FilesInit
    /\ disk <=> limits # Diskless
    /\ Resting("files", limits = Diskless /\ budget = Allowed(2, 1, 2))

Of(name) == part = name /\ UNCHANGED part
OfFiles  == Of("files") /\ FilesNext /\ UNCHANGED <<pagesVars, nvmeVars, ahciVars, driveVars, usbVars>>
OfMemory == Of("memory") /\ PagesNext /\ UNCHANGED <<filesVars, nvmeVars, ahciVars, driveVars, usbVars>>
OfNvme   == Of("nvme") /\ NvmeDrive!Next /\ UNCHANGED <<filesVars, pagesVars, ahciVars, usbVars>>
OfAhci   == Of("ahci") /\ AhciDrive!AhciNext /\ UNCHANGED <<filesVars, pagesVars, nvmeVars, usbVars>>
OfUsb    == Of("usb") /\ UsbHost!Next /\ UNCHANGED <<filesVars, pagesVars, nvmeVars, ahciVars, driveVars>>

MCNext ==
    \/ OfFiles \/ OfMemory \/ OfNvme \/ OfAhci \/ OfUsb
allVars == <<part, filesVars, pagesVars, nvmeVars, ahciVars, driveVars, usbVars>>
MCSpec == MCInit /\ [][MCNext]_allVars

\* Names and contents are interchangeable: no definition orders them.
Symmetry == Permutations(Name) \cup Permutations(Sector)
Fingerprint ==
    <<part, CASE part = "files" -> <<machine, nodes, fd, cwd, volume, roots, later, budget,
                                     [b \in Reached |-> blk[b]]>>
              [] part = "memory" -> pagesVars
              [] part = "nvme" -> <<nvmeVars, driveVars>>
              [] part = "ahci" -> <<ahciVars, driveVars>>
              [] part = "usb" -> UsbView>>
=============================================================================
