-------------------------------- MODULE Store --------------------------------
(***************************************************************************)
(* One NVSTORE3 volume of Nuvora Core: the copy-on-write extent maps of    *)
(* kernel/fs_extent.inc, the two-slot commit of kernel/store.c and the     *)
(* mount that follows a restart, over a drive with a volatile cache.       *)
(*                                                                         *)
(*  - tree        the files of the volume, each a map from logical blocks  *)
(*                to physical blocks (nodes[].extents)                     *)
(*  - pins        the blocks of the root in each slot (extent_vol.pins)    *)
(*  - active, generation, restoreError   struct volume_state               *)
(*  - phase       where sync_one stands; "off" while the power is off      *)
(*  - hdr, pay, blk     what the medium holds: the two commit headers, the *)
(*                      two metadata bodies, the data blocks               *)
(*  - hdrC, payC, blkC  writes the drive has taken but not yet made durable*)
(*                                                                         *)
(* A header stands for its CRCs by carrying the tree it commits: a slot is *)
(* valid when its body holds that very tree.  Kernel calls are serialized  *)
(* (fs_extent.inc:3), so no file changes while sync_one runs; a power loss *)
(* may fall between any two of its requests to the drive.                  *)
(***************************************************************************)
EXTENDS Integers, FiniteSets

CONSTANTS
    File,        \* path names of regular files
    LastLogical, \* highest logical block of a file
    Block,       \* physical 4 KiB blocks of the data area
    Value,       \* what a program may store in a block
    Zero,        \* what an unmapped or never written block reads as
    Junk,        \* a torn block or a partly written body
    Hole,        \* an unmapped logical block
    Absent,      \* no such file
    Blank,       \* an all-zero header sector
    Clean,       \* nothing pending in the drive's cache
    M,           \* generations are counted modulo M (2^32 in the code)
    ReadFaults   \* TRUE: a sector may be unreadable during one mount

Slot    == {0, 1}
Logical == 0 .. LastLogical
Data    == Value \cup {Zero, Junk}
Gen     == 0 .. M - 1
FileMap == [Logical -> Block \cup {Hole}]
Tree    == [File -> FileMap \cup {Absent}]
Header  == [gen : Gen, root : Tree]

\* There are generations enough to tell the next from the last, and the
\* sentinels are none of the values they stand beside.
ASSUME StoreAssumption ==
    /\ M \in Nat /\ M > 2
    /\ LastLogical \in Nat
    /\ ReadFaults \in BOOLEAN
    /\ Hole \notin Block
    /\ Absent \notin FileMap
    /\ Blank \notin Header
    /\ Junk \notin Tree
    /\ Clean \notin Data \cup Tree \cup {Junk} \cup Header \cup {Blank}

VARIABLES
    phase, restoreError, active, generation, tree, pins,
    hdr, pay, blk, hdrC, payC, blkC

kernel == <<phase, restoreError, active, generation, tree, pins>>
medium == <<hdr, pay, blk>>
volatile  == <<hdrC, payC, blkC>>
vars   == <<kernel, medium, volatile>>

TypeOK ==
    /\ phase \in {"off", "idle", "zeroed", "voided", "bodied", "durable", "headed"}
    /\ restoreError \in {"none", "nomem", "io"}
    /\ active \in {-1, 0, 1}
    /\ generation \in Gen
    /\ tree \in Tree
    /\ pins \in [Slot -> SUBSET Block]
    /\ hdr \in [Slot -> Header \cup {Blank}]
    /\ pay \in [Slot -> Tree \cup {Junk}]
    /\ blk \in [Block -> Data]
    /\ hdrC \in [Slot -> Header \cup {Blank, Clean}]
    /\ payC \in [Slot -> Tree \cup {Junk, Clean}]
    /\ blkC \in [Block -> Data \cup {Clean}]

-----------------------------------------------------------------------------
(* Trees and what they show *)

EmptyTree == [f \in File |-> Absent]
EmptyMap  == [l \in Logical |-> Hole]

\* The physical blocks a tree refers to: the extents fs_extent_prepare copies.
Refs(t) ==
    {b \in Block : \E f \in File, l \in Logical : t[f] # Absent /\ t[f][l] = b}

\* What a program reads through tree t when the blocks hold d (extent_read).
Contents(t, d) ==
    [f \in File |-> IF t[f] = Absent THEN Absent
                    ELSE [l \in Logical |-> IF t[f][l] = Hole THEN Zero
                                            ELSE d[t[f][l]]]]

\* A read is answered from the cache first.
Seen(m, c) == [x \in DOMAIN m |-> IF c[x] = Clean THEN m[x] ELSE c[x]]
SeenHdr == Seen(hdr, hdrC)
SeenPay == Seen(pay, payC)
SeenBlk == Seen(blk, blkC)

\* u32 addition and (i32)(a - b) > 0, both modulo M.  (Mutated forms, here and
\* below: a plausible slip in the definition that follows each.  SuccAlways
\* never wraps, NewerUnsigned compares without the sign.)
SuccAlways(g) == g + 1
Succ(g) == IF g = M - 1 THEN 0 ELSE g + 1
NewerUnsigned(a, b) == a > b
Newer(a, b) == LET d == IF a >= b THEN a - b ELSE a - b + M
               IN  d > 0 /\ 2 * d < M

\* Blocks extent_allocate may hand out.  (Mutated: the files' own extents are
\* not looked at.)
FreeIgnoringFiles == Block \ (pins[0] \cup pins[1])
Free == Block \ (pins[0] \cup pins[1] \cup Refs(tree))

\* sync_one writes to the slot that is not active.
Spare == IF active = 0 THEN 1 ELSE 0

\* A slot whose header reads back and whose body matches the header's CRC.
ValidIn(h, p, s) == h[s] # Blank /\ p[s] = h[s].root

\* store_init's choice between the usable slots.
Newest(h, S) ==
    IF 1 \in S /\ (0 \notin S \/ Newer(h[1].gen, h[0].gen)) THEN 1 ELSE 0
-----------------------------------------------------------------------------
Init ==
    /\ phase = "off"
    /\ restoreError = "none"
    /\ active = -1
    /\ generation = 0
    /\ tree = EmptyTree
    /\ pins = [s \in Slot |-> {}]
    /\ hdr = [s \in Slot |-> Blank]
    /\ pay = [s \in Slot |-> Junk]
    /\ blk = [b \in Block |-> Zero]
    /\ hdrC = [s \in Slot |-> Clean]
    /\ payC = [s \in Slot |-> Clean]
    /\ blkC = [b \in Block |-> Clean]

(* File operations: only between saves, never on a frozen volume. *)

MayEdit == phase = "idle" /\ restoreError = "none"

\* Fresh blocks for the logical blocks at .. to: p says which.
Placements(at, to) ==
    {p \in [at .. to -> Free] : \A i, j \in at .. to : p[i] = p[j] => i = j}

Remapped(map, p) ==
    [l \in Logical |-> IF l \in DOMAIN p THEN p[l] ELSE map[l]]

\* Write blocks of data to the drive's cache: v[b] into each b of DOMAIN v.
Handed(v) == [b \in Block |-> IF b \in DOMAIN v THEN v[b] ELSE blkC[b]]

\* fs_write on an extent volume: new blocks first, then the file's map.
Write(f, at, to) ==
    /\ MayEdit
    /\ tree[f] # Absent
    /\ \E p \in Placements(at, to) :
         /\ \E v \in [{p[l] : l \in at .. to} -> Value] : blkC' = Handed(v)
         /\ tree' = [tree EXCEPT ![f] = Remapped(tree[f], p)]
    /\ UNCHANGED <<phase, restoreError, active, generation, pins, medium, hdrC, payC>>

\* A drive error part of the way: the blocks written stay unused.
WriteFails ==
    /\ MayEdit
    /\ \E b \in Free : blkC' = [blkC EXCEPT ![b] = Junk]
    /\ UNCHANGED <<kernel, medium, hdrC, payC>>

\* fs_open with NV_CREATE, or with NV_TRUNC: a file without extents.
Create(f) ==
    /\ MayEdit
    /\ tree' = [tree EXCEPT ![f] = EmptyMap]
    /\ UNCHANGED <<phase, restoreError, active, generation, pins, medium, volatile>>

Remove(f) ==
    /\ MayEdit
    /\ tree[f] # Absent
    /\ tree' = [tree EXCEPT ![f] = Absent]
    /\ UNCHANGED <<phase, restoreError, active, generation, pins, medium, volatile>>

\* fs_replace and fs_move: g takes over the map of f.
Replace(f, g) ==
    /\ MayEdit
    /\ f # g
    /\ tree[f] # Absent
    /\ tree' = [tree EXCEPT ![g] = tree[f], ![f] = Absent]
    /\ UNCHANGED <<phase, restoreError, active, generation, pins, medium, volatile>>
-----------------------------------------------------------------------------
(* NV_CTL_SYNC: sync_one, one request to the drive per step.  A request    *)
(* that fails before the commit header ends the save with everything       *)
(* pinned; a header that fails is ambiguous and freezes the volume.        *)

\* disk_flush succeeded: everything pending is on the medium.
Flushed ==
    /\ hdr' = SeenHdr /\ hdrC' = [s \in Slot |-> Clean]
    /\ pay' = SeenPay /\ payC' = [s \in Slot |-> Clean]
    /\ blk' = SeenBlk /\ blkC' = [b \in Block |-> Clean]

\* It failed: nothing is known to have moved.
NotFlushed == UNCHANGED <<medium, volatile>>

KeepState == UNCHANGED <<restoreError, active, generation, tree, pins>>

ZeroHeader ==
    /\ phase = "idle" /\ restoreError = "none"
    /\ phase' = "zeroed"
    /\ hdrC' = [hdrC EXCEPT ![Spare] = Blank]
    /\ UNCHANGED <<medium, payC, blkC>> /\ KeepState

ZeroHeaderFails ==
    /\ phase = "idle" /\ restoreError = "none"
    /\ hdrC' = [hdrC EXCEPT ![Spare] = Blank]
    /\ UNCHANGED <<phase, medium, payC, blkC>> /\ KeepState

\* (Mutated: the zero header is not flushed.)
FlushZeroSkipped == phase = "zeroed" /\ phase' = "voided" /\ NotFlushed /\ KeepState
FlushZero ==
    /\ phase = "zeroed"
    /\ phase' = "voided"
    /\ Flushed /\ KeepState

WriteBody ==
    /\ phase = "voided"
    /\ phase' = "bodied"
    /\ payC' = [payC EXCEPT ![Spare] = tree]
    /\ UNCHANGED <<medium, hdrC, blkC>> /\ KeepState

\* A sector of the body fails, or the tree does not fit the slot.
WriteBodyFails ==
    /\ phase = "voided"
    /\ phase' = "idle"
    /\ payC' = [payC EXCEPT ![Spare] = Junk]
    /\ UNCHANGED <<medium, hdrC, blkC>> /\ KeepState

\* (Mutated: the body is not flushed before the header.)
FlushBodySkipped == phase = "bodied" /\ phase' = "durable" /\ NotFlushed /\ KeepState
FlushBody ==
    /\ phase = "bodied"
    /\ phase' = "durable"
    /\ Flushed /\ KeepState

\* The flush after the zero header or after the body fails: no commit.
FlushFails ==
    /\ phase \in {"zeroed", "bodied"}
    /\ phase' = "idle"
    /\ NotFlushed /\ KeepState

Commit == [gen |-> Succ(generation), root |-> tree]

WriteHeader ==
    /\ phase = "durable"
    /\ phase' = "headed"
    /\ hdrC' = [hdrC EXCEPT ![Spare] = Commit]
    /\ UNCHANGED <<medium, payC, blkC>> /\ KeepState

\* The drive reports an error; the sector may have reached it all the same.
WriteHeaderFails ==
    /\ phase = "durable"
    /\ phase' = "idle"
    /\ restoreError' = "io"
    /\ hdrC' \in {hdrC, [hdrC EXCEPT ![Spare] = Commit]}
    /\ UNCHANGED <<active, generation, tree, pins, medium, payC, blkC>>

\* fs_extent_finish(committed): the slot's pins become the blocks saved.
\* (Mutated: the pins are not renewed.)
FlushHeaderUnpinned ==
    /\ phase = "headed"
    /\ phase' = "idle"
    /\ active' = Spare
    /\ generation' = Succ(generation)
    /\ Flushed
    /\ UNCHANGED <<restoreError, tree, pins>>
FlushHeader ==
    /\ phase = "headed"
    /\ phase' = "idle"
    /\ active' = Spare
    /\ generation' = Succ(generation)
    /\ pins' = [pins EXCEPT ![Spare] = Refs(tree)]
    /\ Flushed
    /\ UNCHANGED <<restoreError, tree>>

\* The last flush fails: ambiguous too.  (Mutated: treated like any other error.)
FlushHeaderForgiven ==
    /\ phase = "headed"
    /\ phase' = "idle"
    /\ NotFlushed /\ KeepState
FlushHeaderFails ==
    /\ phase = "headed"
    /\ phase' = "idle"
    /\ restoreError' = "io"
    /\ NotFlushed
    /\ UNCHANGED <<active, generation, tree, pins>>
-----------------------------------------------------------------------------
(* Restarts *)

\* The drive may have made any of the pending writes durable, in any order;
\* several sectors of one block or body may have gone either way.
Survivors(m, c, torn) ==
    {n \in [DOMAIN m -> (UNION {{m[x], c[x]} : x \in DOMAIN m}) \cup torn] :
        \A x \in DOMAIN m :
            \/ n[x] = m[x]
            \/ c[x] # Clean /\ n[x] \in {c[x]} \cup torn}

Forgotten ==
    /\ phase' = "off"
    /\ restoreError' = "none"
    /\ active' = -1
    /\ generation' = 0
    /\ tree' = EmptyTree
    /\ pins' = [s \in Slot |-> {}]

PowerLoss ==
    /\ phase # "off"
    /\ Forgotten
    /\ hdr' \in Survivors(hdr, hdrC, {})
    /\ pay' \in Survivors(pay, payC, {Junk})
    /\ blk' \in Survivors(blk, blkC, {Junk})
    /\ hdrC' = [s \in Slot |-> Clean]
    /\ payC' = [s \in Slot |-> Clean]
    /\ blkC' = [b \in Block |-> Clean]

\* The processor restarts, the drive does not.
Reset ==
    /\ phase # "off"
    /\ Forgotten
    /\ UNCHANGED <<medium, volatile>>

\* store_init, with `lost' the slots a read error hides while the roots are
\* validated and `flaky' those it hides while one is activated.
Unreadable == IF ReadFaults THEN SUBSET Slot ELSE {{}}
Usable(lost) == {s \in Slot \ lost : ValidIn(SeenHdr, SeenPay, s)}
AllBlank(lost) == lost = {} /\ \A s \in Slot : SeenHdr[s] = Blank
PinsOf(S) == [s \in Slot |-> IF s \in S THEN Refs(SeenHdr[s].root) ELSE {}]

Mount ==
    /\ phase = "off"
    /\ \E lost, flaky \in Unreadable :
         LET good == Usable(lost)
             s == Newest(SeenHdr, good \ flaky)
         IN  /\ good \ flaky # {}
             /\ active' = s
             /\ generation' = SeenHdr[s].gen
             /\ tree' = SeenHdr[s].root
             /\ pins' = PinsOf(good)
    /\ phase' = "idle"
    /\ UNCHANGED <<restoreError, medium, volatile>>

\* No slot can be used: an empty volume if both headers are blank, else no
\* writing until the next boot.
MountNothing ==
    /\ phase = "off"
    /\ \E lost, flaky \in Unreadable :
         /\ Usable(lost) \subseteq flaky
         /\ restoreError' = IF AllBlank(lost) THEN "none" ELSE "io"
         /\ pins' = PinsOf(Usable(lost))
    /\ phase' = "idle"
    /\ UNCHANGED <<active, generation, tree, medium, volatile>>

\* Memory or nodes run out while a root is validated or activated.
MountStarved ==
    /\ phase = "off"
    /\ \E lost \in Unreadable : \E kept \in SUBSET Usable(lost) :
         /\ Usable(lost) # {}
         /\ pins' = PinsOf(kept)
    /\ restoreError' = "nomem"
    /\ phase' = "idle"
    /\ UNCHANGED <<active, generation, tree, medium, volatile>>

Next ==
    \/ \E f \in File, at, to \in Logical : at <= to /\ Write(f, at, to)
    \/ WriteFails
    \/ \E f \in File : Create(f) \/ Remove(f)
    \/ \E f, g \in File : Replace(f, g)
    \/ ZeroHeader \/ ZeroHeaderFails \/ FlushZero
    \/ WriteBody \/ WriteBodyFails \/ FlushBody \/ FlushFails
    \/ WriteHeader \/ WriteHeaderFails \/ FlushHeader \/ FlushHeaderFails
    \/ PowerLoss
    \/ Mount \/ MountNothing \/ MountStarved

Spec == Init /\ [][Next]_vars

\* The same with restarts that leave the drive powered
WarmNext == Next \/ Reset
WarmSpec == Init /\ [][WarmNext]_vars
-----------------------------------------------------------------------------
(* Properties *)

\* A commit header never reaches the medium before the body it vouches for:
\* whatever a power loss leaves, a header that reads back has its metadata
\* (store.c, the two flushes that precede the header write).
BodyBeforeHeader == \A s \in Slot : hdr[s] # Blank => pay[s] = hdr[s].root

\* The two roots a power loss may leave are exactly one save apart, also where
\* the 32-bit generation wraps, so the signed comparison of store_init always
\* knows the newer one.
RootsOneSaveApart ==
    hdr[0] # Blank /\ hdr[1] # Blank =>
        \/ hdr[1].gen = Succ(hdr[0].gen) /\ Newer(hdr[1].gen, hdr[0].gen)
        \/ hdr[0].gen = Succ(hdr[1].gen) /\ Newer(hdr[0].gen, hdr[1].gen)

\* Whatever files, saves and failures follow, no block of a root that a boot
\* could still choose is written again (docs/STORAGE-0.10.md: blocks of the two
\* committed roots and of the working tree are never reused).
CommittedRootsUntouched ==
    [][phase # "off" /\ phase' # "off" =>
         \A s \in Slot : ValidIn(hdr, pay, s) =>
            \A b \in Refs(hdr[s].root) : SeenBlk'[b] = SeenBlk[b]]_vars

\* A file whose map a call leaves alone shows the same bytes afterwards: a
\* write to one file, or a write that fails, is never visible in another file
\* or in the old contents (fs_extent.inc: failed I/O leaves all previously
\* visible bytes untouched).
CopyOnWrite ==
    [][phase # "off" /\ phase' # "off" =>
         \A f \in File : tree'[f] = tree[f] =>
            Contents(tree, SeenBlk)'[f] = Contents(tree, SeenBlk)[f]]_vars

\* What a remount mounted is on stable storage, as the comment in sync_one
\* expects of "a remount [that] has read which root reached stable storage".
MountedRootIsDurable ==
    phase = "idle" /\ restoreError = "none" /\ active # -1 =>
        hdrC[active] = Clean

(* The promise of DurableVolume, through what this state means to a program. *)

\* The slot the next mount will choose, from the medium alone.
Durable == {s \in Slot : ValidIn(hdr, pay, s)}
OnMedium(s) == Contents(hdr[s].root, blk)
Everything == [File -> [Logical -> Data] \cup {Absent}]

VolumeMode ==
    IF phase = "off" THEN "off" ELSE IF restoreError = "none" THEN "live" ELSE "frozen"

VolumeStable ==
    IF phase # "off" /\ restoreError # "nomem"
    THEN IF active = -1 THEN EmptyTree ELSE OnMedium(active)
    ELSE IF Durable = {} THEN EmptyTree ELSE OnMedium(Newest(hdr, Durable))

VolumeWork == Contents(tree, SeenBlk)

VolumeOffered == IF phase = "headed" \/ restoreError = "io" THEN {VolumeWork} ELSE {}

Volume == INSTANCE DurableVolume WITH
    Content <- Everything, Nothing <- EmptyTree,
    mode <- VolumeMode, work <- VolumeWork,
    stable <- VolumeStable, offered <- VolumeOffered

\* Saves are atomic and, once acknowledged, permanent; a boot shows what the
\* power loss left; an unsettled save freezes the volume.
Promise == Volume!Spec
-----------------------------------------------------------------------------
(* The inductive invariant behind the properties, for a drive that loses   *)
(* its cache in every restart and answers every read of a mount.           *)

CleanCache ==
    /\ hdrC = [s \in Slot |-> Clean]
    /\ payC = [s \in Slot |-> Clean]
    /\ blkC = [b \in Block |-> Clean]

\* After a power loss memory holds nothing and the drive has nothing pending.
Resting ==
    phase = "off" => /\ restoreError = "none" /\ active = -1 /\ generation = 0
                     /\ tree = EmptyTree /\ CleanCache

\* A volume frozen for want of memory has been left alone since the boot.
StarvedUntouched ==
    restoreError = "nomem" => active = -1 /\ tree = EmptyTree /\ CleanCache

NoSaveWhenFrozen == restoreError # "none" => phase = "idle"

Running == phase # "off" /\ restoreError # "nomem"

\* The root in slot s is complete on the medium and its blocks are pinned.
Sheltered(s) ==
    /\ payC[s] = Clean
    /\ Refs(hdr[s].root) \subseteq pins[s]
    /\ \A b \in Refs(hdr[s].root) : blkC[b] = Clean

ActiveRoot ==
    Running =>
        IF active = -1
        THEN hdr[1] = Blank /\ hdrC[1] = Clean /\ generation = 0
        ELSE /\ hdr[active] # Blank /\ hdrC[active] = Clean
             /\ hdr[active].gen = generation
             /\ Sheltered(active)

\* The other slot still holds the previous save until its header is zeroed.
SpareRoot ==
    Running /\ hdr[Spare] # Blank =>
        /\ phase \in {"idle", "zeroed"} /\ restoreError = "none"
        /\ active # -1 /\ generation = Succ(hdr[Spare].gen)
        /\ Sheltered(Spare)

\* The save in progress: what each step of sync_one has made sure of.
SaveProgress ==
    Running =>
        /\ phase \in {"voided", "bodied", "durable", "headed"} => hdr[Spare] = Blank
        /\ phase = "idle" /\ restoreError = "none" => hdrC[Spare] \in {Clean, Blank}
        /\ phase = "zeroed" => hdrC[Spare] = Blank
        /\ phase \in {"voided", "bodied", "durable"} => hdrC[Spare] = Clean
        /\ phase = "bodied" => payC[Spare] = tree
        /\ phase = "headed" => hdrC[Spare] = Commit
        /\ restoreError = "io" => hdr[Spare] = Blank /\ hdrC[Spare] \in {Clean, Commit}
        /\ phase \in {"durable", "headed"} \/ restoreError = "io" =>
              /\ pay[Spare] = tree /\ payC[Spare] = Clean
              /\ \A b \in Refs(tree) : blkC[b] = Clean

\* Between any two requests to the drive the volume is one power loss away
\* from a consistent boot.
CrashReady ==
    /\ Resting /\ StarvedUntouched /\ NoSaveWhenFrozen
    /\ ActiveRoot /\ SpareRoot /\ SaveProgress
    /\ BodyBeforeHeader /\ RootsOneSaveApart
=============================================================================
