---------------------------- MODULE MachineProofs -----------------------------
(***************************************************************************)
(* Proofs about Store, for any files, blocks and generations, about Ahci,  *)
(* for any number of ports and pages, and about Pages, for any amount of   *)
(* memory.                                                                 *)
(*                                                                         *)
(* Store. At every point of a save a power loss leaves a root that a boot  *)
(* chooses, with its body and its blocks, and that is the DurableVolume    *)
(* promise.                                                                *)
(*                                                                         *)
(* Ahci. Ports are asked one after the other.  Those before the present    *)
(* one have stopped or were left as the firmware had them, those after it  *)
(* know nothing of the driver's pages; what the present one knows are the  *)
(* driver's pages, and its engines have stopped when they are given back.  *)
(*                                                                         *)
(* Pages. The index is the true one before a call and after it: the blocks *)
(* looked at again are those the pages of the call are in, and a block     *)
(* that is not looked at has none of them.  The cursors stay on their side *)
(* of 4 GiB, so a search from one and then before it sees every page.      *)
(***************************************************************************)
EXTENDS Store, Ahci, Pages, TLAPS, FiniteSetTheorems

-----------------------------------------------------------------------------
(* The operators the model is built from *)

LEMMA SuccType == \A g \in Gen : Succ(g) \in Gen
  BY StoreAssumption DEF Gen, Succ

LEMMA EmptyTreeType == EmptyTree \in Tree
  BY DEF EmptyTree, Tree

LEMMA EmptyMapType == EmptyMap \in FileMap
  BY DEF EmptyMap, FileMap

LEMMA SpareType == TypeOK => Spare \in Slot
  BY DEF Spare, Slot

LEMMA RefsType == \A t : Refs(t) \in SUBSET Block
  BY DEF Refs

LEMMA CommitType == TypeOK => Commit \in Header
  BY SuccType DEF TypeOK, Commit, Header

LEMMA SeenTypes ==
  TypeOK => /\ SeenHdr \in [Slot -> Header \cup {Blank}]
            /\ SeenPay \in [Slot -> Tree \cup {Junk}]
            /\ SeenBlk \in [Block -> Data]
  BY DEF TypeOK, SeenHdr, SeenPay, SeenBlk, Seen

\* What a power loss leaves in one place is the old or the pending version,
\* or a torn one.
LEMMA SurvivorsChoice ==
  ASSUME NEW D, NEW m, DOMAIN m = D, NEW c, NEW torn,
         NEW n \in Survivors(m, c, torn)
  PROVE  /\ n = [x \in D |-> n[x]]
         /\ \A x \in D : \/ n[x] = m[x]
                         \/ c[x] # Clean /\ n[x] \in {c[x]} \cup torn
  BY DEF Survivors

LEMMA ForgottenType == Forgotten =>
    /\ phase' = "off" /\ restoreError' = "none"
    /\ active' \in {-1, 0, 1} /\ generation' \in Gen
    /\ tree' \in Tree /\ pins' \in [Slot -> SUBSET Block]
  BY StoreAssumption, EmptyTreeType DEF Forgotten, Gen, Slot

LEMMA CleanTypes ==
  /\ [s \in Slot |-> Clean] \in [Slot -> Header \cup {Blank, Clean}]
  /\ [s \in Slot |-> Clean] \in [Slot -> Tree \cup {Junk, Clean}]
  /\ [b \in Block |-> Clean] \in [Block -> Data \cup {Clean}]
  OBVIOUS

LEMMA FlushedType ==
  TypeOK /\ Flushed =>
    /\ hdr' \in [Slot -> Header \cup {Blank}]
    /\ pay' \in [Slot -> Tree \cup {Junk}]
    /\ blk' \in [Block -> Data]
    /\ hdrC' \in [Slot -> Header \cup {Blank, Clean}]
    /\ payC' \in [Slot -> Tree \cup {Junk, Clean}]
    /\ blkC' \in [Block -> Data \cup {Clean}]
  BY SeenTypes, CleanTypes DEF Flushed

-----------------------------------------------------------------------------
(* Types *)

LEMMA InitType == Init => TypeOK
  BY StoreAssumption, EmptyTreeType DEF Init, TypeOK, Gen, Data, Slot

LEMMA EditType ==
  ASSUME TypeOK,
         \/ \E f \in File, at, to \in Logical : at <= to /\ Write(f, at, to)
         \/ WriteFails
         \/ \E f \in File : Create(f) \/ Remove(f)
         \/ \E f, g \in File : Replace(f, g)
  PROVE  TypeOK'
<1>1. CASE \E f \in File, at, to \in Logical : at <= to /\ Write(f, at, to)
  <2>1. PICK f \in File, at \in Logical, to \in Logical : Write(f, at, to)
    BY <1>1
  <2>a. PICK p \in Placements(at, to) :
          /\ \E v \in [{p[l] : l \in at .. to} -> Value] : blkC' = Handed(v)
          /\ tree' = [tree EXCEPT ![f] = Remapped(tree[f], p)]
    BY <2>1 DEF Write
  <2>2. PICK v \in [{p[l] : l \in at .. to} -> Value] : blkC' = Handed(v)
    BY <2>a
  <2>3. tree[f] \in FileMap
    BY <2>1 DEF Write, TypeOK, Tree
  <2>4. p \in [at .. to -> Block]
    BY DEF Placements, Free
  <2>5. Remapped(tree[f], p) \in FileMap
    BY <2>3, <2>4 DEF Remapped, FileMap
  <2>6. tree' \in Tree
    BY <2>a, <2>5 DEF TypeOK, Tree
  <2>7. blkC' \in [Block -> Data \cup {Clean}]
    BY <2>2 DEF Handed, TypeOK, Data
  <2> QED
    BY <2>1, <2>6, <2>7 DEF Write, TypeOK, medium
<1>2. CASE WriteFails
  BY <1>2 DEF WriteFails, TypeOK, kernel, medium, Data, Free
<1>3. CASE \E f \in File : Create(f) \/ Remove(f)
  BY <1>3, EmptyMapType DEF Create, Remove, TypeOK, Tree, medium, volatile
<1>4. CASE \E f, g \in File : Replace(f, g)
  BY <1>4 DEF Replace, TypeOK, Tree, medium, volatile
<1> QED
  BY <1>1, <1>2, <1>3, <1>4

LEMMA SaveType ==
  ASSUME TypeOK,
         \/ ZeroHeader \/ ZeroHeaderFails \/ FlushZero
         \/ WriteBody \/ WriteBodyFails \/ FlushBody \/ FlushFails
         \/ WriteHeader \/ WriteHeaderFails \/ FlushHeader \/ FlushHeaderFails
  PROVE  TypeOK'
<1> USE SpareType
<1>1. CASE ZeroHeader \/ ZeroHeaderFails
  BY <1>1 DEF ZeroHeader, ZeroHeaderFails, KeepState, TypeOK, medium
<1>2. CASE FlushZero
  BY <1>2, FlushedType DEF FlushZero, KeepState, TypeOK
<1>3. CASE WriteBody \/ WriteBodyFails
  BY <1>3 DEF WriteBody, WriteBodyFails, KeepState, TypeOK, medium
<1>4. CASE FlushBody
  BY <1>4, FlushedType DEF FlushBody, KeepState, TypeOK
<1>5. CASE FlushFails \/ FlushHeaderFails
  BY <1>5 DEF FlushFails, FlushHeaderFails, NotFlushed, KeepState, TypeOK, medium, volatile
<1>6. CASE WriteHeader \/ WriteHeaderFails
  BY <1>6, CommitType DEF WriteHeader, WriteHeaderFails, KeepState, TypeOK, medium
<1>7. CASE FlushHeader
  BY <1>7, FlushedType, SuccType, RefsType DEF FlushHeader, TypeOK, Spare
<1> QED
  BY <1>1, <1>2, <1>3, <1>4, <1>5, <1>6, <1>7

LEMMA RestartType ==
  ASSUME TypeOK,
         PowerLoss \/ Mount \/ MountNothing \/ MountStarved
  PROVE  TypeOK'
<1>1. CASE PowerLoss
  <2>1. hdr' \in [Slot -> Header \cup {Blank}]
    BY <1>1, SurvivorsChoice DEF PowerLoss, TypeOK
  <2>2. pay' \in [Slot -> Tree \cup {Junk}]
    BY <1>1, SurvivorsChoice DEF PowerLoss, TypeOK
  <2>3. blk' \in [Block -> Data]
    BY <1>1, SurvivorsChoice DEF PowerLoss, TypeOK, Data
  <2> QED
    BY <1>1, <2>1, <2>2, <2>3, ForgottenType, CleanTypes DEF PowerLoss, TypeOK
<1>3. \A S \in SUBSET Slot : PinsOf(S) \in [Slot -> SUBSET Block]
  BY RefsType DEF PinsOf
<1>4. \A lost : Usable(lost) \in SUBSET Slot
  BY DEF Usable
<1>5. CASE Mount
  <2>1. PICK lost \in Unreadable, flaky \in Unreadable :
          LET s == Newest(SeenHdr, Usable(lost) \ flaky)
          IN  /\ Usable(lost) \ flaky # {}
              /\ active' = s /\ generation' = SeenHdr[s].gen
              /\ tree' = SeenHdr[s].root /\ pins' = PinsOf(Usable(lost))
    BY <1>5 DEF Mount
  <2> DEFINE s == Newest(SeenHdr, Usable(lost) \ flaky)
  <2>2. s \in Usable(lost)
    BY <2>1, <1>4 DEF Newest, Slot
  <2>3. s \in Slot /\ SeenHdr[s] \in Header
    BY <2>2, SeenTypes DEF Usable, ValidIn
  <2>4. active' \in {-1, 0, 1} /\ generation' \in Gen /\ tree' \in Tree
    BY <2>1, <2>3 DEF Header, Slot
  <2> QED
    BY <1>5, <2>1, <2>4, <1>3, <1>4 DEF Mount, TypeOK, medium, volatile
<1>6. CASE MountNothing
  <2>1. pins' \in [Slot -> SUBSET Block]
    BY <1>6, <1>3, <1>4 DEF MountNothing
  <2> QED
    BY <1>6, <2>1 DEF MountNothing, TypeOK, medium, volatile
<1>7. CASE MountStarved
  <2>1. pins' \in [Slot -> SUBSET Block]
    BY <1>7, <1>3, <1>4 DEF MountStarved
  <2> QED
    BY <1>7, <2>1 DEF MountStarved, TypeOK, medium, volatile
<1> QED
  BY <1>1, <1>5, <1>6, <1>7

LEMMA NextType == TypeOK /\ [Next]_vars => TypeOK'
<1> SUFFICES ASSUME TypeOK, [Next]_vars PROVE TypeOK'
  OBVIOUS
<1>1. CASE UNCHANGED vars
  BY <1>1 DEF vars, kernel, medium, volatile, TypeOK
<1> QED
  BY <1>1, EditType, SaveType, RestartType DEF Next

\* Every reachable state of the volume, its medium and the drive's cache is
\* well formed, for every volume size and generation width.
THEOREM TypesHold == Spec => []TypeOK
  BY InitType, NextType, PTL DEF Spec
-----------------------------------------------------------------------------
(* A power loss is survivable at every point of a save *)

LEMMA Sentinels ==
  /\ Clean # Blank /\ Clean # Junk /\ Clean \notin Header /\ Clean \notin Tree
  /\ Clean \notin Data /\ Blank \notin Header /\ Junk \notin Tree
  BY StoreAssumption DEF Data

\* One save apart is always told apart, on either side of the wrap.
LEMMA NewerBySucc ==
  \A g \in Gen : Newer(Succ(g), g) /\ ~Newer(g, Succ(g))
  BY StoreAssumption, SMT DEF Gen, Succ, Newer

LEMMA EmptyRefs == Refs(EmptyTree) = {}
  BY DEF Refs, EmptyTree

LEMMA InitReady == Init => CrashReady
  BY Sentinels
  DEF Init, CrashReady, Resting, StarvedUntouched, NoSaveWhenFrozen, ActiveRoot,
      SpareRoot, SaveProgress, Running, BodyBeforeHeader, RootsOneSaveApart, CleanCache, Slot

\* What holds while files may change.
LEMMA EditFrame ==
  ASSUME TypeOK, CrashReady, MayEdit,
         UNCHANGED <<phase, restoreError, active, generation, pins, medium, hdrC, payC>>,
         tree' \in Tree,
         blkC' \in [Block -> Data \cup {Clean}],
         \A b \in Block : b \notin Free => blkC'[b] = blkC[b]
  PROVE  CrashReady'
<1> USE DEF MayEdit, medium
<1>1. Running /\ Running' /\ Spare' = Spare
  BY DEF Running, Spare
<1>2. \A s \in Slot, b \in Block : b \in pins[s] => blkC'[b] = blkC[b]
  BY DEF Free, Slot
<1>3. \A s \in Slot : Sheltered(s) => Sheltered(s)'
  BY <1>2, RefsType DEF Sheltered
<1>4. Resting' /\ StarvedUntouched' /\ NoSaveWhenFrozen'
  BY DEF CrashReady, NoSaveWhenFrozen, Resting, StarvedUntouched
<1>5. ActiveRoot'
  BY <1>1, <1>3 DEF CrashReady, ActiveRoot, TypeOK, Slot
<1>6. SpareRoot'
  BY <1>1, <1>3, SpareType DEF CrashReady, SpareRoot
<1>7. SaveProgress'
  BY <1>1 DEF CrashReady, SaveProgress
<1>8. BodyBeforeHeader' /\ RootsOneSaveApart'
  BY DEF CrashReady, BodyBeforeHeader, RootsOneSaveApart
<1> QED
  BY <1>4, <1>5, <1>6, <1>7, <1>8 DEF CrashReady

LEMMA EditReady ==
  ASSUME TypeOK, CrashReady, TypeOK',
         \/ \E f \in File, at, to \in Logical : at <= to /\ Write(f, at, to)
         \/ WriteFails
         \/ \E f \in File : Create(f) \/ Remove(f)
         \/ \E f, g \in File : Replace(f, g)
  PROVE  CrashReady'
<1>1. CASE \E f \in File, at, to \in Logical : at <= to /\ Write(f, at, to)
  <2>1. PICK f \in File, at \in Logical, to \in Logical : Write(f, at, to)
    BY <1>1
  <2>2. PICK p \in Placements(at, to) :
          \E v \in [{p[l] : l \in at .. to} -> Value] : blkC' = Handed(v)
    BY <2>1 DEF Write
  <2>3. PICK v \in [{p[l] : l \in at .. to} -> Value] : blkC' = Handed(v)
    BY <2>2
  <2>4. DOMAIN v \subseteq Free
    BY DEF Placements
  <2>5. \A b \in Block : b \notin Free => blkC'[b] = blkC[b]
    BY <2>3, <2>4 DEF Handed
  <2> QED
    BY <2>1, <2>5, EditFrame DEF Write, TypeOK
<1>2. CASE WriteFails
  BY <1>2, EditFrame DEF WriteFails, kernel, TypeOK
<1>3. CASE \E f \in File : Create(f) \/ Remove(f)
  BY <1>3, EditFrame DEF Create, Remove, volatile, TypeOK
<1>4. CASE \E f, g \in File : Replace(f, g)
  BY <1>4, EditFrame DEF Replace, volatile, TypeOK
<1> QED
  BY <1>1, <1>2, <1>3, <1>4

\* A step of sync_one that leaves the medium, the working tree and what is
\* pinned alone, and touches the cache in the spare slot only.
LEMMA SaveFrame ==
  ASSUME TypeOK, CrashReady, phase # "off", restoreError = "none", phase' # "off",
         UNCHANGED <<active, generation, tree, pins, medium, blkC>>,
         restoreError' \in {"none", "io"}, restoreError' = "io" => phase' = "idle",
         hdrC'[1 - Spare] = hdrC[1 - Spare], payC'[1 - Spare] = payC[1 - Spare],
         hdr[Spare] # Blank => /\ payC'[Spare] = payC[Spare]
                               /\ phase' \in {"idle", "zeroed"} /\ restoreError' = "none"
  PROVE  /\ Resting' /\ StarvedUntouched' /\ NoSaveWhenFrozen'
         /\ ActiveRoot' /\ SpareRoot' /\ BodyBeforeHeader' /\ RootsOneSaveApart'
<1> USE DEF medium
<1>1. Running /\ Running' /\ Spare' = Spare
  BY DEF Running, Spare
<1>2. Resting' /\ StarvedUntouched' /\ NoSaveWhenFrozen'
  BY DEF Resting, StarvedUntouched, NoSaveWhenFrozen
<1>3. ActiveRoot'
  <2>1. active = -1 \/ active = 1 - Spare
    BY DEF TypeOK, Spare
  <2>2. Spare = 0 \/ active = 0
    BY DEF Spare
  <2> QED
    BY <1>1, <2>1, <2>2 DEF CrashReady, ActiveRoot, Sheltered, Spare
<1>4. SpareRoot'
  BY <1>1 DEF CrashReady, SpareRoot, Sheltered
<1>5. BodyBeforeHeader' /\ RootsOneSaveApart'
  BY DEF CrashReady, BodyBeforeHeader, RootsOneSaveApart
<1> QED
  BY <1>2, <1>3, <1>4, <1>5

LEMMA SaveStepReady ==
  ASSUME TypeOK, CrashReady,
         \/ ZeroHeader \/ ZeroHeaderFails
         \/ WriteBody \/ WriteBodyFails \/ FlushFails
         \/ WriteHeader \/ WriteHeaderFails \/ FlushHeaderFails
  PROVE  CrashReady'
<1> USE SpareType, Sentinels
<1>0. 1 - Spare \in Slot /\ 1 - Spare # Spare
  BY DEF Spare, Slot
<1>1. CASE ZeroHeader \/ ZeroHeaderFails
  <2>1. Running /\ Running' /\ Spare' = Spare /\ hdrC'[Spare] = Blank
    BY <1>1 DEF ZeroHeader, ZeroHeaderFails, KeepState, Running, Spare, TypeOK, Slot
  <2>2. SaveProgress'
    BY <1>1, <2>1 DEF ZeroHeader, ZeroHeaderFails, KeepState, SaveProgress, medium
  <2> QED
    BY <1>0, <1>1, <2>2, SaveFrame
    DEF ZeroHeader, ZeroHeaderFails, KeepState, TypeOK, CrashReady, SpareRoot
<1>2. CASE WriteBody \/ WriteBodyFails
  <2>1. Running /\ Running' /\ Spare' = Spare
    BY <1>2 DEF WriteBody, WriteBodyFails, KeepState, Running, Spare,
                CrashReady, NoSaveWhenFrozen
  <2>2. hdr[Spare] = Blank /\ hdrC[Spare] = Clean /\ restoreError = "none"
    BY <1>2, <2>1 DEF WriteBody, WriteBodyFails, CrashReady, SaveProgress, NoSaveWhenFrozen
  <2>3. SaveProgress'
    BY <1>2, <2>1, <2>2
    DEF WriteBody, WriteBodyFails, KeepState, SaveProgress, medium, TypeOK
  <2> QED
    BY <1>0, <1>2, <2>2, <2>3, SaveFrame
    DEF WriteBody, WriteBodyFails, KeepState, TypeOK, CrashReady
<1>3. CASE FlushFails
  <2>1. Running /\ Running' /\ Spare' = Spare /\ restoreError = "none"
    BY <1>3 DEF FlushFails, KeepState, Running, Spare, CrashReady, NoSaveWhenFrozen
  <2>2. SaveProgress'
    BY <1>3, <2>1
    DEF FlushFails, NotFlushed, KeepState, CrashReady, SaveProgress, medium, volatile
  <2> QED
    BY <1>0, <1>3, <2>1, <2>2, SaveFrame
    DEF FlushFails, NotFlushed, KeepState, volatile, CrashReady
<1>4. CASE WriteHeader \/ WriteHeaderFails
  <2>1. Running /\ Running' /\ Spare' = Spare /\ Commit' = Commit /\ restoreError = "none"
    BY <1>4 DEF WriteHeader, WriteHeaderFails, KeepState, Running, Spare, Commit,
                CrashReady, NoSaveWhenFrozen
  <2>2. /\ hdr[Spare] = Blank /\ hdrC[Spare] = Clean
        /\ pay[Spare] = tree /\ payC[Spare] = Clean /\ \A b \in Refs(tree) : blkC[b] = Clean
    BY <1>4, <2>1 DEF WriteHeader, WriteHeaderFails, CrashReady, SaveProgress
  <2>3. hdrC'[Spare] \in {Clean, Commit} /\ (phase' = "headed" => hdrC'[Spare] = Commit)
    BY <1>4, <2>2 DEF WriteHeader, WriteHeaderFails, TypeOK
  <2>4. \/ phase' = "headed" /\ restoreError' = "none"
        \/ phase' = "idle" /\ restoreError' = "io"
    <3>1. CASE WriteHeader
      BY <3>1, <2>1 DEF WriteHeader, KeepState
    <3>2. CASE WriteHeaderFails
      BY <3>2 DEF WriteHeaderFails
    <3> QED
      BY <1>4, <3>1, <3>2
  <2>5. UNCHANGED <<active, generation, tree, pins, medium, payC, blkC>>
    BY <1>4 DEF WriteHeader, WriteHeaderFails, KeepState
  <2>6. SaveProgress'
    BY <2>1, <2>2, <2>3, <2>4, <2>5 DEF SaveProgress, medium
  <2>7. hdrC'[1 - Spare] = hdrC[1 - Spare] /\ phase # "off"
    BY <1>4, <1>0 DEF WriteHeader, WriteHeaderFails, TypeOK
  <2> QED
    BY <2>1, <2>2, <2>4, <2>5, <2>6, <2>7, SaveFrame DEF CrashReady
<1>5. CASE FlushHeaderFails
  <2>1. Running /\ Running' /\ Spare' = Spare /\ Commit' = Commit /\ restoreError = "none"
    BY <1>5 DEF FlushHeaderFails, Running, Spare, Commit, CrashReady, NoSaveWhenFrozen
  <2>2. SaveProgress'
    BY <1>5, <2>1 DEF FlushHeaderFails, NotFlushed, CrashReady, SaveProgress, medium, volatile
  <2>3. hdr[Spare] = Blank
    BY <1>5, <2>1 DEF FlushHeaderFails, CrashReady, SaveProgress
  <2> QED
    BY <1>5, <2>1, <2>2, <2>3, SaveFrame DEF FlushHeaderFails, NotFlushed, CrashReady, volatile
<1> QED
  BY <1>1, <1>2, <1>3, <1>4, <1>5

\* A flush that succeeds leaves nothing pending and keeps what is sheltered.
LEMMA FlushedKeeps ==
  ASSUME TypeOK, Flushed
  PROVE  /\ hdrC' = [s \in Slot |-> Clean] /\ payC' = [s \in Slot |-> Clean]
         /\ blkC' = [b \in Block |-> Clean]
         /\ \A s \in Slot : hdr'[s] = IF hdrC[s] = Clean THEN hdr[s] ELSE hdrC[s]
         /\ \A s \in Slot : pay'[s] = IF payC[s] = Clean THEN pay[s] ELSE payC[s]
         /\ \A b \in Block : blk'[b] = IF blkC[b] = Clean THEN blk[b] ELSE blkC[b]
  BY DEF Flushed, SeenHdr, SeenPay, SeenBlk, Seen, TypeOK

LEMMA FlushZeroReady ==
  ASSUME TypeOK, CrashReady, FlushZero
  PROVE  CrashReady'
<1> USE SpareType, Sentinels, FlushedKeeps DEF FlushZero, KeepState
<1>1. restoreError = "none" /\ Running /\ Running' /\ Spare' = Spare
  BY DEF CrashReady, NoSaveWhenFrozen, Running, Spare
<1>2. hdrC[Spare] = Blank /\ hdr'[Spare] = Blank
  BY <1>1 DEF CrashReady, SaveProgress
<1>3. active # -1 => active = 1 - Spare /\ active \in Slot
  BY DEF Spare, TypeOK, Slot
<1>4. active = -1 => Spare = 0
  BY DEF Spare
<1>5. Resting' /\ StarvedUntouched' /\ NoSaveWhenFrozen'
  BY <1>1 DEF Resting, StarvedUntouched, NoSaveWhenFrozen
<1>6. ActiveRoot'
  <2>1. CASE active = -1
    BY <1>1, <2>1 DEF CrashReady, ActiveRoot, Slot
  <2>2. CASE active # -1
    BY <1>1, <1>3, <2>2, RefsType DEF CrashReady, ActiveRoot, Sheltered
  <2> QED
    BY <2>1, <2>2
<1>7. SpareRoot'
  BY <1>1, <1>2 DEF SpareRoot
<1>8. SaveProgress'
  BY <1>1, <1>2 DEF SaveProgress
<1>9. BodyBeforeHeader' /\ RootsOneSaveApart'
  <2>1. \A s \in Slot : s = Spare \/ s = 1 - Spare
    BY DEF Slot, Spare
  <2>3. hdr'[1 - Spare] # Blank => pay'[1 - Spare] = hdr'[1 - Spare].root
    <3>1. CASE active = -1
      BY <1>1, <1>4, <3>1 DEF CrashReady, ActiveRoot, Slot
    <3>2. CASE active # -1
      BY <1>1, <1>3, <3>2 DEF CrashReady, ActiveRoot, Sheltered, BodyBeforeHeader
    <3> QED
      BY <3>1, <3>2
  <2> QED
    BY <1>2, <2>1, <2>3 DEF BodyBeforeHeader, RootsOneSaveApart, Slot
<1> QED
  BY <1>5, <1>6, <1>7, <1>8, <1>9 DEF CrashReady

LEMMA FlushBodyReady ==
  ASSUME TypeOK, CrashReady, FlushBody
  PROVE  CrashReady'
<1> USE SpareType, Sentinels, FlushedKeeps DEF FlushBody, KeepState
<1>1. restoreError = "none" /\ Running /\ Running' /\ Spare' = Spare
  BY DEF CrashReady, NoSaveWhenFrozen, Running, Spare
<1>2. /\ hdrC[Spare] = Clean /\ hdr[Spare] = Blank /\ hdr'[Spare] = Blank
      /\ payC[Spare] = tree /\ tree # Clean /\ pay'[Spare] = tree
  BY <1>1 DEF CrashReady, SaveProgress, TypeOK
<1>3. active # -1 => active = 1 - Spare /\ active \in Slot
  BY DEF Spare, TypeOK, Slot
<1>4. active = -1 => Spare = 0
  BY DEF Spare
<1>5. Resting' /\ StarvedUntouched' /\ NoSaveWhenFrozen'
  BY <1>1 DEF Resting, StarvedUntouched, NoSaveWhenFrozen
<1>6. ActiveRoot'
  <2>1. CASE active = -1
    BY <1>1, <2>1 DEF CrashReady, ActiveRoot, Slot
  <2>2. CASE active # -1
    BY <1>1, <1>3, <2>2, RefsType DEF CrashReady, ActiveRoot, Sheltered
  <2> QED
    BY <2>1, <2>2
<1>7. SpareRoot'
  BY <1>1, <1>2 DEF SpareRoot
<1>8. SaveProgress'
  BY <1>1, <1>2, RefsType DEF SaveProgress
<1>9. BodyBeforeHeader' /\ RootsOneSaveApart'
  <2>1. \A s \in Slot : s = Spare \/ s = 1 - Spare
    BY DEF Slot, Spare
  <2>3. hdr'[1 - Spare] # Blank => pay'[1 - Spare] = hdr'[1 - Spare].root
    <3>1. CASE active = -1
      BY <1>1, <1>4, <3>1 DEF CrashReady, ActiveRoot, Slot
    <3>2. CASE active # -1
      BY <1>1, <1>3, <3>2 DEF CrashReady, ActiveRoot, Sheltered, BodyBeforeHeader
    <3> QED
      BY <3>1, <3>2
  <2> QED
    BY <1>2, <2>1, <2>3 DEF BodyBeforeHeader, RootsOneSaveApart, Slot
<1> QED
  BY <1>5, <1>6, <1>7, <1>8, <1>9 DEF CrashReady

LEMMA FlushHeaderReady ==
  ASSUME TypeOK, CrashReady, FlushHeader
  PROVE  CrashReady'
<1> USE SpareType, Sentinels, FlushedKeeps DEF FlushHeader
<1>1. restoreError = "none" /\ Running /\ Running'
  BY DEF CrashReady, NoSaveWhenFrozen, Running
<1>2. /\ hdrC[Spare] = Commit /\ hdr'[Spare] = Commit /\ Commit \in Header
      /\ payC[Spare] = Clean /\ pay[Spare] = tree /\ pay'[Spare] = tree
      /\ \A b \in Refs(tree) : blkC[b] = Clean
  BY <1>1, CommitType DEF CrashReady, SaveProgress
<1>3. active' = Spare /\ Spare' = 1 - Spare
  BY DEF Spare
<1>4. Commit # Blank /\ Commit.gen = Succ(generation) /\ Commit.root = tree
  BY <1>2 DEF Commit
<1>5. active # -1 => active = 1 - Spare /\ active \in Slot
  BY DEF Spare, TypeOK, Slot
<1>6. active = -1 => Spare = 0
  BY DEF Spare
<1>7. pins'[Spare] = Refs(tree) /\ pins'[1 - Spare] = pins[1 - Spare]
  BY DEF TypeOK, Spare, Slot
<1>8. Resting' /\ StarvedUntouched' /\ NoSaveWhenFrozen'
  BY <1>1 DEF Resting, StarvedUntouched, NoSaveWhenFrozen
<1>9. ActiveRoot'
  BY <1>1, <1>2, <1>3, <1>4, <1>7, RefsType DEF ActiveRoot, Sheltered, Spare
<1>10. hdr'[1 - Spare] # Blank =>
          /\ active = 1 - Spare /\ hdr'[1 - Spare] = hdr[active]
          /\ hdr[active].gen = generation /\ Sheltered(active)
          /\ pay'[1 - Spare] = pay[active] /\ pay[active] = hdr[active].root
  <2>1. CASE active = -1
    BY <1>1, <1>6, <2>1 DEF CrashReady, ActiveRoot, Slot
  <2>2. CASE active # -1
    BY <1>1, <1>5, <2>2 DEF CrashReady, ActiveRoot, Sheltered, BodyBeforeHeader
  <2> QED
    BY <2>1, <2>2
<1>11. SpareRoot'
  BY <1>1, <1>3, <1>5, <1>7, <1>10, RefsType DEF SpareRoot, Sheltered, Spare, TypeOK, Slot
<1>12. SaveProgress'
  BY <1>1, <1>3 DEF SaveProgress, Spare, Slot
<1>13. BodyBeforeHeader' /\ RootsOneSaveApart'
  <2>1. \A s \in Slot : s = Spare \/ s = 1 - Spare
    BY DEF Slot, Spare
  <2>2. BodyBeforeHeader'
    BY <1>2, <1>4, <1>10, <2>1 DEF BodyBeforeHeader
  <2>3. generation \in Gen
    BY DEF TypeOK
  <2>4. Spare = 0 \/ Spare = 1
    BY DEF Spare
  <2>5. RootsOneSaveApart'
    BY <1>2, <1>4, <1>10, <2>3, <2>4, NewerBySucc DEF RootsOneSaveApart
  <2> QED
    BY <2>2, <2>5
<1> QED
  BY <1>8, <1>9, <1>11, <1>12, <1>13 DEF CrashReady

LEMMA CleanSeen ==
  TypeOK /\ CleanCache => SeenHdr = hdr /\ SeenPay = pay /\ SeenBlk = blk
  BY DEF TypeOK, CleanCache, SeenHdr, SeenPay, SeenBlk, Seen

\* What a power loss can leave of the headers and bodies.
LEMMA HeadersLeft ==
  ASSUME TypeOK, CrashReady, PowerLoss, restoreError # "nomem"
  PROVE  /\ hdr'[1 - Spare] # Blank =>
              /\ active = 1 - Spare /\ active \in Slot /\ hdr'[1 - Spare] = hdr[active]
              /\ hdr[active].gen = generation
              /\ pay'[1 - Spare] = hdr'[1 - Spare].root
              /\ \A b \in Refs(hdr[active].root) : blkC[b] = Clean
         /\ hdr'[Spare] # Blank =>
              /\ pay'[Spare] = hdr'[Spare].root
              /\ \A b \in Refs(hdr'[Spare].root) : blkC[b] = Clean
              /\ \/ /\ hdr'[Spare] = hdr[Spare] /\ active # -1
                    /\ generation = Succ(hdr[Spare].gen) /\ hdr[Spare] \in Header
                 \/ /\ hdr'[Spare] = Commit /\ (phase = "headed" \/ restoreError = "io")
<1> USE SpareType, Sentinels
<1>0. Running /\ hdr' \in Survivors(hdr, hdrC, {}) /\ pay' \in Survivors(pay, payC, {Junk})
  BY DEF PowerLoss, Running
<1>1. /\ \A s \in Slot : hdr'[s] = hdr[s] \/ (hdrC[s] # Clean /\ hdr'[s] = hdrC[s])
      /\ \A s \in Slot : payC[s] = Clean => pay'[s] = pay[s]
  BY <1>0, SurvivorsChoice DEF TypeOK
<1>2. active # -1 => active = 1 - Spare /\ active \in Slot
  BY DEF Spare, TypeOK, Slot
<1>3. active = -1 => Spare = 0
  BY DEF Spare
<1>4. hdr'[1 - Spare] # Blank =>
              /\ active = 1 - Spare /\ active \in Slot /\ hdr'[1 - Spare] = hdr[active]
              /\ hdr[active].gen = generation
              /\ pay'[1 - Spare] = hdr'[1 - Spare].root
              /\ \A b \in Refs(hdr[active].root) : blkC[b] = Clean
  <2>1. CASE active = -1
    BY <1>0, <1>1, <1>3, <2>1 DEF CrashReady, ActiveRoot, Slot
  <2>2. CASE active # -1
    BY <1>0, <1>1, <1>2, <2>2 DEF CrashReady, ActiveRoot, Sheltered, BodyBeforeHeader
  <2> QED
    BY <2>1, <2>2
<1>5. ASSUME hdr'[Spare] # Blank, hdr'[Spare] = hdr[Spare]
      PROVE  /\ pay'[Spare] = hdr'[Spare].root
             /\ \A b \in Refs(hdr'[Spare].root) : blkC[b] = Clean
             /\ hdr'[Spare] = hdr[Spare] /\ active # -1
             /\ generation = Succ(hdr[Spare].gen) /\ hdr[Spare] \in Header
  BY <1>0, <1>1, <1>5 DEF CrashReady, SpareRoot, Sheltered, BodyBeforeHeader, TypeOK
<1>6. ASSUME hdr'[Spare] # Blank, hdr'[Spare] # hdr[Spare]
      PROVE  /\ pay'[Spare] = hdr'[Spare].root
             /\ \A b \in Refs(hdr'[Spare].root) : blkC[b] = Clean
             /\ hdr'[Spare] = Commit /\ (phase = "headed" \/ restoreError = "io")
  <2>1. hdr'[Spare] = hdrC[Spare] /\ hdrC[Spare] \notin {Clean, Blank}
    BY <1>1, <1>6
  <2>2. phase = "headed" \/ restoreError = "io"
    BY <1>0, <2>1 DEF CrashReady, SaveProgress, TypeOK, PowerLoss
  <2>3. hdrC[Spare] = Commit /\ pay[Spare] = tree /\ payC[Spare] = Clean
        /\ \A b \in Refs(tree) : blkC[b] = Clean
    BY <1>0, <2>1, <2>2 DEF CrashReady, SaveProgress
  <2> QED
    BY <1>1, <2>1, <2>2, <2>3 DEF Commit
<1> QED
  BY <1>4, <1>5, <1>6

LEMMA PowerLossReady ==
  ASSUME TypeOK, CrashReady, PowerLoss
  PROVE  CrashReady'
<1>1. Resting' /\ StarvedUntouched' /\ NoSaveWhenFrozen' /\ ~Running'
  BY DEF PowerLoss, Forgotten, Resting, StarvedUntouched, NoSaveWhenFrozen, Running, CleanCache
<1>2. ActiveRoot' /\ SpareRoot' /\ SaveProgress'
  BY <1>1 DEF ActiveRoot, SpareRoot, SaveProgress
<1>3. BodyBeforeHeader' /\ RootsOneSaveApart'
  <2>1. CASE restoreError = "nomem"
    <3>1. \A s \in Slot : hdr'[s] = hdr[s] /\ pay'[s] = pay[s]
      BY <2>1, SurvivorsChoice DEF PowerLoss, CrashReady, StarvedUntouched, CleanCache, TypeOK
    <3> QED
      BY <3>1 DEF CrashReady, BodyBeforeHeader, RootsOneSaveApart, Slot
  <2>2. CASE restoreError # "nomem"
    <3>1. \A s \in Slot : s = Spare \/ s = 1 - Spare
      BY DEF Slot, Spare
    <3>2. BodyBeforeHeader'
      BY <2>2, <3>1, HeadersLeft DEF BodyBeforeHeader
    <3>3. hdr'[0] # Blank /\ hdr'[1] # Blank =>
            \/ /\ hdr'[1 - Spare].gen = generation /\ generation = Succ(hdr'[Spare].gen)
               /\ hdr'[Spare].gen \in Gen
            \/ /\ hdr'[1 - Spare].gen = generation /\ hdr'[Spare].gen = Succ(generation)
               /\ generation \in Gen
      BY <2>2, HeadersLeft DEF Spare, Commit, TypeOK, Header
    <3>4. Spare = 0 \/ Spare = 1
      BY DEF Spare
    <3>5. RootsOneSaveApart'
      BY <3>3, <3>4, NewerBySucc DEF RootsOneSaveApart
    <3> QED
      BY <3>2, <3>5
  <2> QED
    BY <2>1, <2>2
<1> QED
  BY <1>1, <1>2, <1>3 DEF CrashReady

\* The slots a mount can use, once nothing is pending and every read succeeds.
LEMMA UsableSlots ==
  ASSUME TypeOK, CrashReady, phase = "off", ReadFaults = FALSE, NEW lost \in Unreadable
  PROVE  /\ lost = {} /\ SeenHdr = hdr /\ SeenPay = pay /\ CleanCache
         /\ Usable(lost) = {s \in Slot : hdr[s] # Blank}
         /\ restoreError = "none" /\ active = -1 /\ generation = 0 /\ tree = EmptyTree
         /\ AllBlank(lost) <=> Usable(lost) = {}
<1>1. lost = {}
  BY DEF Unreadable
<1>2. CleanCache /\ restoreError = "none" /\ active = -1 /\ generation = 0 /\ tree = EmptyTree
  BY DEF CrashReady, Resting
<1>3. SeenHdr = hdr /\ SeenPay = pay
  BY <1>2, CleanSeen
<1>4. Usable(lost) = {s \in Slot : hdr[s] # Blank}
  BY <1>1, <1>3 DEF Usable, ValidIn, CrashReady, BodyBeforeHeader
<1>5. AllBlank(lost) <=> Usable(lost) = {}
  BY <1>1, <1>3, <1>4 DEF AllBlank
<1> QED
  BY <1>1, <1>2, <1>3, <1>4, <1>5

\* The slot a mount chooses is the newer of the two roots.
LEMMA NewestRoot ==
  ASSUME TypeOK, RootsOneSaveApart, NEW S, S = {s \in Slot : hdr[s] # Blank}, S # {},
         NEW s, s = Newest(hdr, S)
  PROVE  /\ s \in {0, 1} /\ s \in S /\ hdr[s] \in Header
         /\ hdr[1 - s] # Blank => /\ hdr[1 - s] \in Header
                                  /\ hdr[s].gen = Succ(hdr[1 - s].gen)
<1>1. s \in {0, 1} /\ s \in S /\ hdr[s] \in Header
  BY DEF Newest, Slot, TypeOK
<1>2. \A r \in Slot : hdr[r] # Blank => hdr[r] \in Header /\ hdr[r].gen \in Gen
  BY DEF TypeOK, Header
<1>3. ASSUME hdr[0] # Blank, hdr[1] # Blank
      PROVE  hdr[s].gen = Succ(hdr[1 - s].gen)
  <2>1. s = IF Newer(hdr[1].gen, hdr[0].gen) THEN 1 ELSE 0
    BY <1>3 DEF Newest, Slot
  <2>2. hdr[0].gen \in Gen /\ hdr[1].gen \in Gen
    BY <1>2, <1>3 DEF Slot
  <2> QED
    BY <1>3, <2>1, <2>2, NewerBySucc DEF RootsOneSaveApart
<1> QED
  BY <1>1, <1>2, <1>3 DEF Slot

LEMMA MountReady ==
  ASSUME TypeOK, CrashReady, ReadFaults = FALSE, Mount \/ MountNothing \/ MountStarved
  PROVE  CrashReady'
<1> USE Sentinels
<1>0. phase = "off" /\ phase' = "idle" /\ UNCHANGED <<medium, volatile>>
  BY DEF Mount, MountNothing, MountStarved
<1>1. /\ CleanCache /\ SeenHdr = hdr /\ SeenPay = pay
      /\ restoreError = "none" /\ active = -1 /\ generation = 0 /\ tree = EmptyTree
  BY <1>0, CleanSeen DEF CrashReady, Resting
<1>2. Resting' /\ BodyBeforeHeader' /\ RootsOneSaveApart' /\ CleanCache'
  BY <1>0, <1>1
  DEF CrashReady, Resting, BodyBeforeHeader, RootsOneSaveApart, CleanCache, medium, volatile
<1>3. CASE Mount
  <2>1. PICK lost \in Unreadable, flaky \in Unreadable :
          LET s == Newest(SeenHdr, Usable(lost) \ flaky)
          IN  /\ Usable(lost) \ flaky # {}
              /\ active' = s /\ generation' = SeenHdr[s].gen
              /\ tree' = SeenHdr[s].root /\ pins' = PinsOf(Usable(lost))
    BY <1>3 DEF Mount
  <2> DEFINE S == Usable(lost)
             s == Newest(hdr, S)
  <2>2. S = {r \in Slot : hdr[r] # Blank} /\ lost = {} /\ flaky = {}
    BY <1>0, UsableSlots DEF Unreadable
  <2>3. S # {} /\ active' = s /\ generation' = hdr[s].gen /\ pins' = PinsOf(S)
    BY <1>1, <2>1, <2>2
  <2> HIDE DEF S, s
  <2>4. /\ s \in {0, 1} /\ s \in S /\ hdr[s] \in Header
        /\ hdr[1 - s] # Blank => /\ hdr[1 - s] \in Header
                                 /\ hdr[s].gen = Succ(hdr[1 - s].gen)
    BY <2>2, <2>3, NewestRoot DEF s, CrashReady
  <2>5. restoreError' = "none" /\ Spare' = 1 - s /\ Running'
    BY <1>1, <1>3, <2>3, <2>4 DEF Mount, Spare, Running
  <2>6. \A r \in Slot : hdr[r] # Blank => pins'[r] = Refs(hdr[r].root)
    BY <1>1, <2>2, <2>3 DEF PinsOf
  <2>7. \A r \in Slot : hdr[r] # Blank => Sheltered(r)'
    BY <1>0, <1>2, <2>6, RefsType DEF Sheltered, CleanCache, medium
  <2>8. hdr' = hdr /\ hdrC' = [r \in Slot |-> Clean] /\ s \in Slot /\ hdr[s] # Blank
    BY <1>0, <1>2, <2>4 DEF CleanCache, medium, Slot
  <2>9. StarvedUntouched' /\ NoSaveWhenFrozen'
    BY <2>5 DEF StarvedUntouched, NoSaveWhenFrozen
  <2>10. ActiveRoot'
    BY <2>3, <2>4, <2>5, <2>7, <2>8 DEF ActiveRoot
  <2>11. SpareRoot'
    BY <1>0, <2>3, <2>4, <2>5, <2>7, <2>8 DEF SpareRoot, Slot
  <2>12. SaveProgress'
    BY <1>0, <2>4, <2>5, <2>8 DEF SaveProgress, Slot
  <2> QED
    BY <1>2, <2>9, <2>10, <2>11, <2>12 DEF CrashReady
<1>4. CASE MountNothing
  <2>1. PICK lost \in Unreadable, flaky \in Unreadable :
          /\ Usable(lost) \subseteq flaky
          /\ restoreError' = IF AllBlank(lost) THEN "none" ELSE "io"
    BY <1>4 DEF MountNothing
  <2>2. flaky = {} /\ Usable(lost) = {}
    BY <2>1 DEF Unreadable
  <2>3. restoreError' = "none" /\ \A r \in Slot : hdr[r] = Blank
    BY <1>0, <2>1, <2>2, UsableSlots
  <2>4. active' = -1 /\ generation' = 0 /\ Running' /\ Spare' = 0
    BY <1>0, <1>1, <1>4, <2>3 DEF MountNothing, Running, Spare
  <2>5. hdr' = hdr /\ hdrC' = [r \in Slot |-> Clean]
    BY <1>0, <1>2 DEF CleanCache, medium
  <2> QED
    BY <1>0, <1>2, <2>3, <2>4, <2>5
    DEF CrashReady, StarvedUntouched, NoSaveWhenFrozen, ActiveRoot, SpareRoot, SaveProgress, Slot
<1>5. CASE MountStarved
  <2>1. /\ restoreError' = "nomem" /\ active' = -1 /\ tree' = EmptyTree
    BY <1>1, <1>5 DEF MountStarved
  <2> QED
    BY <1>0, <1>2, <2>1
    DEF CrashReady, StarvedUntouched, NoSaveWhenFrozen, ActiveRoot, SpareRoot, SaveProgress,
        Running, EmptyTree
<1> QED
  BY <1>3, <1>4, <1>5

LEMMA NextReady ==
  ASSUME ReadFaults = FALSE, TypeOK, CrashReady, [Next]_vars
  PROVE  CrashReady'
<1>1. TypeOK'
  BY NextType
<1>2. CASE UNCHANGED vars
  BY <1>2
  DEF vars, kernel, medium, volatile, CrashReady, Resting, StarvedUntouched, NoSaveWhenFrozen,
      ActiveRoot, SpareRoot, SaveProgress, Running, BodyBeforeHeader, RootsOneSaveApart,
      CleanCache, Sheltered, Spare, Commit
<1>3. CASE Next
  BY <1>1, <1>3, EditReady, SaveStepReady, FlushZeroReady, FlushBodyReady,
     FlushHeaderReady, PowerLossReady, MountReady DEF Next
<1> QED
  BY <1>2, <1>3

\* On a drive that reads without error, and loses its cache in a restart, every
\* point of every sequence of file operations, saves, failures and power losses
\* leaves a medium from which a boot finds a complete root (store.c, sync_one).
THEOREM PowerLossAlwaysSurvivable ==
  ASSUME ReadFaults = FALSE
  PROVE  Spec => []CrashReady
<1>1. Init => TypeOK /\ CrashReady
  BY InitType, InitReady
<1>2. TypeOK /\ CrashReady /\ [Next]_vars => (TypeOK /\ CrashReady)'
  BY NextType, NextReady
<1>3. Spec => [](TypeOK /\ CrashReady)
  BY <1>1, <1>2, PTL DEF Spec
<1> QED
  BY <1>3, PTL

\* A commit header is never on the medium without its metadata body.
THEOREM BodyAlwaysBeforeHeader ==
  ASSUME ReadFaults = FALSE
  PROVE  Spec => []BodyBeforeHeader
<1>1. CrashReady => BodyBeforeHeader
  BY DEF CrashReady
<1> QED
  BY <1>1, PowerLossAlwaysSurvivable, PTL

\* A boot can always tell the newer of two roots, across generation wrap.
THEOREM NewerRootAlwaysKnown ==
  ASSUME ReadFaults = FALSE
  PROVE  Spec => []RootsOneSaveApart
<1>1. CrashReady => RootsOneSaveApart
  BY DEF CrashReady
<1> QED
  BY <1>1, PowerLossAlwaysSurvivable, PTL

-----------------------------------------------------------------------------
(***************************************************************************)
(* The promise of DurableVolume, and that nothing writes over what a       *)
(* committed root or an unchanged file refers to.  The argument rests on   *)
(* CrashReady: at every step the active root is complete on the medium     *)
(* with its blocks pinned, and blocks being written are never pinned.      *)
(***************************************************************************)

FileStep ==
    \/ \E f \in File, at, to \in Logical : at <= to /\ Write(f, at, to)
    \/ WriteFails
    \/ \E f \in File : Create(f) \/ Remove(f)
    \/ \E f, g \in File : Replace(f, g)

\* File operations touch free blocks only, and nothing but them and the tree.
LEMMA FileStepFrame ==
  ASSUME TypeOK, FileStep
  PROVE  /\ MayEdit
         /\ UNCHANGED <<phase, restoreError, active, generation, pins, medium, hdrC, payC>>
         /\ \A b \in Block : b \notin Free => blkC'[b] = blkC[b]
<1>1. CASE \E f \in File, at, to \in Logical : at <= to /\ Write(f, at, to)
  <2>1. PICK f \in File, at \in Logical, to \in Logical : Write(f, at, to)
    BY <1>1
  <2>2. PICK p \in Placements(at, to) :
          \E v \in [{p[l] : l \in at .. to} -> Value] : blkC' = Handed(v)
    BY <2>1 DEF Write
  <2>3. PICK v \in [{p[l] : l \in at .. to} -> Value] : blkC' = Handed(v)
    BY <2>2
  <2>4. DOMAIN v \subseteq Free
    BY DEF Placements
  <2> QED
    BY <2>1, <2>3, <2>4 DEF Write, Handed
<1>2. CASE WriteFails
  BY <1>2 DEF WriteFails, kernel, TypeOK
<1>3. CASE \E f \in File : Create(f) \/ Remove(f)
  BY <1>3 DEF Create, Remove, volatile
<1>4. CASE \E f, g \in File : Replace(f, g)
  BY <1>4 DEF Replace, volatile
<1> QED
  BY <1>1, <1>2, <1>3, <1>4 DEF FileStep

\* Between saves both roots a boot could choose have their blocks pinned.
LEMMA RootsPinned ==
  ASSUME TypeOK, CrashReady, MayEdit, NEW s \in Slot, hdr[s] # Blank
  PROVE  Refs(hdr[s].root) \subseteq pins[s]
<1>1. Running
  BY DEF MayEdit, Running
<1>2. s = Spare \/ s = active \/ (active = -1 /\ s = 1)
  BY DEF Spare, TypeOK, Slot
<1>3. CASE s = Spare
  BY <1>1, <1>3 DEF CrashReady, SpareRoot, Sheltered
<1>4. CASE s = active
  BY <1>1, <1>4 DEF CrashReady, ActiveRoot, Sheltered, Slot
<1>5. CASE active = -1 /\ s = 1
  BY <1>1, <1>5 DEF CrashReady, ActiveRoot
<1> QED
  BY <1>2, <1>3, <1>4, <1>5

\* The steps of a save other than its flushes leave the blocks alone.
QuietStep ==
    \/ ZeroHeader \/ ZeroHeaderFails
    \/ WriteBody \/ WriteBodyFails \/ FlushFails
    \/ WriteHeader \/ WriteHeaderFails \/ FlushHeaderFails

FlushStep == FlushZero \/ FlushBody \/ FlushHeader

LEMMA SaveShowsNoChange ==
  ASSUME TypeOK, QuietStep \/ FlushStep \/ UNCHANGED vars
  PROVE  tree' = tree /\ SeenBlk' = SeenBlk
<1>1. CASE QuietStep
  BY <1>1 DEF QuietStep, ZeroHeader, ZeroHeaderFails, WriteBody, WriteBodyFails, FlushFails,
      WriteHeader, WriteHeaderFails, FlushHeaderFails, KeepState, NotFlushed, medium, volatile,
      SeenBlk, Seen
<1>2. CASE FlushStep
  <2>1. Flushed /\ tree' = tree
    BY <1>2 DEF FlushStep, FlushZero, FlushBody, FlushHeader, KeepState
  <2>2. SeenBlk \in [Block -> Data]
    BY SeenTypes
  <2>3. SeenBlk' = [b \in Block |-> SeenBlk[b]]
    BY <2>1, <2>2 DEF Flushed, SeenBlk, Seen
  <2> QED
    BY <2>1, <2>2, <2>3
<1>3. CASE UNCHANGED vars
  BY <1>3 DEF vars, kernel, medium, volatile, SeenBlk, Seen
<1> QED
  BY <1>1, <1>2, <1>3

\* The kinds of step a running volume takes.
LEMMA StepKinds ==
  ASSUME [Next]_vars
  PROVE  \/ FileStep
         \/ QuietStep \/ FlushStep \/ UNCHANGED vars
         \/ phase # "off" /\ phase' = "off" /\ PowerLoss
         \/ phase = "off" /\ (Mount \/ MountNothing \/ MountStarved)
  BY DEF Next, FileStep, QuietStep, FlushStep, PowerLoss, Forgotten, Mount,
         MountNothing, MountStarved

-----------------------------------------------------------------------------
(* Nothing committed is ever written over *)

LEMMA UntouchedStep ==
  ASSUME TypeOK, CrashReady, [Next]_vars,
         phase # "off", phase' # "off",
         NEW s \in Slot, ValidIn(hdr, pay, s), NEW b \in Refs(hdr[s].root)
  PROVE  SeenBlk'[b] = SeenBlk[b]
<1>1. CASE FileStep
  <2>1. b \in pins[s] /\ b \in Block
    BY <1>1, FileStepFrame, RootsPinned, RefsType DEF ValidIn
  <2>2. blkC'[b] = blkC[b] /\ blk' = blk
    BY <1>1, <2>1, FileStepFrame DEF Free, Slot, medium
  <2> QED
    BY <2>1, <2>2 DEF SeenBlk, Seen, TypeOK
<1>2. CASE QuietStep \/ FlushStep \/ UNCHANGED vars
  BY <1>2, SaveShowsNoChange
<1> QED
  BY <1>1, <1>2, StepKinds

\* The blocks of a root that a boot could still choose are never written, for
\* any number of files, blocks, saves and failures (STORAGE-0.10.md).
THEOREM CommittedRootsNeverTouched ==
  ASSUME ReadFaults = FALSE
  PROVE  Spec => CommittedRootsUntouched
<1>1. TypeOK /\ CrashReady /\ [Next]_vars =>
        [phase # "off" /\ phase' # "off" =>
           \A s \in Slot : ValidIn(hdr, pay, s) =>
              \A b \in Refs(hdr[s].root) : SeenBlk'[b] = SeenBlk[b]]_vars
  BY UntouchedStep
<1> QED
  BY <1>1, TypesHold, PowerLossAlwaysSurvivable, PTL DEF Spec, CommittedRootsUntouched

-----------------------------------------------------------------------------
(* Copy on write *)

LEMMA ContentsAgree ==
  ASSUME NEW t, NEW d, NEW e, NEW f \in File,
         t[f] # Absent => t[f] \in FileMap,
         \A l \in Logical : t[f] # Absent /\ t[f][l] # Hole => d[t[f][l]] = e[t[f][l]]
  PROVE  Contents(t, d)[f] = Contents(t, e)[f]
  BY DEF Contents

LEMMA CopyOnWriteStep ==
  ASSUME TypeOK, TypeOK', [Next]_vars,
         phase # "off", phase' # "off", NEW f \in File, tree'[f] = tree[f]
  PROVE  Contents(tree, SeenBlk)'[f] = Contents(tree, SeenBlk)[f]
<1>1. CASE FileStep
  <2>1. \A l \in Logical : tree[f] # Absent /\ tree[f][l] # Hole =>
          tree[f][l] \in Refs(tree) /\ tree[f][l] \in Block
    BY DEF TypeOK, Tree, FileMap, Refs
  <2>2. \A b \in Block : b \in Refs(tree) => blkC'[b] = blkC[b]
    BY <1>1, FileStepFrame DEF Free
  <2>3. blk' = blk
    BY <1>1, FileStepFrame DEF medium
  <2>4. \A b \in Block : b \in Refs(tree) => SeenBlk'[b] = SeenBlk[b]
    BY <2>2, <2>3 DEF SeenBlk, Seen, TypeOK
  <2>5. tree[f] # Absent => tree[f] \in FileMap
    BY DEF TypeOK, Tree
  <2>6. Contents(tree', SeenBlk')[f] = Contents(tree, SeenBlk')[f]
    BY DEF Contents
  <2>7. Contents(tree, SeenBlk')[f] = Contents(tree, SeenBlk)[f]
    <3>1. \A l \in Logical : tree[f] # Absent /\ tree[f][l] # Hole =>
            SeenBlk'[tree[f][l]] = SeenBlk[tree[f][l]]
      BY <2>1, <2>4
    <3> QED
      BY <2>5, <3>1, ContentsAgree
  <2> QED
    BY <2>6, <2>7 DEF Contents
<1>2. CASE QuietStep \/ FlushStep \/ UNCHANGED vars
  BY <1>2, SaveShowsNoChange DEF Contents
<1> QED
  BY <1>1, <1>2, StepKinds

\* What a program reads from a file changes only when that file's own map does.
THEOREM WritesAreCopies ==
  Spec => CopyOnWrite
<1>1. TypeOK /\ TypeOK' /\ [Next]_vars =>
        [phase # "off" /\ phase' # "off" =>
           \A f \in File : tree'[f] = tree[f] =>
              Contents(tree, SeenBlk)'[f] = Contents(tree, SeenBlk)[f]]_vars
  BY CopyOnWriteStep
<1> QED
  BY <1>1, TypesHold, PTL DEF Spec, CopyOnWrite
-----------------------------------------------------------------------------
(* The promise: every step of Store is a step of DurableVolume, or none *)

LEMMA ContentsType ==
  ASSUME NEW t \in Tree, NEW d \in [Block -> Data]
  PROVE  Contents(t, d) \in Everything
<1>1. ASSUME NEW f \in File
      PROVE  Contents(t, d)[f] \in [Logical -> Data] \cup {Absent}
  BY DEF Contents, Tree, FileMap, Data
<1> QED
  BY <1>1 DEF Contents, Everything

LEMMA ContentsSame ==
  ASSUME NEW t \in Tree, NEW d, NEW e, \A b \in Refs(t) : d[b] = e[b]
  PROVE  Contents(t, d) = Contents(t, e)
<1>1. ASSUME NEW f \in File
      PROVE  Contents(t, d)[f] = Contents(t, e)[f]
  <2>1. t[f] # Absent => t[f] \in FileMap
    BY DEF Tree
  <2>2. \A l \in Logical : t[f] # Absent /\ t[f][l] # Hole => t[f][l] \in Refs(t)
    BY <2>1 DEF FileMap, Refs
  <2> QED
    BY <2>1, <2>2, ContentsAgree
<1> QED
  BY <1>1 DEF Contents

LEMMA ContentsOfNothing == \A d : Contents(EmptyTree, d) = EmptyTree
  BY DEF Contents, EmptyTree

LEMMA DurableSlots ==
  CrashReady => Durable = {s \in Slot : hdr[s] # Blank}
  BY DEF CrashReady, BodyBeforeHeader, Durable, ValidIn

\* The contents of the active root do not change while it stays active.
LEMMA ActiveContents ==
  ASSUME TypeOK, CrashReady, phase # "off", restoreError # "nomem", active # -1,
         hdr'[active] = hdr[active],
         blk' = blk \/ \A b \in Block : blk'[b] = SeenBlk[b]
  PROVE  Contents(hdr'[active].root, blk') = OnMedium(active)
<1>1. active \in Slot /\ hdr[active] \in Header
  BY DEF CrashReady, ActiveRoot, Running, TypeOK, Slot
<1>2. \A b \in Refs(hdr[active].root) : b \in Block /\ blkC[b] = Clean
  BY RefsType DEF CrashReady, ActiveRoot, Running, Sheltered
<1>3. \A b \in Refs(hdr[active].root) : blk'[b] = blk[b]
  BY <1>2 DEF SeenBlk, Seen, TypeOK
<1> QED
  BY <1>1, <1>3, ContentsSame DEF OnMedium, Header

\* Until a save commits, what the volume cannot lose stays what it was.
LEMMA StableKept ==
  ASSUME TypeOK, CrashReady, phase # "off", restoreError # "nomem",
         phase' # "off", restoreError' # "nomem", active' = active,
         active # -1 => hdr'[active] = hdr[active],
         blk' = blk \/ \A b \in Block : blk'[b] = SeenBlk[b]
  PROVE  VolumeStable' = VolumeStable
<1>1. CASE active = -1
  BY <1>1 DEF VolumeStable
<1>2. CASE active # -1
  BY <1>2, ActiveContents DEF VolumeStable, OnMedium
<1> QED
  BY <1>1, <1>2

LEMMA InitPromise == Init => Volume!Init
<1> SUFFICES ASSUME Init PROVE Volume!Init
  OBVIOUS
<1>1. VolumeMode = "off" /\ VolumeOffered = {}
  BY DEF Init, VolumeMode, VolumeOffered
<1>2. VolumeWork = EmptyTree
  BY ContentsOfNothing DEF Init, VolumeWork
<1>3. Durable = {}
  BY DEF Init, Durable, ValidIn
<1>4. VolumeStable = EmptyTree
  BY <1>3 DEF Init, VolumeStable
<1> QED
  BY <1>1, <1>2, <1>4 DEF Volume!Init

LEMMA EditPromise ==
  ASSUME TypeOK, TypeOK', CrashReady, FileStep
  PROVE  Volume!Edit
<1>1. /\ phase = "idle" /\ restoreError = "none" /\ medium' = medium
      /\ UNCHANGED <<phase, restoreError, active>>
  BY FileStepFrame DEF MayEdit
<1>2. VolumeMode = "live" /\ VolumeMode' = "live" /\ VolumeOffered = {} /\ VolumeOffered' = {}
  BY <1>1 DEF VolumeMode, VolumeOffered
<1>3. VolumeStable' = VolumeStable
  BY <1>1, StableKept DEF medium
<1>4. VolumeWork' \in Everything
  <2>1. tree' \in Tree
    BY DEF TypeOK
  <2>2. blk' \in [Block -> Data] /\ blkC' \in [Block -> Data \cup {Clean}]
    BY DEF TypeOK
  <2>3. SeenBlk' = [b \in Block |-> IF blkC'[b] = Clean THEN blk'[b] ELSE blkC'[b]]
    BY <2>2 DEF SeenBlk, Seen
  <2>4. SeenBlk' \in [Block -> Data]
    BY <2>2, <2>3
  <2>5. VolumeWork' = Contents(tree', SeenBlk')
    BY DEF VolumeWork, Contents
  <2> QED
    BY <2>1, <2>4, <2>5, ContentsType
<1> QED
  BY <1>2, <1>3, <1>4 DEF Volume!Edit

\* A save up to its commit header, a failure before it, and an idle step show
\* nothing and risk nothing.
LEMMA SilentPromise ==
  ASSUME TypeOK, CrashReady,
         \/ ZeroHeader \/ ZeroHeaderFails \/ FlushZero
         \/ WriteBody \/ WriteBodyFails \/ FlushBody \/ FlushFails
         \/ UNCHANGED vars
  PROVE  UNCHANGED <<VolumeMode, VolumeWork, VolumeStable, VolumeOffered>>
<1>1. VolumeWork' = VolumeWork
  BY SaveShowsNoChange DEF QuietStep, FlushStep, VolumeWork, Contents
<1>2. CASE UNCHANGED vars
  BY <1>1, <1>2 DEF vars, kernel, medium, volatile, VolumeMode, VolumeStable, VolumeOffered,
      Durable, OnMedium, Newest, ValidIn, Contents
<1>3. CASE \/ ZeroHeader \/ ZeroHeaderFails \/ FlushZero
           \/ WriteBody \/ WriteBodyFails \/ FlushBody \/ FlushFails
  <2>1. /\ phase # "off" /\ phase' # "off" /\ phase # "headed" /\ phase' # "headed"
        /\ restoreError = "none" /\ restoreError' = "none" /\ active' = active
    BY <1>3 DEF ZeroHeader, ZeroHeaderFails, FlushZero, WriteBody, WriteBodyFails, FlushBody,
        FlushFails, KeepState, CrashReady, NoSaveWhenFrozen
  <2>2. UNCHANGED <<VolumeMode, VolumeOffered>>
    BY <2>1 DEF VolumeMode, VolumeOffered
  <2>3. \/ medium' = medium
        \/ Flushed
    BY <1>3 DEF ZeroHeader, ZeroHeaderFails, FlushZero, WriteBody, WriteBodyFails, FlushBody,
        FlushFails, NotFlushed
  <2>4. active # -1 => active \in Slot /\ hdrC[active] = Clean
    BY <2>1 DEF CrashReady, ActiveRoot, Running, TypeOK, Slot
  <2>5. active # -1 => hdr'[active] = hdr[active]
    BY <2>3, <2>4, FlushedKeeps DEF medium
  <2>6. blk' = blk \/ \A b \in Block : blk'[b] = SeenBlk[b]
    BY <2>3 DEF Flushed, medium
  <2>7. VolumeStable' = VolumeStable
    BY <2>1, <2>5, <2>6, StableKept
  <2> QED
    BY <1>1, <2>2, <2>7
<1> QED
  BY <1>2, <1>3

LEMMA OfferPromise ==
  ASSUME TypeOK, CrashReady, WriteHeader \/ WriteHeaderFails
  PROVE  Volume!Offer
<1>1. /\ phase = "durable" /\ restoreError = "none" /\ active' = active /\ medium' = medium
      /\ \/ phase' = "headed" /\ restoreError' = "none"
         \/ phase' = "idle" /\ restoreError' = "io"
  <2>1. CASE WriteHeader
    BY <2>1 DEF WriteHeader, KeepState, CrashReady, NoSaveWhenFrozen
  <2>2. CASE WriteHeaderFails
    BY <2>2 DEF WriteHeaderFails, CrashReady, NoSaveWhenFrozen
  <2> QED
    BY <2>1, <2>2
<1>2. VolumeMode = "live" /\ VolumeMode' \in {"live", "frozen"} /\ VolumeOffered = {}
  BY <1>1 DEF VolumeMode, VolumeOffered
<1>3. VolumeWork' = VolumeWork
  BY SaveShowsNoChange DEF QuietStep, VolumeWork, Contents
<1>4. VolumeOffered' = {VolumeWork}
  BY <1>1, <1>3 DEF VolumeOffered
<1>5. VolumeStable' = VolumeStable
  BY <1>1, StableKept DEF medium
<1> QED
  BY <1>2, <1>3, <1>4, <1>5 DEF Volume!Offer

LEMMA AcknowledgePromise ==
  ASSUME TypeOK, CrashReady, FlushHeader
  PROVE  Volume!Acknowledge
<1>1. /\ phase = "headed" /\ phase' = "idle" /\ restoreError = "none" /\ restoreError' = "none"
      /\ active' = Spare /\ Spare \in Slot /\ tree' = tree
  BY SpareType DEF FlushHeader, CrashReady, NoSaveWhenFrozen
<1>2. /\ VolumeMode = "live" /\ VolumeMode' = "live"
      /\ VolumeOffered = {VolumeWork} /\ VolumeOffered' = {}
  BY <1>1 DEF VolumeMode, VolumeOffered
<1>3. VolumeWork' = VolumeWork
  BY SaveShowsNoChange DEF FlushStep, VolumeWork, Contents
<1>4. hdr'[Spare].root = tree
  <2>1. hdrC[Spare] = Commit /\ Commit \in Header
    BY <1>1, CommitType DEF CrashReady, SaveProgress, Running
  <2>2. Flushed
    BY DEF FlushHeader
  <2> QED
    BY <1>1, <2>1, <2>2, FlushedKeeps, Sentinels DEF Commit
<1>5. \A b \in Refs(tree) : blk'[b] = SeenBlk[b]
  BY RefsType DEF FlushHeader, Flushed
<1>6. VolumeStable' = Contents(hdr'[Spare].root, blk')
  BY <1>1 DEF VolumeStable, OnMedium, Spare
<1>7. Contents(tree, blk') = Contents(tree, SeenBlk)
  BY <1>5, ContentsSame DEF TypeOK
<1>8. VolumeStable' = VolumeWork
  BY <1>4, <1>6, <1>7 DEF VolumeWork
<1> QED
  BY <1>2, <1>3, <1>8 DEF Volume!Acknowledge

LEMMA DoubtPromise ==
  ASSUME TypeOK, CrashReady, FlushHeaderFails
  PROVE  Volume!Doubt
<1>1. /\ phase = "headed" /\ phase' = "idle" /\ restoreError = "none" /\ restoreError' = "io"
      /\ active' = active /\ medium' = medium
  BY DEF FlushHeaderFails, NotFlushed, CrashReady, NoSaveWhenFrozen
<1>2. VolumeMode = "live" /\ VolumeMode' = "frozen" /\ VolumeOffered = {VolumeWork}
  BY <1>1 DEF VolumeMode, VolumeOffered
<1>3. VolumeWork' = VolumeWork
  BY SaveShowsNoChange DEF QuietStep, VolumeWork, Contents
<1>4. VolumeOffered' = VolumeOffered
  BY <1>1, <1>2, <1>3 DEF VolumeOffered
<1>5. VolumeStable' = VolumeStable
  BY <1>1, StableKept DEF medium
<1> QED
  BY <1>2, <1>3, <1>4, <1>5 DEF Volume!Doubt

\* A restart that follows a power loss finds the last acknowledged save or the
\* one that was on offer.
LEMMA PowerLossPromise ==
  ASSUME TypeOK, TypeOK', CrashReady, CrashReady', PowerLoss
  PROVE  Volume!PowerLoss
<1>1. VolumeMode # "off" /\ VolumeMode' = "off" /\ VolumeOffered' = {}
  BY DEF PowerLoss, Forgotten, VolumeMode, VolumeOffered
<1>2. VolumeWork' = EmptyTree
  BY ContentsOfNothing DEF PowerLoss, Forgotten, VolumeWork, Contents
<1>3. VolumeStable' = IF Durable' = {} THEN EmptyTree
                      ELSE Contents(hdr'[Newest(hdr', Durable')].root, blk')
  BY DEF PowerLoss, Forgotten, VolumeStable, OnMedium
<1>4. Durable' = {s \in Slot : hdr'[s] # Blank}
  BY DEF CrashReady, BodyBeforeHeader, Durable, ValidIn
<1>5. \A b \in Block : blkC[b] = Clean => blk'[b] = blk[b]
  BY SurvivorsChoice DEF PowerLoss, TypeOK
<1>6. CASE restoreError = "nomem"
  <2>1. CleanCache
    BY <1>6 DEF CrashReady, StarvedUntouched
  <2>2. hdr' \in Survivors(hdr, hdrC, {}) /\ DOMAIN hdr = Slot
    BY DEF PowerLoss, TypeOK
  <2>3. hdr' = hdr
    BY <2>1, <2>2, SurvivorsChoice DEF CleanCache, TypeOK
  <2>4. blk' = blk
    BY <1>5, <2>1 DEF CleanCache, TypeOK
  <2>5. Durable' = Durable
    BY <1>4, <2>3, DurableSlots
  <2>6. VolumeStable = IF Durable = {} THEN EmptyTree
                       ELSE Contents(hdr[Newest(hdr, Durable)].root, blk)
    BY <1>6 DEF VolumeStable, OnMedium
  <2>7. VolumeStable' = VolumeStable
    BY <1>3, <2>3, <2>4, <2>5, <2>6
  <2> QED
    BY <1>1, <1>2, <2>7 DEF Volume!PowerLoss
<1>7. CASE restoreError # "nomem"
  <2>1. /\ hdr'[1 - Spare] # Blank =>
              /\ active = 1 - Spare /\ active \in Slot /\ hdr'[1 - Spare] = hdr[active]
              /\ hdr[active].gen = generation
              /\ \A b \in Refs(hdr[active].root) : blkC[b] = Clean
        /\ hdr'[Spare] # Blank =>
              /\ \A b \in Refs(hdr'[Spare].root) : blkC[b] = Clean
              /\ \/ /\ hdr'[Spare] = hdr[Spare] /\ active # -1
                    /\ generation = Succ(hdr[Spare].gen) /\ hdr[Spare] \in Header
                 \/ /\ hdr'[Spare] = Commit /\ (phase = "headed" \/ restoreError = "io")
    BY <1>7, HeadersLeft
  <2>2. Running /\ (Spare = 0 \/ Spare = 1) /\ generation \in Gen /\ Spare \in Slot
    BY <1>7 DEF PowerLoss, Running, Spare, TypeOK, Slot
  <2>3. active # -1 => active = 1 - Spare /\ hdr'[active] = hdr[active] /\ hdr'[active] # Blank
    <3>1. active # -1 => active = 1 - Spare /\ active \in Slot
      BY DEF Spare, TypeOK, Slot
    <3>2. active # -1 => hdr[active] # Blank /\ hdrC[active] = Clean
      BY <2>2 DEF CrashReady, ActiveRoot
    <3>3. hdr' \in Survivors(hdr, hdrC, {}) /\ DOMAIN hdr = Slot
      BY DEF PowerLoss, TypeOK
    <3> QED
      BY <3>1, <3>2, <3>3, SurvivorsChoice
  <2>4. VolumeStable = IF active = -1 THEN EmptyTree ELSE Contents(hdr[active].root, blk)
    BY <2>2 DEF Running, VolumeStable, OnMedium
  <2>5. ASSUME hdr'[Spare] = Commit, phase = "headed" \/ restoreError = "io"
        PROVE  VolumeStable' = VolumeWork /\ VolumeOffered = {VolumeWork}
    <3>1. VolumeOffered = {VolumeWork}
      BY <2>5 DEF VolumeOffered
    <3>2. Commit # Blank /\ Commit.root = tree /\ Commit.gen = Succ(generation)
      BY CommitType, Sentinels DEF Commit
    <3>3. Newest(hdr', Durable') = Spare
      BY <1>4, <2>1, <2>2, <2>5, <3>2, NewerBySucc DEF Newest, Slot
    <3>4. VolumeStable' = Contents(tree, blk')
      BY <1>3, <1>4, <2>2, <2>5, <3>2, <3>3
    <3>5. \A b \in Refs(tree) : b \in Block /\ blkC[b] = Clean
      BY <2>1, <2>5, <3>2, RefsType
    <3>6. \A b \in Refs(tree) : blk'[b] = SeenBlk[b]
      BY <1>5, <3>5 DEF SeenBlk, Seen, TypeOK
    <3>7. tree \in Tree
      BY DEF TypeOK
    <3> QED
      BY <3>1, <3>4, <3>6, <3>7, ContentsSame DEF VolumeWork
  <2>6. ASSUME ~(hdr'[Spare] = Commit /\ (phase = "headed" \/ restoreError = "io"))
        PROVE  VolumeStable' = VolumeStable
    <3>1. CASE active = -1
      <4>1. hdr'[Spare] = Blank /\ hdr'[1 - Spare] = Blank
        BY <2>1, <2>2, <2>6, <3>1
      <4>2. Durable' = {}
        BY <1>4, <2>2, <4>1 DEF Slot
      <4> QED
        BY <1>3, <2>4, <3>1, <4>2
    <3>2. CASE active # -1
      <4>1. active = 1 - Spare /\ hdr'[active] = hdr[active] /\ hdr'[active] # Blank
            /\ hdr[active].gen = generation /\ active \in Slot
        BY <2>1, <2>3, <3>2
      <4>2. hdr'[Spare] # Blank => hdr'[Spare].gen \in Gen /\ generation = Succ(hdr'[Spare].gen)
        BY <2>1, <2>6 DEF Header
      <4>3. Newest(hdr', Durable') = active
        BY <1>4, <2>2, <4>1, <4>2, NewerBySucc DEF Newest, Slot
      <4>4. VolumeStable' = Contents(hdr[active].root, blk')
        BY <1>3, <1>4, <4>1, <4>3
      <4>5. \A b \in Refs(hdr[active].root) : blk'[b] = blk[b]
        BY <1>5, <2>1, <4>1, RefsType
      <4>6. hdr[active].root \in Tree
        BY <4>1 DEF TypeOK, Header
      <4> QED
        BY <2>4, <3>2, <4>4, <4>5, <4>6, ContentsSame
    <3> QED
      BY <3>1, <3>2
  <2>7. VolumeStable' \in {VolumeStable} \cup VolumeOffered
    BY <2>5, <2>6
  <2> QED
    BY <1>1, <1>2, <2>7 DEF Volume!PowerLoss
<1> QED
  BY <1>6, <1>7

LEMMA BootPromise ==
  ASSUME TypeOK, CrashReady, CrashReady', ReadFaults = FALSE,
         Mount \/ MountNothing \/ MountStarved
  PROVE  Volume!Boot \/ Volume!BootFrozen
<1>1. phase = "off" /\ phase' = "idle" /\ medium' = medium /\ volatile' = volatile
  BY DEF Mount, MountNothing, MountStarved
<1>2. /\ CleanCache /\ SeenHdr = hdr /\ SeenBlk = blk
      /\ restoreError = "none" /\ active = -1 /\ tree = EmptyTree
  BY <1>1, CleanSeen DEF CrashReady, Resting
<1>3. SeenBlk' = blk
  BY <1>1, <1>2 DEF SeenBlk, medium, volatile
<1>4. Durable' = Durable /\ Durable = {s \in Slot : hdr[s] # Blank}
  BY <1>1, DurableSlots DEF medium, CrashReady, BodyBeforeHeader, Durable, ValidIn
<1>5. VolumeMode = "off" /\ VolumeOffered = {}
  BY <1>1, <1>2 DEF VolumeMode, VolumeOffered
<1>6. VolumeStable = IF Durable = {} THEN EmptyTree
                     ELSE Contents(hdr[Newest(hdr, Durable)].root, blk)
  BY <1>1 DEF VolumeStable, OnMedium
<1>7. VolumeWork' = Contents(tree', blk)
  BY <1>3 DEF VolumeWork, Contents
<1>8. CASE Mount
  <2>1. PICK lost \in Unreadable, flaky \in Unreadable :
          LET s == Newest(SeenHdr, Usable(lost) \ flaky)
          IN  /\ Usable(lost) \ flaky # {}
              /\ active' = s /\ tree' = SeenHdr[s].root
    BY <1>8 DEF Mount
  <2>2. Usable(lost) = Durable /\ flaky = {}
    BY <1>1, <1>4, UsableSlots DEF Unreadable
  <2>3. Durable # {} /\ active' = Newest(hdr, Durable) /\ tree' = hdr[active'].root
    BY <1>2, <2>1, <2>2
  <2>4. active' # -1 /\ restoreError' = "none"
    BY <1>2, <1>8, <2>3 DEF Mount, Newest
  <2>5. VolumeStable' = Contents(hdr[active'].root, blk)
    BY <1>1, <2>4 DEF VolumeStable, OnMedium, medium
  <2>6. VolumeMode' = "live" /\ VolumeOffered' = {}
    BY <1>1, <2>4 DEF VolumeMode, VolumeOffered
  <2>7. VolumeStable' = VolumeStable /\ VolumeWork' = VolumeStable
    BY <1>6, <1>7, <2>3, <2>5
  <2> QED
    BY <1>5, <2>6, <2>7 DEF Volume!Boot
<1>9. CASE MountNothing
  <2>1. PICK lost \in Unreadable, flaky \in Unreadable :
          /\ Usable(lost) \subseteq flaky
          /\ restoreError' = IF AllBlank(lost) THEN "none" ELSE "io"
    BY <1>9 DEF MountNothing
  <2>2. Usable(lost) = {} /\ Usable(lost) = Durable
    BY <1>1, <1>4, <2>1, UsableSlots DEF Unreadable
  <2>3. restoreError' = "none" /\ active' = -1 /\ tree' = EmptyTree
    BY <1>1, <1>2, <1>9, <2>1, <2>2, UsableSlots DEF MountNothing
  <2>4. VolumeMode' = "live" /\ VolumeOffered' = {} /\ VolumeStable' = EmptyTree
    BY <1>1, <2>3 DEF VolumeMode, VolumeOffered, VolumeStable
  <2>5. VolumeWork' = EmptyTree
    BY <1>7, <2>3, ContentsOfNothing
  <2> QED
    BY <1>5, <1>6, <2>2, <2>4, <2>5 DEF Volume!Boot
<1>10. CASE MountStarved
  <2>1. restoreError' = "nomem" /\ tree' = EmptyTree
    BY <1>2, <1>10 DEF MountStarved
  <2>2. VolumeMode' = "frozen" /\ VolumeOffered' = {} /\ VolumeWork' = EmptyTree
    BY <1>1, <1>7, <2>1, ContentsOfNothing DEF VolumeMode, VolumeOffered
  <2>3. VolumeStable' = IF Durable = {} THEN EmptyTree
                        ELSE Contents(hdr[Newest(hdr, Durable)].root, blk)
    BY <1>1, <1>4, <2>1 DEF VolumeStable, OnMedium, medium
  <2>4. VolumeStable' = VolumeStable
    BY <1>6, <2>3
  <2> QED
    BY <1>5, <2>2, <2>4 DEF Volume!BootFrozen
<1> QED
  BY <1>8, <1>9, <1>10

LEMMA NextPromise ==
  ASSUME ReadFaults = FALSE,
         TypeOK, TypeOK', CrashReady, CrashReady', [Next]_vars
  PROVE  [Volume!Next]_(Volume!vars)
<1>1. CASE FileStep
  BY <1>1, EditPromise DEF Volume!Next
<1>2. CASE QuietStep \/ FlushStep \/ UNCHANGED vars
  BY <1>2, SilentPromise, OfferPromise, AcknowledgePromise, DoubtPromise
  DEF QuietStep, FlushStep, Volume!Next, Volume!vars
<1>3. CASE PowerLoss
  BY <1>3, PowerLossPromise DEF Volume!Next
<1>4. CASE Mount \/ MountNothing \/ MountStarved
  BY <1>4, BootPromise DEF Volume!Next
<1> QED
  BY <1>1, <1>2, <1>3, <1>4, StepKinds

\* NVSTORE3 with its two slots, pins and flushes is an atomic durable volume: a
\* save is all or nothing, an acknowledged save is never lost, and a save of
\* unknown outcome freezes the volume until a boot has settled it.
THEOREM StoreKeepsPromise ==
  ASSUME ReadFaults = FALSE
  PROVE  Spec => Promise
<1>1. TypeOK /\ CrashReady /\ TypeOK' /\ CrashReady' /\ [Next]_vars
        => [Volume!Next]_(Volume!vars)
  BY NextPromise
<1> QED
  BY <1>1, InitPromise, TypesHold, PowerLossAlwaysSurvivable, PTL
  DEF Spec, Promise, Volume!Spec

Ops    == {"identify", "read", "write", "flush"}
Up     == {"started", "wait", "cleared", "unidentified", "ready"}
Halts  == {"stopCr", "stopFr"}
Stages == {"off", "scan"} \cup Halts \cup Up
Place  == Page \cup {None}

Command == [op : Ops, table : Place, page : Place]
Host == [stage : Stages, port : 1 .. Ports + 1, pages : [Role -> Place], online : BOOLEAN,
         then : {"", "start", "skip", "shutdown"}, op : {None} \cup Ops, answer : {None} \cup Ops]
Registers == [clb : Place, fb : Place, st : BOOLEAN, fre : BOOLEAN, cr : BOOLEAN, fr : BOOLEAN,
              ci : {None} \cup Command, error : BOOLEAN, running : {None} \cup Command]

\* A controller has some ports and the machine some pages; the rest is that the
\* sentinel is nothing else.
AhciAssumption ==
    /\ Ports \in Nat /\ IsFiniteSet(Page)
    /\ None \notin Page /\ None \notin Command /\ None \notin Ops

Stored == data \in Sector /\ bytes \in {0, 512} /\ cache \in Sector /\ stable \in Sector
Types ==
    /\ drv \in Host /\ held \subseteq Page /\ port \in [Port -> Registers]
    /\ Stored

\* Both engines of a port have stopped.
Dead(x) == ~x.st /\ ~x.fre /\ ~x.cr /\ ~x.fr /\ x.running = None
\* A port knows nothing of the driver.
Fresh(x) == x.clb = None /\ x.fb = None /\ x.ci = None /\ x.running = None
\* All that a port knows, and may use when it pleases, is in S.
Names(x, S) ==
    /\ x.clb \in S \cup {None} /\ x.fb \in S \cup {None}
    /\ x.ci # None => x.ci.table \in S \cup {None} /\ x.ci.page \in S \cup {None}
    /\ x.running # None => x.running.table \in S \cup {None} /\ x.running.page \in S \cup {None}
Idle(x) == x.ci = None /\ x.running = None
\* A port runs commands only while its engine runs.
Runs == \A p \in Port : port[p].running # None => port[p].cr

\* What a call has done when it is said to have succeeded.
Effect(op) == /\ op \in {"read", "write"} => data = cache
              /\ op = "flush" => stable = cache
\* The command is with the port, or it has ended.
Pending == Now.ci # None /\ Now.ci.op = drv.op /\ Now.running \in {None, Now.ci}
Over == Idle(Now) /\ (~Now.error /\ (drv.op # "flush" => bytes = 512) => Effect(drv.op))

Kept == \A p \in Port : Dead(port[p]) \/ Names(port[p], held)
Owned == /\ drv.stage = "off" => drv.pages = NoPages
         /\ drv.stage # "off" => drv.pages \in [Role -> held]
InTurn ==
    drv.stage # "off" \/ drv.port \in Port =>
        \A p \in Port : /\ p < drv.port => Dead(port[p]) \/ Fresh(port[p])
                        /\ p > drv.port => Fresh(port[p])
                        /\ p = drv.port /\ drv.stage \in {"off", "scan"} => Fresh(port[p])
Mine == {drv.pages[r] : r \in Role}
Present == drv.stage \in Halts \cup Up => drv.port \in Port /\ Names(Now, Mine)
Halting ==
    /\ drv.stage \in Halts => ~Now.st /\ drv.then # "" /\ (drv.then = "start" => Fresh(Now))
    /\ drv.stage = "stopFr" => ~Now.cr /\ ~Now.fre
Working ==
    /\ drv.stage \in Up => Now.st /\ Now.fre
    /\ drv.op # None <=> drv.stage \in {"wait", "cleared"}
    /\ drv.stage = "started" \/ (drv.stage = "ready" /\ drv.online) => Idle(Now)
    /\ drv.stage \in {"wait", "cleared"} => Pending \/ Over

IInv == Types /\ Runs /\ Kept /\ Owned /\ InTurn /\ Present /\ Halting /\ Working

-----------------------------------------------------------------------------
(* Pages and ports *)

LEMMA FourRoles == Cardinality(Role) = 4
<1> DEFINE a == {"command"}  b == a \cup {"fis"}  c == b \cup {"table"}  d == c \cup {"data"}
<1>1. IsFiniteSet(a) /\ Cardinality(a) = 1
  BY FS_Singleton
<1>2. IsFiniteSet(b) /\ Cardinality(b) = 2
  BY <1>1, FS_AddElement, "fis" \notin a
<1>3. IsFiniteSet(c) /\ Cardinality(c) = 3
  BY <1>2, FS_AddElement, "table" \notin b
<1>4. IsFiniteSet(d) /\ Cardinality(d) = 4
  BY <1>3, FS_AddElement, "data" \notin c
<1>5. d = Role
  BY DEF Role
<1> QED
  BY <1>4, <1>5

LEMMA OneLess ==
    ASSUME NEW S, NEW n \in Nat, IsFiniteSet(S), Cardinality(S) >= n + 1
    PROVE  \E x \in S : IsFiniteSet(S \ {x}) /\ Cardinality(S \ {x}) >= n
<1>1. Cardinality(S) \in Nat /\ Cardinality(S) # 0
  BY FS_CardinalityType
<1>2. PICK x \in S : TRUE
  BY <1>1, FS_EmptySet
<1>3. IsFiniteSet(S \ {x}) /\ Cardinality(S \ {x}) = Cardinality(S) - 1
  BY <1>2, FS_RemoveElement
<1> QED
  BY <1>1, <1>2, <1>3

\* ahci_init finds a page for each role that nobody holds.
LEMMA TakenFree ==
    ASSUME AhciAssumption, held \subseteq Page, Cardinality(Page \ held) >= Cardinality(Role)
    PROVE  Taken \in [Role -> Page \ held]
<1> DEFINE S == Page \ held
           Apart(f) == \A r, s \in Role : r # s => f[r] # f[s]
<1>1. IsFiniteSet(S) /\ Cardinality(S) >= 3 + 1
  BY FourRoles, FS_Subset DEF AhciAssumption
<1> HIDE DEF S
<1>2. PICK a \in S : IsFiniteSet(S \ {a}) /\ Cardinality(S \ {a}) >= 2 + 1
  <2>1. \E x \in S : IsFiniteSet(S \ {x}) /\ Cardinality(S \ {x}) >= 3
    BY <1>1, OneLess
  <2> QED
    BY <2>1
<1> DEFINE A == S \ {a}
<1>3. PICK b \in A : IsFiniteSet(A \ {b}) /\ Cardinality(A \ {b}) >= 1 + 1
  <2>1. \E x \in A : IsFiniteSet(A \ {x}) /\ Cardinality(A \ {x}) >= 2
    BY <1>2, OneLess
  <2> QED
    BY <2>1
<1> DEFINE B == A \ {b}
<1>4. PICK c \in B : IsFiniteSet(B \ {c}) /\ Cardinality(B \ {c}) >= 0 + 1
  <2>1. \E x \in B : IsFiniteSet(B \ {x}) /\ Cardinality(B \ {x}) >= 1
    BY <1>3, OneLess
  <2> QED
    BY <2>1
<1> DEFINE C == B \ {c}
<1>5. PICK d \in C : TRUE
  <2>1. \E x \in C : IsFiniteSet(C \ {x}) /\ Cardinality(C \ {x}) >= 0
    BY <1>4, OneLess
  <2> QED
    BY <2>1
<1> DEFINE F == [r \in Role |-> CASE r = "command" -> a [] r = "fis" -> b [] r = "table" -> c
                                  [] OTHER -> d]
<1>6. F \in [Role -> S] /\ Apart(F)
  BY <1>2, <1>3, <1>4, <1>5 DEF Role
<1>7. \E f \in [Role -> S] : Apart(f)
  BY <1>6
<1> QED
  BY <1>7 DEF Taken, S

\* What a port knows, after some of it has gone, or beside more pages.
LEMMA NamesLess ==
    ASSUME NEW x \in Registers, NEW y \in Registers, NEW S, NEW T, Names(x, S), S \subseteq T,
           y.clb = x.clb, y.fb = x.fb, y.ci \in {x.ci, None}, y.running \in {x.running, x.ci, None}
    PROVE  Names(y, T)
BY DEF Names

LEMMA FreshNames == ASSUME NEW x, Fresh(x), NEW S PROVE Names(x, S)
BY DEF Fresh, Names

\* The pages that the driver has written down are its own.
LEMMA MineHeld == ASSUME Owned, drv.stage # "off" PROVE Mine \subseteq held
BY DEF Owned, Mine

\* A port moves: what it knows it knew before, and it starts only what may run.
Moves(x, y) ==
    /\ y \in Registers /\ ~Dead(x)
    /\ y.st = x.st /\ y.fre = x.fre /\ y.clb = x.clb /\ y.fb = x.fb
    /\ y.ci \in {x.ci, None} /\ y.running \in {x.running, x.ci, None}
    /\ y.running # None => y.cr
    /\ ~x.st /\ ~x.cr => ~y.cr

LEMMA EngineMoves ==
    ASSUME AhciAssumption, Types, Runs, NEW p \in Port, Engine(p)
    PROVE  /\ UNCHANGED <<drv, held, data, bytes, cache, stable>>
           /\ \E y : /\ Moves(port[p], y) /\ port' = [port EXCEPT ![p] = y]
                     /\ y.error = port[p].error
                     /\ port[p].st => y.ci = port[p].ci /\ y.running = port[p].running
<1> DEFINE x == port[p]
<1>1. x \in Registers /\ (x.running # None => x.cr)
  BY DEF Types, Runs
<1>2. PICK y : /\ port' = [port EXCEPT ![p] = y]
               /\ \/ x.fre /\ ~x.fr /\ y = [x EXCEPT !.fr = TRUE]
                  \/ x.st /\ ~x.cr /\ y = [x EXCEPT !.cr = TRUE]
                  \/ ~x.fre /\ x.fr /\ y = [x EXCEPT !.fr = FALSE]
                  \/ ~x.st /\ x.cr /\ y = [x EXCEPT !.cr = FALSE, !.ci = None, !.running = None]
  BY DEF Engine, Does
<1> HIDE DEF x
<1>3. Moves(x, y) /\ y.error = x.error /\ (x.st => y.ci = x.ci /\ y.running = x.running)
  BY <1>1, <1>2 DEF Moves, Registers, Dead
<1>4. UNCHANGED <<drv, held, data, bytes, cache, stable>>
  BY DEF Engine, memory, drive
<1> QED
  BY <1>2, <1>3, <1>4 DEF x

LEMMA BeginMoves ==
    ASSUME AhciAssumption, Types, Runs, NEW p \in Port, Begin(p)
    PROVE  /\ UNCHANGED <<drv, held, data, bytes, cache, stable>>
           /\ \E y : /\ Moves(port[p], y) /\ port' = [port EXCEPT ![p] = y]
                     /\ y.error = port[p].error /\ port[p].ci # None
                     /\ y.ci = port[p].ci /\ y.running = port[p].ci
<1> DEFINE x == port[p]
           y == [x EXCEPT !.running = x.ci]
<1>1. x \in Registers /\ x.cr /\ x.st /\ x.ci # None
  BY DEF Types, Begin
<1>2. port' = [port EXCEPT ![p] = y] /\ UNCHANGED <<drv, held, data, bytes, cache, stable>>
  BY DEF Begin, Does, memory, drive
<1> HIDE DEF x
<1>3. Moves(x, y) /\ y.error = x.error /\ y.ci = x.ci /\ y.running = x.ci
  BY <1>1 DEF Moves, Registers, Dead
<1> HIDE DEF y
<1> QED
  BY <1>1, <1>2, <1>3 DEF x

LEMMA FinishMoves ==
    ASSUME AhciAssumption, Types, Runs, NEW p \in Port, Finish(p)
    PROVE  /\ UNCHANGED <<drv, held>>
           /\ Stored'
           /\ port[p].running # None
           /\ \E y : /\ Moves(port[p], y) /\ port' = [port EXCEPT ![p] = y]
                     /\ y.running = None
                     /\ \/ y.ci = None /\ \A op : op = port[p].running.op => Effect(op)'
                        \/ y.ci = port[p].ci \/ y.error
                        \/ port[p].running.op # "flush" /\ bytes' = 0
<1> DEFINE x == port[p]
           c == x.running
<1>1. x \in Registers /\ x.running # None /\ x.cr /\ c \in Command
  <2>1. x \in Registers
    BY DEF Types
  <2>2. x.running # None
    BY DEF Finish
  <2>3. x.cr
    BY <2>2 DEF Runs
  <2> QED
    BY <2>1, <2>2, <2>3 DEF Registers
<1>2. UNCHANGED <<drv, held>>
  BY DEF Finish
<1>3. /\ data \in Sector /\ cache \in Sector /\ stable \in Sector
  BY DEF Types, Stored
<1>4. CASE /\ Does(p, [x EXCEPT !.running = None, !.ci = None])
           /\ cache' = IF c.op = "write" THEN data ELSE cache
           /\ data' = IF c.op = "read" THEN cache ELSE data
           /\ stable' \in {IF c.op = "flush" THEN cache ELSE stable, cache'}
           /\ bytes' = 512
  <2> DEFINE y == [x EXCEPT !.running = None, !.ci = None]
  <2>1. port' = [port EXCEPT ![p] = y]
    BY <1>4 DEF Does
  <2>2. ASSUME NEW op, op = c.op PROVE Effect(op)'
    BY <1>4, <2>2 DEF Effect
  <2>3. Stored'
    BY <1>3, <1>4 DEF Stored
  <2> HIDE DEF x, c
  <2>4. Moves(x, y) /\ y.running = None /\ y.ci = None
    BY <1>1 DEF Moves, Registers, Dead
  <2> HIDE DEF y
  <2> QED
    BY <1>1, <1>2, <2>1, <2>2, <2>3, <2>4 DEF x, c
<1>5. CASE /\ \E error \in BOOLEAN, ci \in {x.ci, None} :
                  /\ error \/ (ci = None /\ c.op # "flush")
                  /\ Does(p, [x EXCEPT !.running = None, !.error = error, !.ci = ci])
                  /\ bytes' \in {0} \cup (IF error THEN {512} ELSE {})
           /\ UNCHANGED <<data, drive>>
  <2>1. PICK error \in BOOLEAN, ci \in {x.ci, None} :
                  /\ error \/ (ci = None /\ c.op # "flush")
                  /\ Does(p, [x EXCEPT !.running = None, !.error = error, !.ci = ci])
                  /\ bytes' \in {0} \cup (IF error THEN {512} ELSE {})
    BY <1>5
  <2> DEFINE y == [x EXCEPT !.running = None, !.error = error, !.ci = ci]
  <2>2. port' = [port EXCEPT ![p] = y]
    BY <2>1 DEF Does
  <2>3. Stored'
    BY <1>3, <1>5, <2>1 DEF drive, Stored
  <2> HIDE DEF x, c
  <2>4. Moves(x, y) /\ y.running = None /\ y.error = error
    <3>1. ci \in {None} \cup Command /\ error \in BOOLEAN
      BY <1>1, <2>1 DEF Registers
    <3>2. /\ y \in Registers /\ y.running = None /\ y.error = error /\ y.ci = ci
          /\ y.st = x.st /\ y.fre = x.fre /\ y.cr = x.cr /\ y.clb = x.clb /\ y.fb = x.fb
      BY <1>1, <3>1 DEF Registers
    <3> HIDE DEF y
    <3> QED
      BY <1>1, <2>1, <3>2 DEF Moves, Dead
  <2>5. error \/ (c.op # "flush" /\ bytes' = 0)
    BY <2>1
  <2> HIDE DEF y
  <2> QED
    BY <1>1, <1>2, <2>2, <2>3, <2>4, <2>5 DEF x, c
<1> QED
  BY <1>4, <1>5 DEF Finish

-----------------------------------------------------------------------------
(***************************************************************************)
(* The ports                                                               *)
(***************************************************************************)

\* Types and what ports know, whichever port moves.
LEMMA MoveKeeps ==
    ASSUME AhciAssumption, IInv, NEW p \in Port, NEW y, Moves(port[p], y),
           port' = [port EXCEPT ![p] = y], drv' = drv, held' = held,
           Stored'
    PROVE  /\ (Types /\ Runs /\ Kept /\ Owned /\ InTurn /\ Present /\ Halting)'
           /\ drv.stage \in Up => Now'.st /\ Now'.fre
<1>1. /\ Types /\ Runs /\ Kept /\ Owned /\ InTurn /\ Present /\ Halting /\ Working
      /\ port[p] \in Registers /\ y \in Registers
  BY DEF IInv, Types, Moves
<1>2. /\ port'[p] = y /\ \A q \in Port : q # p => port'[q] = port[q]
  BY <1>1 DEF Types
<1>3. Types'
  BY <1>1 DEF Types
<1>4. Runs'
  BY <1>1, <1>2 DEF Runs, Moves
<1>5. \A S : Names(port[p], S) => Names(y, S)
  BY <1>1, NamesLess DEF Moves
<1>6. Kept'
  BY <1>1, <1>2, <1>5 DEF Kept, Moves
<1>7. Fresh(port[p]) => Fresh(y)
  BY DEF Fresh, Moves
<1>8. ~Dead(port[p])
  BY DEF Moves
<1>9. InTurn'
  BY <1>1, <1>2, <1>7, <1>8 DEF InTurn
<1>10. Mine' = Mine
  BY DEF Mine
<1>11. Present'
  BY <1>1, <1>2, <1>5, <1>10 DEF Present, Now
<1>12. Owned'
  BY <1>1 DEF Owned
<1>13. drv.stage \in Halts \cup Up => drv.port \in Port
  BY <1>1 DEF Present
<1>14. Halting'
  <2>1. CASE drv.stage \in Halts /\ p = drv.port
    <3>1. Now' = y /\ Now = port[p] /\ drv.port' = drv.port
      BY <1>2, <2>1 DEF Now
    <3>2. /\ y.st = Now.st /\ y.fre = Now.fre /\ (~Now.st /\ ~Now.cr => ~y.cr)
          /\ (Fresh(Now) => Fresh(y))
      BY <1>7, <3>1 DEF Moves
    <3> QED
      BY <1>1, <2>1, <3>1, <3>2 DEF Halting, Halts
  <2>2. CASE drv.stage \in Halts /\ p # drv.port
    <3>1. Now' = Now
      BY <1>2, <1>13, <2>2 DEF Now
    <3> QED
      BY <1>1, <3>1 DEF Halting
  <2>3. CASE drv.stage \notin Halts
    BY <2>3 DEF Halting, Halts
  <2> QED
    BY <2>1, <2>2, <2>3
<1>15. drv.stage \in Up => Now'.st /\ Now'.fre
  BY <1>1, <1>2, <1>13 DEF Working, Moves, Now
<1> QED
  BY <1>3, <1>4, <1>6, <1>9, <1>11, <1>12, <1>14, <1>15

\* While a command is out no other port runs anything.
LEMMA OthersRest ==
    ASSUME IInv, drv.stage \in Up, NEW p \in Port, p # drv.port
    PROVE  port[p].running = None /\ (port[p].st => port[p].ci = None) /\ Now.st /\ drv.port \in Port
<1>1. drv.stage # "off" /\ drv.port \in Port /\ Now.st
  BY DEF IInv, Present, Working, Up
<1>2. Dead(port[p]) \/ Fresh(port[p])
  <2>1. p < drv.port \/ p > drv.port
    BY <1>1 DEF Port
  <2> QED
    BY <1>1, <2>1 DEF IInv, InTurn
<1> QED
  BY <1>1, <1>2 DEF Dead, Fresh

LEMMA DeviceIInv == ASSUME AhciAssumption, IInv, Device PROVE IInv'
<1>1. Types /\ Runs /\ Working /\ Stored
  BY DEF IInv, Types
<1>2. PICK p \in Port : Engine(p) \/ Begin(p) \/ Finish(p)
  BY DEF Device
<1>a. port \in [Port -> Registers]
  BY <1>1 DEF Types
<1>3. CASE Engine(p)
  <2>1. UNCHANGED <<drv, held, data, bytes, cache, stable>>
    BY <1>1, <1>3, EngineMoves
  <2>2. PICK y : /\ Moves(port[p], y) /\ port' = [port EXCEPT ![p] = y]
                 /\ y.error = port[p].error
                 /\ port[p].st => y.ci = port[p].ci /\ y.running = port[p].running
    BY <1>1, <1>3, EngineMoves
  <2>0. Stored'
    BY <1>1, <2>1 DEF Stored
  <2>3. /\ (Types /\ Runs /\ Kept /\ Owned /\ InTurn /\ Present /\ Halting)'
        /\ drv.stage \in Up => Now'.st /\ Now'.fre
    BY <2>1, <2>2, <2>0, MoveKeeps
  <2>4. ASSUME drv.stage \in Up
        PROVE Now'.ci = Now.ci /\ Now'.running = Now.running /\ Now'.error = Now.error
    <3>1. Now.st /\ drv.port \in Port
      BY <1>1, <2>4 DEF Working, IInv, Present
    <3> QED
      BY <1>a, <2>1, <2>2, <3>1 DEF Now
  <2>5. Working'
    BY <1>1, <2>1, <2>3, <2>4 DEF Working, Up, Idle, Pending, Over, Effect
  <2> QED
    BY <2>3, <2>5 DEF IInv
<1>4. CASE Begin(p)
  <2>1. UNCHANGED <<drv, held, data, bytes, cache, stable>>
    BY <1>1, <1>4, BeginMoves
  <2>2. PICK y : /\ Moves(port[p], y) /\ port' = [port EXCEPT ![p] = y]
                 /\ y.error = port[p].error /\ port[p].ci # None
                 /\ y.ci = port[p].ci /\ y.running = port[p].ci
    BY <1>1, <1>4, BeginMoves
  <2>0. Stored'
    BY <1>1, <2>1 DEF Stored
  <2>3. /\ (Types /\ Runs /\ Kept /\ Owned /\ InTurn /\ Present /\ Halting)'
        /\ drv.stage \in Up => Now'.st /\ Now'.fre
    BY <2>1, <2>2, <2>0, MoveKeeps
  <2>4. CASE drv.stage \in Up
    <3>1. p = drv.port
      <4>1. port[p].st
        BY <1>4 DEF Begin
      <4> QED
        BY <2>2, <2>4, <4>1, OthersRest
    <3>2. Now'.ci = Now.ci /\ Now'.running = Now.ci /\ Now'.error = Now.error /\ Now.ci # None
      BY <1>a, <2>1, <2>2, <3>1 DEF Now
    <3> QED
      BY <1>1, <2>1, <2>3, <2>4, <3>2 DEF Working, Up, Idle, Pending, Over, IInv
  <2>5. CASE drv.stage \notin Up
    <3>1. Working'
      BY <1>1, <2>1, <2>5 DEF Working, Up
    <3> QED
      BY <2>3, <3>1 DEF IInv
  <2> QED
    BY <2>4, <2>5
<1>5. CASE Finish(p)
  <2>1. /\ UNCHANGED <<drv, held>> /\ port[p].running # None
        /\ Stored'
    BY <1>1, <1>5, FinishMoves
  <2>2. PICK y : /\ Moves(port[p], y) /\ port' = [port EXCEPT ![p] = y]
                 /\ y.running = None
                 /\ \/ y.ci = None /\ \A op : op = port[p].running.op => Effect(op)'
                    \/ y.ci = port[p].ci \/ y.error
                    \/ port[p].running.op # "flush" /\ bytes' = 0
    BY <1>1, <1>5, FinishMoves
  <2>b. /\ drv' = drv /\ held' = held
        /\ Stored'
    BY <2>1
  <2>c. Moves(port[p], y) /\ port' = [port EXCEPT ![p] = y]
    BY <2>2
  <2>3. /\ (Types /\ Runs /\ Kept /\ Owned /\ InTurn /\ Present /\ Halting)'
        /\ drv.stage \in Up => Now'.st /\ Now'.fre
    BY <2>c, <2>b, MoveKeeps
  <2>4. CASE drv.stage \in Up
    <3>1. p = drv.port
      BY <2>1, <2>4, OthersRest
    <3>2. /\ Now.running # None /\ Now'.running = None /\ Now'.ci \in {Now.ci, None}
          /\ \/ Now'.ci = None /\ \A op : op = Now.running.op => Effect(op)'
             \/ Now'.ci = Now.ci \/ Now'.error
             \/ Now.running.op # "flush" /\ bytes' = 0
      BY <1>a, <2>1, <2>2, <3>1 DEF Moves, Now
    <3>3. ASSUME drv.stage \in {"wait", "cleared"} PROVE (Pending \/ Over)'
      <4>1. Pending
        BY <1>1, <3>2, <3>3 DEF Working, Over, Idle
      <4>2. Now.running = Now.ci /\ Now.running.op = drv.op /\ Now.ci # None
        BY <3>2, <4>1 DEF Pending
      <4>3. CASE Now'.ci = None /\ Effect(drv.op)'
        <5>1. drv' = drv
          BY <2>1
        <5> QED
          BY <3>2, <4>3, <5>1 DEF Over, Idle
      <4>4. CASE Now'.ci = Now.ci
        BY <2>1, <3>2, <4>2, <4>4 DEF Pending
      <4>5. CASE Now'.ci = None /\ (Now'.error \/ (drv.op # "flush" /\ bytes' = 0))
        BY <2>1, <3>2, <4>5 DEF Over, Idle
      <4>6. \A op : op = Now.running.op => op = drv.op
        BY <4>2
      <4> QED
        BY <2>1, <3>2, <4>2, <4>3, <4>4, <4>5
    <3>4. ~Idle(Now)
      BY <3>2 DEF Idle
    <3>5. Working'
      BY <1>1, <2>1, <2>3, <2>4, <3>3, <3>4 DEF Working
    <3> QED
      BY <2>3, <3>5 DEF IInv
  <2>5. CASE drv.stage \notin Up
    <3>1. Working'
      BY <1>1, <2>1, <2>5 DEF Working, Up
    <3> QED
      BY <2>3, <3>1 DEF IInv
  <2> QED
    BY <2>4, <2>5
<1> QED
  BY <1>2, <1>3, <1>4, <1>5

-----------------------------------------------------------------------------
(***************************************************************************)
(* The driver                                                              *)
(***************************************************************************)

LEMMA OffTyped ==
    ASSUME AhciAssumption, NEW n \in 1 .. Ports + 1
    PROVE  /\ Off(n) \in Host /\ Off(n).stage = "off" /\ Off(n).port = n
           /\ Off(n).pages = NoPages /\ Off(n).op = None
<1>1. NoPages \in [Role -> Place] /\ "off" \in Stages
  BY DEF NoPages, Place, Stages
<1> HIDE DEF NoPages, Stages
<1> QED
  BY <1>1 DEF Off, Host

LEMMA InitIInv == ASSUME AhciAssumption, AhciInit PROVE IInv
<1>1. 1 \in 1 .. Ports + 1
  BY DEF AhciAssumption
<1>2. /\ drv \in Host /\ drv.stage = "off" /\ drv.port = 1 /\ drv.pages = NoPages /\ drv.op = None
  BY <1>1, OffTyped DEF AhciInit
<1>3. \A b \in BOOLEAN : Left(b) \in Registers /\ Fresh(Left(b))
  BY DEF Left, Registers, Fresh, Place
<1>4. port \in [Port -> Registers] /\ \A p \in Port : Fresh(port[p])
  BY <1>3 DEF AhciInit
<1>5. Types
  BY <1>2, <1>4 DEF Types, Stored, AhciInit
<1>6. Runs /\ Kept /\ InTurn
  BY <1>4, FreshNames DEF Runs, Kept, InTurn, Fresh
<1>7. Owned /\ Present /\ Halting /\ Working
  BY <1>2 DEF Owned, Present, Halting, Working, Halts, Up
<1> QED
  BY <1>5, <1>6, <1>7 DEF IInv

LEMMA OpenIInv == ASSUME AhciAssumption, IInv, Open PROVE IInv'
<1>1. Types /\ Runs /\ Kept /\ InTurn /\ Working /\ drv.stage = "off" /\ drv.port \in Port /\ drv \in Host
  BY DEF IInv, Open, Types
<1>2. Taken \in [Role -> Page \ held]
  BY <1>1, TakenFree DEF Open, Types
<1> HIDE DEF Taken
<1>3. /\ drv' = [drv EXCEPT !.stage = "scan", !.pages = Taken]
      /\ held' = held \cup {Taken[r] : r \in Role}
      /\ UNCHANGED <<data, bytes, port, cache, stable>>
  <2>1. /\ drv' = [drv EXCEPT !.stage = "scan", !.pages = Taken]
        /\ held' = held \cup {drv'.pages[r] : r \in Role}
        /\ UNCHANGED <<data, bytes, port, cache, stable>>
    BY DEF Open, memory, drive
  <2>2. drv'.pages = Taken
    BY <1>1, <2>1 DEF Host
  <2> QED
    BY <2>1, <2>2
<1>4. /\ drv' \in Host /\ drv'.stage = "scan" /\ drv'.pages = Taken /\ drv'.port = drv.port
      /\ drv'.op = drv.op
  <2>1. Taken \in [Role -> Place] /\ "scan" \in Stages
    BY <1>2 DEF Place, Stages
  <2> HIDE DEF Stages, Place
  <2> QED
    BY <1>1, <1>3, <2>1 DEF Host
<1>5. held' \subseteq Page /\ Taken \in [Role -> held'] /\ held \subseteq held'
  BY <1>1, <1>2, <1>3 DEF Types
<1>6. Types'
  BY <1>1, <1>3, <1>4, <1>5 DEF Types, Stored
<1>7. Kept'
  <2>1. \A x \in Registers : Names(x, held) => Names(x, held')
    BY <1>5, NamesLess
  <2> QED
    BY <1>1, <1>3, <2>1 DEF Kept, Types
<1>8. Runs' /\ InTurn'
  BY <1>1, <1>3, <1>4 DEF Runs, InTurn
<1>9. Owned' /\ Present' /\ Halting' /\ Working'
  BY <1>1, <1>4, <1>5 DEF Owned, Present, Halting, Working, Halts, Up
<1> QED
  BY <1>6, <1>7, <1>8, <1>9 DEF IInv

\* The engine of a port is told to stop: of a new one, or of one the driver uses.
LEMMA StopIInv ==
    ASSUME AhciAssumption, IInv, NEW then \in {"start", "skip", "shutdown"}, StopEngine(then),
           drv.port \in Port, drv.stage \in {"scan"} \cup Up, then = "start" => drv.stage = "scan"
    PROVE  IInv'
<1> DEFINE x == Now
           y == [x EXCEPT !.st = FALSE]
<1>1. /\ Types /\ Runs /\ Kept /\ Owned /\ InTurn /\ Present /\ Halting /\ Working
      /\ drv \in Host /\ port \in [Port -> Registers] /\ x \in Registers /\ drv.stage # "off"
  BY DEF IInv, Types, Now, Up
<1>2. /\ drv' = [drv EXCEPT !.stage = "stopCr", !.then = then, !.op = None]
      /\ port' = [port EXCEPT ![drv.port] = y] /\ UNCHANGED <<held, data, bytes, cache, stable>>
  BY DEF StopEngine, Set, memory, drive
<1>3. /\ drv' \in Host /\ drv'.stage = "stopCr" /\ drv'.then = then /\ drv'.op = None
      /\ drv'.pages = drv.pages /\ drv'.port = drv.port
  BY <1>1, <1>2 DEF Host, Stages, Halts
<1>4. /\ y \in Registers /\ ~y.st /\ y.fre = x.fre /\ y.cr = x.cr /\ y.fr = x.fr
      /\ y.clb = x.clb /\ y.fb = x.fb /\ y.ci = x.ci /\ y.running = x.running
  BY <1>1 DEF Registers
<1> HIDE DEF y
<1>5. /\ port' \in [Port -> Registers] /\ port'[drv.port] = y
      /\ \A p \in Port : p # drv.port => port'[p] = port[p]
  BY <1>1, <1>2, <1>4
<1>6. x = port[drv.port]
  BY DEF Now
<1> HIDE DEF x
<1>7. /\ Dead(x) => Dead(y)
      /\ Fresh(x) => Fresh(y)
      /\ \A S : Names(x, S) => Names(y, S)
  BY <1>1, <1>4, NamesLess DEF Dead, Fresh
<1>8. Types'
  BY <1>1, <1>2, <1>3, <1>5 DEF Types, Stored
<1>9. Runs'
  BY <1>1, <1>4, <1>5, <1>6 DEF Runs
<1>10. Kept'
  BY <1>1, <1>2, <1>5, <1>6, <1>7 DEF Kept
<1>11. InTurn'
  BY <1>1, <1>3, <1>5, <1>6, <1>7 DEF InTurn
<1>12. Names(x, Mine) /\ (drv.stage = "scan" => Fresh(x))
  <2>1. CASE drv.stage = "scan"
    BY <1>1, <1>6, <2>1, FreshNames DEF InTurn
  <2>2. CASE drv.stage \in Up
    BY <1>1, <2>2 DEF Present, x, Up
  <2> QED
    BY <2>1, <2>2
<1>13. Now' = y /\ Mine' = Mine
  BY <1>3, <1>5 DEF Now, Mine
<1>14. Present'
  BY <1>3, <1>7, <1>12, <1>13 DEF Present
<1>15. Halting'
  BY <1>3, <1>4, <1>7, <1>12, <1>13 DEF Halting
<1>16. Owned'
  BY <1>1, <1>2, <1>3 DEF Owned
<1>17. Working'
  BY <1>3 DEF Working, Up
<1> QED
  BY <1>8, <1>9, <1>10, <1>11, <1>14, <1>15, <1>16, <1>17 DEF IInv

\* The search goes on at a later port, with the same pages.
LEMMA NextIInv ==
    ASSUME AhciAssumption, IInv, drv.stage \in {"scan", "stopFr"}, drv.port \in Port,
           Dead(Now) \/ Fresh(Now), drv' = [drv EXCEPT !.stage = "scan", !.port = @ + 1],
           UNCHANGED <<held, data, bytes, port, cache, stable>>
    PROVE  IInv'
<1>1. Types /\ Runs /\ Kept /\ Owned /\ InTurn /\ Working /\ drv \in Host /\ Ports \in Nat
  BY DEF IInv, Types, AhciAssumption
<1>2. drv.port + 1 \in 1 .. Ports + 1 /\ drv.port \in 1 .. Ports
  BY <1>1 DEF Port
<1>3. /\ drv' \in Host /\ drv'.stage = "scan" /\ drv'.port = drv.port + 1 /\ drv'.op = drv.op
      /\ drv'.pages = drv.pages
  BY <1>1, <1>2 DEF Host, Stages
<1>4. Types' /\ Runs' /\ Kept' /\ Owned'
  BY <1>1, <1>3 DEF Types, Stored, Runs, Kept, Owned
<1>5. InTurn'
  <2>1. \A p \in Port : p \in Nat
    BY DEF Port
  <2>2. \A p \in Port : (p < drv.port => Dead(port[p]) \/ Fresh(port[p])) /\ (p > drv.port => Fresh(port[p]))
    BY <1>1 DEF InTurn
  <2>3. \A p \in Port : /\ p < drv.port + 1 => Dead(port[p]) \/ Fresh(port[p])
                        /\ p >= drv.port + 1 => Fresh(port[p])
    <3> SUFFICES ASSUME NEW p \in Port
                 PROVE  /\ p < drv.port + 1 => Dead(port[p]) \/ Fresh(port[p])
                        /\ p >= drv.port + 1 => Fresh(port[p])
      OBVIOUS
    <3>1. p < drv.port \/ p = drv.port \/ p > drv.port
      BY <1>2, <2>1
    <3>2. (p < drv.port + 1 => p < drv.port \/ p = drv.port) /\ (p >= drv.port + 1 => p > drv.port)
      BY <1>2, <2>1
    <3> QED
      BY <2>2, <3>1, <3>2 DEF Now
  <2> QED
    BY <1>2, <1>3, <2>1, <2>3 DEF InTurn
<1>6. Present' /\ Halting' /\ Working'
  BY <1>1, <1>3 DEF Present, Halting, Working, Halts, Up
<1> QED
  BY <1>4, <1>5, <1>6 DEF IInv

\* Pages go back when no port knows them.
LEMMA GiveBackIInv ==
    ASSUME AhciAssumption, IInv, NEW n \in 1 .. Ports + 1, GiveBack(n),
           \A p \in Port : (p < n => Dead(port[p]) \/ Fresh(port[p])) /\ (p >= n => Fresh(port[p])),
           UNCHANGED <<data, bytes, port, cache, stable>>
    PROVE  IInv'
<1>1. Types /\ Runs /\ n \in Nat /\ \A p \in Port : p \in Nat
  BY DEF IInv, Port
<1>2. drv' = Off(n) /\ held' \subseteq held
  BY DEF GiveBack
<1>3. /\ drv' \in Host /\ drv'.stage = "off" /\ drv'.port = n /\ drv'.pages = NoPages /\ drv'.op = None
  BY <1>2, OffTyped
<1>4. \A p \in Port : Dead(port[p]) \/ Fresh(port[p])
  BY <1>1
<1>5. Types' /\ Runs'
  BY <1>1, <1>2, <1>3 DEF Types, Stored, Runs
<1>6. Kept'
  <2>1. \A p \in Port : Dead(port[p]) \/ Names(port[p], held')
    BY <1>4, FreshNames
  <2> QED
    BY <2>1 DEF Kept
<1>7. InTurn'
  BY <1>1, <1>3 DEF InTurn
<1>8. Owned' /\ Present' /\ Halting' /\ Working'
  BY <1>3 DEF Owned, Present, Halting, Working, Halts, Up
<1> QED
  BY <1>5, <1>6, <1>7, <1>8 DEF IInv

LEMMA ScanIInv == ASSUME AhciAssumption, IInv, Scan PROVE IInv'
<1>1. drv.stage = "scan" /\ drv.port \in Port
  BY DEF Scan
<1>2. CASE StopEngine("start")
  BY <1>1, <1>2, StopIInv
<1>3. CASE drv' = [drv EXCEPT !.port = @ + 1] /\ UNCHANGED <<held, memory, port, drive>>
  <2>1. drv \in Host /\ Fresh(Now)
    BY <1>1 DEF IInv, Types, InTurn, Now
  <2>2. drv' = [drv EXCEPT !.stage = "scan", !.port = @ + 1]
    BY <1>1, <1>3, <2>1 DEF Host
  <2>3. UNCHANGED <<held, data, bytes, port, cache, stable>>
    BY <1>3 DEF memory, drive
  <2> QED
    BY <1>1, <2>1, <2>2, <2>3, NextIInv
<1> QED
  BY <1>2, <1>3 DEF Scan

LEMMA NoDiskIInv == ASSUME AhciAssumption, IInv, NoDisk PROVE IInv'
<1>1. /\ drv.stage = "scan" /\ drv.port \notin Port /\ GiveBack(drv.port)
      /\ UNCHANGED <<data, bytes, port, cache, stable>>
  BY DEF NoDisk, memory, drive
<1>2. drv.port \in 1 .. Ports + 1 /\ InTurn /\ Ports \in Nat
  BY DEF IInv, Types, Host, AhciAssumption
<1>3. \A p \in Port : p < drv.port /\ ~(p >= drv.port)
  BY <1>1, <1>2 DEF Port
<1>4. \A p \in Port : Dead(port[p]) \/ Fresh(port[p])
  BY <1>1, <1>2, <1>3 DEF InTurn
<1> QED
  BY <1>1, <1>2, <1>3, <1>4, GiveBackIInv

\* Pages that an engine may still use stay held; nothing refers to them any more.
LEMMA QuarantineIInv == ASSUME AhciAssumption, IInv, Quarantine PROVE IInv'
<1>1. Types /\ Runs /\ Kept
  BY DEF IInv
<1>2. drv' = Off(Ports + 1) /\ UNCHANGED <<held, data, bytes, port, cache, stable>>
  BY DEF Quarantine, memory, drive
<1>3. Ports + 1 \in 1 .. Ports + 1 /\ Ports + 1 \notin Port
  BY DEF AhciAssumption, Port
<1>4. /\ drv' \in Host /\ drv'.stage = "off" /\ drv'.port = Ports + 1 /\ drv'.pages = NoPages
      /\ drv'.op = None
  BY <1>2, <1>3, OffTyped
<1>5. Types' /\ Runs' /\ Kept'
  BY <1>1, <1>2, <1>4 DEF Types, Stored, Runs, Kept
<1>6. InTurn' /\ Owned' /\ Present' /\ Halting' /\ Working'
  BY <1>3, <1>4 DEF InTurn, Owned, Present, Halting, Working, Halts, Up
<1> QED
  BY <1>5, <1>6 DEF IInv

\* What a step of the driver has to show that writes the registers of its port.
LEMMA PortIInv ==
    ASSUME AhciAssumption, IInv, drv.stage \in Halts \cup Up, NEW y \in Registers,
           port' = [port EXCEPT ![drv.port] = y], drv' \in Host,
           drv'.stage \in Halts \cup Up, drv'.pages = drv.pages, drv'.port = drv.port,
           y.running # None => y.cr, Names(y, Mine),
           held' = held, Stored', Halting', Working'
    PROVE  IInv'
<1>1. /\ Types /\ Runs /\ Kept /\ Owned /\ InTurn /\ Present
      /\ drv \in Host /\ port \in [Port -> Registers] /\ drv.port \in Port /\ drv.stage # "off"
  BY DEF IInv, Types, Present, Halts, Up
<1>2. /\ port' \in [Port -> Registers] /\ port'[drv.port] = y
      /\ \A p \in Port : p # drv.port => port'[p] = port[p]
  BY <1>1
<1>3. Types' /\ Runs'
  BY <1>1, <1>2 DEF Types, Runs
<1>4. Names(y, held)
  BY <1>1, MineHeld, NamesLess
<1>5. Kept'
  BY <1>1, <1>2, <1>4 DEF Kept
<1>6. drv'.stage \notin {"off", "scan"}
  BY DEF Halts, Up
<1>7. InTurn'
  <2>1. \A p \in Port : p \in Nat
    BY DEF Port
  <2> QED
    BY <1>1, <1>2, <1>6, <2>1 DEF InTurn
<1>8. Owned'
  BY <1>1, <1>6 DEF Owned
<1>9. Now' = y /\ Mine' = Mine
  BY <1>2 DEF Now, Mine
<1>10. Present'
  BY <1>1, <1>9 DEF Present
<1> QED
  BY <1>3, <1>5, <1>7, <1>8, <1>10 DEF IInv

LEMMA StopReceiveIInv == ASSUME AhciAssumption, IInv, StopReceive PROVE IInv'
<1> DEFINE x == Now
           y == [x EXCEPT !.fre = FALSE]
<1>1. /\ Types /\ Runs /\ Present /\ Halting /\ Working /\ drv.stage = "stopCr" /\ ~x.cr
      /\ drv \in Host /\ drv.port \in Port /\ x \in Registers
  BY DEF IInv, Types, Present, Now, StopReceive, CrStopped, Halts
<1>2. /\ drv' = [drv EXCEPT !.stage = "stopFr"] /\ port' = [port EXCEPT ![drv.port] = y]
      /\ UNCHANGED <<held, data, bytes, cache, stable>>
  BY DEF StopReceive, Set, memory, drive
<1>3. /\ drv' \in Host /\ drv'.stage = "stopFr" /\ drv'.pages = drv.pages /\ drv'.port = drv.port
      /\ drv'.then = drv.then /\ drv'.op = drv.op
  BY <1>1, <1>2 DEF Host, Stages, Halts
<1>4. Names(x, Mine) /\ (x.running # None => x.cr)
  BY <1>1 DEF Present, Runs, Now, Halts
<1>5. ~x.st /\ drv.then # "" /\ (drv.then = "start" => Fresh(x))
  BY <1>1 DEF Halting, Halts
<1>6. Now' = y
  BY <1>1, <1>2, <1>3 DEF Now, Types
<1>7. Stored'
  BY <1>1, <1>2 DEF Types, Stored
<1> HIDE DEF x
<1>8. /\ y \in Registers /\ y.st = x.st /\ ~y.fre /\ y.cr = x.cr /\ y.clb = x.clb /\ y.fb = x.fb
      /\ y.ci = x.ci /\ y.running = x.running
  BY <1>1 DEF Registers
<1> HIDE DEF y
<1>9. Names(y, Mine) /\ (Fresh(x) => Fresh(y))
  BY <1>1, <1>4, <1>8, NamesLess DEF Fresh
<1>10. Halting'
  BY <1>1, <1>3, <1>5, <1>6, <1>8, <1>9 DEF Halting
<1>11. Working'
  BY <1>1, <1>3 DEF Working, Up
<1>12. drv.stage \in Halts /\ drv'.stage \in Halts
  BY <1>1, <1>3 DEF Halts
<1> QED
  BY <1>2, <1>3, <1>4, <1>7, <1>8, <1>9, <1>10, <1>11, <1>12, PortIInv

\* An engine that has stopped is dead.
LEMMA StoppedDead ==
    ASSUME IInv, NEW then, EngineStopped(then)
    PROVE  drv.stage = "stopFr" /\ drv.port \in Port /\ Dead(Now)
<1>1. drv.stage = "stopFr" /\ ~Now.fr
  BY DEF EngineStopped
<1>2. drv.port \in Port /\ ~Now.st /\ ~Now.cr /\ ~Now.fre
  BY <1>1 DEF IInv, Present, Halting, Halts
<1>3. Now.running = None
  BY <1>2 DEF IInv, Runs, Now
<1> QED
  BY <1>1, <1>2, <1>3 DEF Dead

LEMMA SkipIInv == ASSUME AhciAssumption, IInv, Skip PROVE IInv'
<1>1. drv.stage = "stopFr" /\ drv.port \in Port /\ Dead(Now)
  BY StoppedDead DEF Skip
<1>2. /\ drv' = [drv EXCEPT !.stage = "scan", !.port = @ + 1]
      /\ UNCHANGED <<held, data, bytes, port, cache, stable>>
  BY DEF Skip, memory, drive
<1> QED
  BY <1>1, <1>2, NextIInv

LEMMA ShutdownIInv == ASSUME AhciAssumption, IInv, Shutdown PROVE IInv'
<1>1. drv.stage = "stopFr" /\ drv.port \in Port /\ Dead(Now) /\ InTurn
  BY StoppedDead DEF Shutdown, IInv
<1>2. GiveBack(drv.port + 1) /\ UNCHANGED <<data, bytes, port, cache, stable>>
  BY DEF Shutdown, memory, drive
<1>3. drv.port + 1 \in 1 .. Ports + 1 /\ drv.port \in Nat /\ \A p \in Port : p \in Nat
  BY <1>1 DEF AhciAssumption, Port
<1>4. \A p \in Port : /\ p < drv.port + 1 => p < drv.port \/ p = drv.port
                      /\ p >= drv.port + 1 => p > drv.port
  BY <1>3
<1>5. \A p \in Port : /\ p < drv.port + 1 => Dead(port[p]) \/ Fresh(port[p])
                      /\ p >= drv.port + 1 => Fresh(port[p])
  BY <1>1, <1>4 DEF InTurn, Now
<1> QED
  BY <1>2, <1>3, <1>5, GiveBackIInv

LEMMA StartEngineIInv == ASSUME AhciAssumption, IInv, StartEngine PROVE IInv'
<1> DEFINE x == Now
           y == [x EXCEPT !.clb = drv.pages["command"], !.fb = drv.pages["fis"], !.error = FALSE,
                          !.fre = TRUE, !.st = TRUE]
<1>1. drv.stage = "stopFr" /\ drv.port \in Port /\ drv.then = "start"
  BY StoppedDead DEF StartEngine, EngineStopped
<1>2. /\ Types /\ Halting /\ Working /\ drv \in Host /\ x \in Registers /\ Fresh(x)
      /\ drv.op = None
  BY <1>1 DEF IInv, Types, Halting, Working, Now, Halts
<1>3. /\ drv' = [drv EXCEPT !.stage = "started"] /\ port' = [port EXCEPT ![drv.port] = y]
      /\ UNCHANGED <<held, data, bytes, cache, stable>>
  BY DEF StartEngine, Set, memory, drive
<1>4. /\ drv' \in Host /\ drv'.stage = "started" /\ drv'.pages = drv.pages
      /\ drv'.port = drv.port /\ drv'.op = None
  BY <1>2, <1>3 DEF Host, Stages, Up
<1>5. Now' = y
  BY <1>1, <1>2, <1>3, <1>4 DEF Now, Types
<1>6. Stored'
  BY <1>2, <1>3 DEF Types, Stored
<1>7. /\ drv.pages["command"] \in Place \cap Mine /\ drv.pages["fis"] \in Place \cap Mine
  BY <1>2 DEF Host, Mine, Role
<1> HIDE DEF x
<1>8. /\ y \in Registers /\ y.st /\ y.fre /\ y.ci = None /\ y.running = None
      /\ y.clb \in Mine /\ y.fb \in Mine
  BY <1>2, <1>7 DEF Registers, Fresh
<1> HIDE DEF y
<1>9. Names(y, Mine) /\ Idle(y)
  BY <1>8 DEF Names, Idle
<1>10. Halting'
  BY <1>4 DEF Halting, Halts
<1>11. Working'
  BY <1>4, <1>5, <1>8, <1>9 DEF Working
<1>12. drv.stage \in Halts /\ drv'.stage \in Up
  BY <1>1, <1>4 DEF Halts, Up
<1> QED
  BY <1>3, <1>4, <1>6, <1>8, <1>9, <1>10, <1>11, <1>12, PortIInv

\* A command in slot 0 of a port that has none.
LEMMA IssueIInv ==
    ASSUME AhciAssumption, IInv, drv.stage \in {"started", "ready"}, Idle(Now), NEW op \in Ops,
           Issue(op, "wait"), data' \in Sector
    PROVE  IInv'
<1> DEFINE x == Now
           c == [op |-> op, table |-> drv.pages["table"],
                 page |-> IF op = "flush" THEN None ELSE drv.pages["data"]]
           y == [x EXCEPT !.error = FALSE, !.ci = c]
<1>1. /\ Types /\ Present /\ Working /\ drv \in Host /\ drv.port \in Port /\ x \in Registers
      /\ x.st /\ x.fre /\ Names(x, Mine)
  BY DEF IInv, Types, Present, Working, Now, Up
<1>2. /\ drv' = [drv EXCEPT !.stage = "wait", !.op = op, !.answer = None]
      /\ port' = [port EXCEPT ![drv.port] = y] /\ bytes' = 0 /\ UNCHANGED <<held, cache, stable>>
  BY DEF Issue, Set, drive
<1>3. /\ drv' \in Host /\ drv'.stage = "wait" /\ drv'.pages = drv.pages
      /\ drv'.port = drv.port /\ drv'.op = op
  BY <1>1, <1>2 DEF Host, Stages, Up
<1>4. Now' = y
  BY <1>1, <1>2, <1>3 DEF Now, Types
<1>5. Stored'
  BY <1>1, <1>2 DEF Types, Stored
<1>6. c \in Command /\ c.table \in Mine /\ c.page \in Mine \cup {None} /\ c.op = op
  BY <1>1 DEF Host, Mine, Role, Command, Place
<1>7. c # None
  BY <1>6 DEF AhciAssumption
<1> HIDE DEF x, c
<1>8. /\ y \in Registers /\ y.st /\ y.fre /\ y.ci = c /\ y.running = None
      /\ y.clb = x.clb /\ y.fb = x.fb
  BY <1>1, <1>6 DEF Registers, Idle, x
<1> HIDE DEF y
<1>9. Names(y, Mine)
  BY <1>1, <1>6, <1>8 DEF Names
<1>10. Halting'
  BY <1>3 DEF Halting, Halts
<1>11. Pending'
  BY <1>3, <1>4, <1>6, <1>7, <1>8 DEF Pending
<1>12. op # None
  BY DEF AhciAssumption
<1>13. Working'
  BY <1>3, <1>4, <1>8, <1>11, <1>12 DEF Working
<1>14. drv.stage \in Up /\ drv'.stage \in Up
  BY <1>3 DEF Up
<1> QED
  BY <1>2, <1>3, <1>5, <1>8, <1>9, <1>10, <1>13, <1>14, PortIInv

LEMMA IdentifyIInv == ASSUME AhciAssumption, IInv, Identify PROVE IInv'
<1>1. drv.stage = "started" /\ Issue("identify", "wait") /\ data' = data
  BY DEF Identify
<1>2. Idle(Now) /\ data \in Sector
  BY <1>1 DEF IInv, Working, Types, Stored
<1> QED
  BY <1>1, <1>2, IssueIInv DEF Ops

LEMMA CallIInv ==
    ASSUME AhciAssumption, IInv, NEW op \in {"read", "write", "flush"}, Call(op)
    PROVE  IInv'
<1>1. drv.stage = "ready" /\ drv.online /\ Issue(op, "wait")
  BY DEF Call
<1>2. Idle(Now) /\ data \in Sector
  BY <1>1 DEF IInv, Working, Types, Stored
<1>3. data' \in Sector
  BY <1>2 DEF Call
<1> QED
  BY <1>1, <1>2, <1>3, IssueIInv DEF Ops

LEMMA UnsuitableIInv == ASSUME AhciAssumption, IInv, Unsuitable PROVE IInv'
<1>1. drv.stage \in Up /\ StopEngine("skip") /\ drv.port \in Port
  BY DEF Unsuitable, Up, IInv, Present
<1> QED
  BY <1>1, StopIInv

LEMMA GiveUpIInv == ASSUME AhciAssumption, IInv, GiveUp PROVE IInv'
<1>1. drv.stage \in Up /\ StopEngine("shutdown") /\ drv.port \in Port
  BY DEF GiveUp, Up, IInv, Present
<1> QED
  BY <1>1, StopIInv

\* Steps of issue that only look.
LEMMA LookIInv ==
    ASSUME AhciAssumption, IInv, drv.stage \in Up, drv' \in Host, drv'.stage \in Up,
           drv'.pages = drv.pages, drv'.port = drv.port, Working',
           UNCHANGED <<held, data, bytes, port, cache, stable>>
    PROVE  IInv'
<1>1. Types /\ Runs /\ Kept /\ Owned /\ InTurn /\ Present
  BY DEF IInv
<1>2. Now' = Now /\ Mine' = Mine
  BY DEF Now, Mine
<1>3. Types' /\ Runs' /\ Kept'
  BY <1>1 DEF Types, Stored, Runs, Kept
<1>4. Owned' /\ InTurn'
  BY <1>1 DEF Owned, InTurn, Up
<1>5. Present'
  BY <1>1, <1>2 DEF Present
<1>6. Halting'
  BY DEF Halting, Halts, Up
<1> QED
  BY <1>3, <1>4, <1>5, <1>6 DEF IInv

\* A call leaves an online port without a command.
LEMMA EndedIInv ==
    ASSUME AhciAssumption, IInv, drv.stage \in {"wait", "cleared"}, NEW ok \in BOOLEAN,
           Ended(ok), ok => Idle(Now)
    PROVE  IInv'
<1>1. drv \in Host /\ drv.op \in Ops /\ Now.st /\ Now.fre /\ drv.stage \in Up
  BY DEF IInv, Types, Working, Host, Up
<1> DEFINE stage == IF drv.op = "identify" /\ ~ok THEN "unidentified" ELSE "ready"
           answer == IF ok THEN drv.op ELSE None
<1>2. /\ drv' = [drv EXCEPT !.stage = stage, !.op = None, !.answer = answer, !.online = ok]
      /\ UNCHANGED <<held, data, bytes, port, cache, stable>>
  BY DEF Ended, memory, drive
<1>3. stage \in {"unidentified", "ready"} /\ answer \in {None} \cup Ops
  BY <1>1
<1> HIDE DEF stage, answer
<1>4. /\ drv' \in Host /\ drv'.stage = stage /\ drv'.pages = drv.pages /\ drv'.port = drv.port
      /\ drv'.op = None /\ drv'.online = ok
  BY <1>1, <1>2, <1>3 DEF Host, Stages, Up
<1>5. Now' = Now
  BY <1>2, <1>4 DEF Now
<1>6. drv'.stage \in Up /\ drv'.stage \notin {"started", "wait", "cleared"}
  BY <1>3, <1>4 DEF Up
<1>7. Working'
  BY <1>1, <1>4, <1>5, <1>6 DEF Working, Idle
<1> QED
  BY <1>1, <1>2, <1>4, <1>6, <1>7, LookIInv

LEMMA FailedIInv == ASSUME AhciAssumption, IInv, Failed \/ TimesOut PROVE IInv'
<1>1. drv.stage = "wait" /\ Ended(FALSE)
  BY DEF Failed, TimesOut
<1> QED
  BY <1>1, EndedIInv

\* PxCI has gone without an error, before or after: the command is over.
LEMMA CompleteOver ==
    ASSUME IInv, Complete
    PROVE  /\ drv.stage = "cleared" /\ Over
           /\ Ended(~Now.error /\ (drv.op # "flush" => bytes = 512))
<1>1. drv.stage = "cleared" /\ Now.ci = None
  BY DEF Complete
<1>2. Over
  BY <1>1 DEF IInv, Working, Pending
<1> QED
  BY <1>1, <1>2 DEF Complete, LateError

LEMMA CompleteIInv == ASSUME AhciAssumption, IInv, Complete PROVE IInv'
<1> DEFINE ok == ~Now.error /\ (drv.op # "flush" => bytes = 512)
<1>1. drv.stage = "cleared" /\ Idle(Now) /\ Ended(ok)
  BY CompleteOver DEF Over
<1>2. ok \in BOOLEAN
  OBVIOUS
<1> HIDE DEF ok
<1> QED
  BY <1>1, <1>2, EndedIInv

LEMMA PollIInv == ASSUME AhciAssumption, IInv, Cleared \/ Again PROVE IInv'
<1>1. /\ drv \in Host /\ Working /\ drv.stage \in {"wait", "cleared"}
      /\ UNCHANGED <<held, data, bytes, port, cache, stable>>
      /\ \/ drv' = [drv EXCEPT !.stage = "cleared"]
         \/ drv' = [drv EXCEPT !.stage = "wait"]
  BY DEF IInv, Types, Cleared, Again, memory, drive
<1>2. /\ drv' \in Host /\ drv'.stage \in {"wait", "cleared"} /\ drv'.pages = drv.pages
      /\ drv'.port = drv.port /\ drv'.op = drv.op
  BY <1>1 DEF Host, Stages, Up
<1>3. Now' = Now
  BY <1>1, <1>2 DEF Now
<1>4. Effect(drv.op)' = Effect(drv.op) 
  BY <1>1, <1>2 DEF Effect
<1>5. (Pending => Pending') /\ (Over => Over')
  BY <1>1, <1>2, <1>3, <1>4 DEF Pending, Over, Effect
<1>6. Working'
  BY <1>1, <1>2, <1>3, <1>5 DEF Working, Up
<1>7. drv.stage \in Up /\ drv'.stage \in Up
  BY <1>1, <1>2 DEF Up
<1> QED
  BY <1>1, <1>2, <1>6, <1>7, LookIInv

-----------------------------------------------------------------------------
LEMMA StepIInv == ASSUME AhciAssumption, IInv, [AhciNext]_ahciVars PROVE IInv'
<1>1. CASE Driver
  <2>1. CASE Open \/ Scan \/ NoDisk \/ Quarantine \/ StopReceive \/ Skip \/ StartEngine \/ Shutdown
    BY <2>1, OpenIInv, ScanIInv, NoDiskIInv, QuarantineIInv, StopReceiveIInv, SkipIInv,
       StartEngineIInv, ShutdownIInv
  <2>2. CASE Identify \/ Unsuitable \/ GiveUp \/ \E op \in {"read", "write", "flush"} : Call(op)
    BY <2>2, IdentifyIInv, UnsuitableIInv, GiveUpIInv, CallIInv
  <2>3. CASE Failed \/ Cleared \/ Again \/ Complete \/ TimesOut
    BY <2>3, FailedIInv, PollIInv, CompleteIInv
  <2> QED
    BY <1>1, <2>1, <2>2, <2>3 DEF Driver
<1>2. CASE Device
  BY <1>2, DeviceIInv
<1>3. CASE UNCHANGED ahciVars
  <2>1. /\ drv' = drv /\ held' = held /\ data' = data /\ bytes' = bytes /\ port' = port
        /\ cache' = cache /\ stable' = stable
    BY <1>3 DEF ahciVars, memory, drive
  <2>2. Now' = Now /\ Mine' = Mine
    BY <2>1 DEF Now, Mine
  <2>3. Types' /\ Runs' /\ Kept' /\ Owned' /\ InTurn'
    BY <2>1 DEF IInv, Types, Stored, Runs, Kept, Owned, InTurn
  <2>4. Present' /\ Halting'
    BY <2>1, <2>2 DEF IInv, Present, Halting
  <2>5. (Pending => Pending') /\ (Over => Over')
    BY <2>1, <2>2 DEF Pending, Over, Effect
  <2>6. Working'
    BY <2>1, <2>2, <2>5 DEF IInv, Working
  <2> QED
    BY <2>3, <2>4, <2>6 DEF IInv
<1> QED
  BY <1>1, <1>2, <1>3 DEF AhciNext

\* The invariant holds in every state, for any number of ports and pages.
THEOREM AhciInvariant == ASSUME AhciAssumption PROVE AhciSpec => []IInv
<1>1. AhciInit => IInv
  BY InitIInv
<1>2. IInv /\ [AhciNext]_ahciVars => IInv'
  BY StepIInv
<1> QED
  BY <1>1, <1>2, PTL DEF AhciSpec

\* stop_engine and its quarantine: whatever fails or never ends, and on whichever
\* port, the pages an engine can still read or write have not gone back to the
\* page allocator.
THEOREM PortsKeepTheirPages == ASSUME AhciAssumption PROVE AhciSpec => []NoStrayDma
<1>1. ASSUME IInv PROVE NoStrayDma
  <2>1. Types /\ Kept /\ Owned
    BY <1>1 DEF IInv
  <2>2. \A p \in Port : Reach(p) \subseteq held
    <3> SUFFICES ASSUME NEW p \in Port PROVE Reach(p) \subseteq held
      OBVIOUS
    <3>1. CASE Dead(port[p])
      BY <3>1 DEF Dead, Reach
    <3>2. CASE Names(port[p], held)
      BY <3>2 DEF Names, Reach
    <3> QED
      BY <2>1, <3>1, <3>2 DEF Kept
  <2>3. {drv.pages[r] : r \in Role} \ {None} \subseteq held
    BY <2>1 DEF Owned, NoPages
  <2> QED
    BY <2>1, <2>2, <2>3 DEF NoStrayDma, Types, Stored, Host
<1>2. IInv => NoStrayDma
  BY <1>1
<1> QED
  BY <1>2, AhciInvariant, PTL

\* issue: success is never said of a command the port gave up, cut short, or
\* reported as failed only after it had cleared it.
THEOREM PortAnswersAreTrue == ASSUME AhciAssumption PROVE AhciSpec => AnswersTrue
<1> DEFINE A == drv.op # None /\ drv'.op = None /\ drv'.answer # None =>
                   /\ drv.op \in {"read", "write"} => data = cache
                   /\ drv.op = "flush" => stable = cache
<1>1. ASSUME IInv, [AhciNext]_ahciVars PROVE [A]_ahciVars
  <2>1. SUFFICES ASSUME AhciNext, drv.op # None, drv'.op = None, drv'.answer # None PROVE A
    BY <1>1
  <2>2. drv.stage \in {"wait", "cleared"} /\ drv \in Host
    BY <1>1, <2>1 DEF IInv, Types, Working
  <2>3. ~Device
    BY <2>1, ZenonT(40) DEF Device, Engine, Begin, Finish
  <2>4. ~(Open \/ Scan \/ NoDisk \/ Quarantine \/ StopReceive \/ Skip \/ StartEngine \/ Shutdown)
    BY <2>2 DEF Open, Scan, NoDisk, Quarantine, StopReceive, Skip, StartEngine, Shutdown, EngineStopped
  <2>5. ~(Identify \/ Unsuitable \/ GiveUp \/ \E op \in {"read", "write", "flush"} : Call(op))
    BY <2>2 DEF Identify, Unsuitable, GiveUp, Call
  <2>6. ~(Cleared \/ Again)
    BY <2>1, <2>2 DEF Cleared, Again, Host
  <2>7. ~(Failed \/ TimesOut)
    BY <2>1, <2>2 DEF Failed, TimesOut, Ended, Host
  <2>8. Complete
    BY <2>1, <2>3, <2>4, <2>5, <2>6, <2>7 DEF AhciNext, Driver
  <2> DEFINE ok == ~Now.error /\ (drv.op # "flush" => bytes = 512)
  <2>9. Over /\ Ended(ok)
    BY <1>1, <2>8, CompleteOver
  <2>10. ok
    <3> HIDE DEF ok
    <3> QED
      BY <2>1, <2>2, <2>9 DEF Ended, Host
  <2>11. Effect(drv.op)
    BY <2>9, <2>10 DEF Over
  <2> QED
    BY <2>11 DEF Effect
<1>2. IInv /\ [AhciNext]_ahciVars => [A]_ahciVars
  BY <1>1
<1> QED
  BY <1>2, AhciInvariant, PTL DEF AhciSpec, AnswersTrue

-----------------------------------------------------------------------------
(***************************************************************************)
(* Blocks of pages                                                         *)
(***************************************************************************)
\* Memory above 4 GiB begins at a block of every order, and a block is two of
\* the order below it. The provers know nothing of powers: what they need of
\* 2 ^ o is said here, and is so of any powers of two.
PagesAssumption ==
    /\ Managed \subseteq Nat /\ Split \in Nat \ {0} /\ MaxOrder \in Nat
    /\ Size(0) = 1
    /\ \A o \in 0 .. MaxOrder : Size(o) \in Nat \ {0} /\ \E k \in Nat : Split = k * Size(o)
    /\ \A o \in Order : Size(o) = 2 * Size(o - 1)

\* A number is in the block that division says.
LEMMA BlockOf ==
    ASSUME NEW n \in Nat, NEW s \in Nat \ {0}
    PROVE  n \div s \in Nat /\ (n \div s) * s <= n /\ n < (n \div s) * s + s
OBVIOUS

LEMMA Grows ==
    ASSUME NEW a \in Nat, NEW b \in Nat, NEW s \in Nat \ {0}
    PROVE  /\ a <= b => a * s <= b * s
           /\ a < b => a * s + s <= b * s
<1>1. ASSUME a <= b PROVE a * s <= b * s
  BY <1>1
<1>2. ASSUME a < b PROVE a * s + s <= b * s
  <2>1. (a + 1) * s <= b * s
    BY <1>2
  <2>2. (a + 1) * s = a * s + s
    OBVIOUS
  <2> QED
    BY <2>1, <2>2
<1> QED
  BY <1>1, <1>2

\* The whole blocks of size s in the first m pages.
LEMMA Whole ==
    ASSUME NEW m \in Nat, NEW s \in Nat \ {0}, NEW i \in Nat
    PROVE  i < m \div s <=> i * s + s <= m
<1>1. m \div s \in Nat /\ (m \div s) * s <= m /\ m < (m \div s) * s + s
  BY BlockOf
<1> DEFINE d == m \div s
<1>2. d \in Nat /\ d * s <= m /\ m < d * s + s
  BY <1>1
<1> HIDE DEF d
<1>3. i * s \in Nat /\ d * s \in Nat
  BY <1>2
<1>4. ASSUME i < d PROVE i * s + s <= m
  BY <1>2, <1>3, <1>4, Grows
<1>5. ASSUME d <= i PROVE ~(i * s + s <= m)
  <2>1. d * s <= i * s
    BY <1>2, <1>5, Grows
  <2> QED
    BY <1>2, <1>3, <2>1
<1>6. i < d <=> i * s + s <= m
  BY <1>2, <1>4, <1>5
<1> QED
  BY <1>6 DEF d

\* The blocks from a page on.
LEMMA Ceiling ==
    ASSUME NEW n \in Nat, NEW s \in Nat \ {0}, NEW i \in Nat
    PROVE  /\ (n + s - 1) \div s \in Nat
           /\ (n + s - 1) \div s <= i <=> n <= i * s
<1> DEFINE d == (n + s - 1) \div s
<1>1. n + s - 1 \in Nat
  OBVIOUS
<1>2. d \in Nat /\ d * s <= n + s - 1 /\ n + s - 1 < d * s + s
  BY <1>1, BlockOf
<1> HIDE DEF d
<1>3. i * s \in Nat /\ d * s \in Nat
  BY <1>2
<1>4. ASSUME d <= i PROVE n <= i * s
  <2>1. d * s <= i * s
    BY <1>2, <1>4, Grows
  <2> QED
    BY <1>2, <1>3, <2>1
<1>5. ASSUME i < d PROVE ~(n <= i * s)
  <2>1. i * s + s <= d * s
    BY <1>2, <1>5, Grows
  <2> QED
    BY <1>2, <1>3, <2>1
<1>6. d <= i <=> n <= i * s
  BY <1>2, <1>4, <1>5
<1> QED
  BY <1>2, <1>6 DEF d

\* The blocks of an order of which no page is taken.
FreeBlocks(o, taken) == {i \in 0 .. managed \div Size(o) - 1 : Run(i * Size(o), Size(o)) \cap taken = {}}

LEMMA SizeOf ==
    ASSUME PagesAssumption, NEW o \in 0 .. MaxOrder
    PROVE  Size(o) \in Nat \ {0}
BY DEF PagesAssumption

LEMMA BlockIn ==
    ASSUME PagesAssumption, managed \in Nat, NEW o \in 0 .. MaxOrder, NEW i
    PROVE  i \in 0 .. managed \div Size(o) - 1 <=> i \in Nat /\ i * Size(o) + Size(o) <= managed
<1> DEFINE s == Size(o)
<1>1. s \in Nat \ {0}
  BY SizeOf
<1> HIDE DEF s
<1>2. managed \div s \in Nat
  BY <1>1, BlockOf
<1>3. ASSUME i \in Nat PROVE i < managed \div s <=> i * s + s <= managed
  BY <1>1, <1>3, Whole
<1> DEFINE d == managed \div s
<1>4. d \in Nat /\ (i \in Nat => (i < d <=> i * s + s <= managed))
  BY <1>2, <1>3
<1> HIDE DEF d
<1>5. i \in 0 .. d - 1 <=> i \in Nat /\ i < d
  BY <1>4
<1>6. i \in 0 .. d - 1 <=> i \in Nat /\ i * s + s <= managed
  BY <1>4, <1>5
<1> QED
  BY <1>6 DEF d, s

\* Single pages.
LEMMA FreePages ==
    ASSUME PagesAssumption, managed \in Nat, NEW taken PROVE FreeBlocks(0, taken) = AllPages \ taken
<1>1. 0 \in 0 .. MaxOrder /\ Size(0) = 1
  BY DEF PagesAssumption
<1>2. managed \div Size(0) = managed
  BY <1>1
<1>3. \A i \in 0 .. managed - 1 : Run(i * Size(0), Size(0)) = {i}
  <2> SUFFICES ASSUME NEW i \in 0 .. managed - 1 PROVE Run(i * 1, 1) = {i}
    BY <1>1
  <2>1. i * 1 = i /\ i + 1 - 1 = i /\ i \in Int
    OBVIOUS
  <2>2. i .. i = {i}
    OBVIOUS
  <2> QED
    BY <2>1, <2>2 DEF Run
<1> QED
  BY <1>2, <1>3 DEF FreeBlocks, AllPages

\* A block is its two halves.
LEMMA Halves ==
    ASSUME PagesAssumption, managed \in Nat, NEW o \in Order, NEW taken,
           NEW i \in 0 .. managed \div Size(o) - 1
    PROVE  i \in FreeBlocks(o, taken) <=> {2 * i, 2 * i + 1} \subseteq FreeBlocks(o - 1, taken)
<1> DEFINE s == Size(o - 1)
           t == Size(o)
<1>1. o \in 0 .. MaxOrder /\ o - 1 \in 0 .. MaxOrder
  BY DEF Order, PagesAssumption
<1>2. s \in Nat \ {0} /\ t = 2 * s
  BY <1>1, SizeOf DEF PagesAssumption
<1> HIDE DEF s, t
<1>3. i \in Nat /\ i * t + t <= managed
  BY <1>1, BlockIn DEF t
<1>4. 2 * i \in Nat /\ 2 * i + 1 \in Nat
  BY <1>3
<1>5. /\ (2 * i) * s = i * t /\ (2 * i + 1) * s = i * t + s
      /\ i * t \in Nat
  BY <1>2, <1>3
<1>6. (2 * i) * s + s <= managed /\ (2 * i + 1) * s + s <= managed
  BY <1>2, <1>3, <1>5
<1>7. 2 * i \in 0 .. managed \div s - 1 /\ 2 * i + 1 \in 0 .. managed \div s - 1
  BY <1>1, <1>4, <1>6, BlockIn DEF s
<1>8. Run(i * t, t) = Run((2 * i) * s, s) \cup Run((2 * i + 1) * s, s)
  <2> DEFINE b == i * t
  <2>1. b \in Nat /\ (2 * i) * s = b /\ (2 * i + 1) * s = b + s
    BY <1>5
  <2> HIDE DEF b
  <2>2. b .. b + t - 1 = (b .. b + s - 1) \cup (b + s .. b + s + s - 1)
    BY <1>2, <2>1
  <2>3. Run(b, t) = Run(b, s) \cup Run(b + s, s)
    BY <2>2 DEF Run
  <2> QED
    BY <2>1, <2>3 DEF b
<1>9. i \in FreeBlocks(o, taken) <=> Run(i * t, t) \cap taken = {}
  BY DEF FreeBlocks, t
<1>10. /\ 2 * i \in FreeBlocks(o - 1, taken) <=> Run((2 * i) * s, s) \cap taken = {}
       /\ 2 * i + 1 \in FreeBlocks(o - 1, taken) <=> Run((2 * i + 1) * s, s) \cap taken = {}
  BY <1>7 DEF FreeBlocks, s
<1> QED
  BY <1>8, <1>9, <1>10

\* A block that touches none of the pages first .. first + count - 1.
LEMMA Untouched ==
    ASSUME PagesAssumption, managed \in Nat, NEW o \in 0 .. MaxOrder,
           NEW first \in Nat, NEW count \in Nat \ {0}, first + count <= managed,
           NEW i \in 0 .. managed \div Size(o) - 1, i \notin Touched(o, first, first + count - 1)
    PROVE  Run(i * Size(o), Size(o)) \cap Run(first, count) = {}
<1> DEFINE s == Size(o)
           last == first + count - 1
           a == first \div s
           b == last \div s
           d == managed \div s
<1>1. s \in Nat \ {0} /\ last \in Nat
  BY SizeOf
<1> HIDE DEF s, last
<1>2. /\ a \in Nat /\ a * s <= first /\ first < a * s + s
      /\ b \in Nat /\ b * s <= last /\ last < b * s + s
      /\ d \in Nat
  BY <1>1, BlockOf
<1> HIDE DEF a, b, d
<1>3. i \in Nat /\ i < d
  BY <1>2 DEF d, s
<1>4. ~(a <= i /\ i <= b)
  <2>1. i \notin a .. Lower(b, d - 1)
    BY DEF Touched, a, b, d, s, last
  <2> QED
    BY <1>2, <1>3, <2>1 DEF Lower
<1>5. i * s \in Nat /\ a * s \in Nat /\ b * s \in Nat
  BY <1>1, <1>2, <1>3
<1>6. CASE i < a
  <2>1. i * s + s <= a * s
    BY <1>1, <1>2, <1>3, <1>6, Grows
  <2>2. i * s + s <= first
    BY <1>1, <1>2, <1>5, <2>1
  <2>3. \A x \in Run(i * s, s) : x < first
    BY <1>1, <1>5, <2>2 DEF Run
  <2> QED
    BY <2>3 DEF Run, s
<1>7. CASE b < i
  <2>1. b * s + s <= i * s
    BY <1>1, <1>2, <1>3, <1>7, Grows
  <2>2. last < i * s
    BY <1>1, <1>2, <1>5, <2>1
  <2>3. \A x \in Run(i * s, s) : x > last
    BY <1>1, <1>5, <2>2 DEF Run
  <2> QED
    BY <2>3 DEF Run, s, last
<1> QED
  BY <1>2, <1>3, <1>4, <1>6, <1>7

\* Least elements, of any set of numbers.
LEMMA LeastNumber ==
    ASSUME NEW S \in SUBSET Nat, S # {} PROVE \E x \in S : \A y \in S : x <= y
<1>1. PICK n \in S : TRUE
  OBVIOUS
<1> DEFINE T == {y \in S : y <= n}
           AtMost(x) == {y \in T : y <= x}
           All == {AtMost(x) : x \in T}
<1>2. IsFiniteSet(T) /\ n \in T /\ T \in SUBSET Nat
  <2>1. n \in Nat /\ T \in SUBSET Nat /\ (\A s \in T : s <= n) /\ n \in T
    <3>1. n \in Nat /\ n <= n
      BY <1>1
    <3> QED
      BY <1>1, <3>1
  <2> HIDE DEF T
  <2> QED
    BY <2>1, FS_BoundedSetOfNaturals
<1> HIDE DEF T
<1>3. All \subseteq FiniteSubsetsOf(T) /\ All # {}
  <2>1. All # {}
    BY <1>2
  <2>2. All \subseteq FiniteSubsetsOf(T)
    BY <1>2, FS_Subset DEF FiniteSubsetsOf
  <2> QED
    BY <2>1, <2>2
<1>4. PICK B \in All : \A C \in All : ~(<<C, B>> \in StrictSubsetOrdering(T))
  <2> HIDE DEF All
  <2> QED
    BY <1>2, <1>3, FS_StrictSubsetOrderingWellFounded, WFMin, Zenon
<1>5. PICK x \in T : B = AtMost(x)
  BY <1>4
<1>6. ASSUME NEW y \in T, y < x PROVE FALSE
  <2>1. x \in Nat /\ y \in Nat
    BY <1>2
  <2>2. AtMost(y) \subseteq AtMost(x) /\ x \in AtMost(x) /\ x \notin AtMost(y)
    <3>1. (\A z \in T : z <= y => z <= x) /\ x <= x /\ ~(x <= y)
      BY <1>2, <2>1, <1>6
    <3> QED
      BY <3>1, <2>1
  <2>3. AtMost(y) \in SUBSET T /\ AtMost(x) \in SUBSET T
    OBVIOUS
  <2>4. <<AtMost(y), AtMost(x)>> \in StrictSubsetOrdering(T)
    <3> HIDE DEF AtMost
    <3> QED
      BY <2>2, <2>3, Zenon DEF StrictSubsetOrdering
  <2> QED
    BY <1>4, <1>5, <2>4
<1>7. ASSUME NEW y \in S PROVE x <= y
  <2>1. x \in Nat /\ n \in Nat /\ y \in Nat /\ x <= n
    BY <1>1, <1>2 DEF T
  <2>2. y \in T => x <= y
    BY <1>2, <1>6, <2>1
  <2> QED
    BY <2>1, <2>2, <1>7 DEF T
<1> QED
  BY <1>7 DEF T

LEMMA FirstOf ==
    ASSUME NEW S \in SUBSET Nat, S # {} PROVE First(S) \in S
<1>1. \E x \in S : \A y \in S : x <= y
  BY LeastNumber
<1> QED
  BY <1>1 DEF First

-----------------------------------------------------------------------------
(***************************************************************************)
(* The index                                                               *)
(***************************************************************************)
\* Blocks looked at again from the pages up are known as they are, when those
\* left alone were.
LEMMA RefreshedIs ==
    ASSUME PagesAssumption, managed \in Nat, NEW old, NEW taken,
           NEW first \in Nat, NEW count \in Nat \ {0}, first + count <= managed,
           \A o \in Order : old[o] \ Touched(o, first, first + count - 1) =
                            FreeBlocks(o, taken) \ Touched(o, first, first + count - 1)
    PROVE  Refreshed(old, taken, first, count) = [o \in Order |-> FreeBlocks(o, taken)]
<1> DEFINE last == first + count - 1
           Level(f, o) == IF o = 0 THEN AllPages \ taken
                          ELSE (old[o] \ Touched(o, first, last))
                               \cup {i \in Touched(o, first, last) : {2 * i, 2 * i + 1} \subseteq f[o - 1]}
           Step(f) == [o \in 0 .. MaxOrder |-> Level(f, o)]
           new == CHOOSE f : f = Step(f)
           true == [o \in 0 .. MaxOrder |-> FreeBlocks(o, taken)]
<1>1. Refreshed(old, taken, first, count) = [o \in Order |-> new[o]]
  <2>1. ~(count = 0 \/ first >= managed \/ count > managed - first)
    OBVIOUS
  <2> QED
    BY <2>1 DEF Refreshed
<1>2. MaxOrder \in Nat /\ \A o \in 0 .. MaxOrder : o = 0 \/ (o \in Order /\ o - 1 \in 0 .. MaxOrder /\ o - 1 < o)
  BY DEF PagesAssumption, Order
<1> HIDE DEF last
<1>3. \A o \in Order : Touched(o, first, last) \subseteq 0 .. managed \div Size(o) - 1
  <2> SUFFICES ASSUME NEW o \in Order PROVE Touched(o, first, last) \subseteq 0 .. managed \div Size(o) - 1
    OBVIOUS
  <2> DEFINE s == Size(o)
  <2>1. o \in 0 .. MaxOrder
    BY <1>2 DEF Order
  <2>2. s \in Nat \ {0} /\ last \in Nat
    BY <2>1, SizeOf DEF last
  <2> HIDE DEF s
  <2> DEFINE a == first \div s
             b == last \div s
             d == managed \div s
  <2>3. a \in Nat /\ b \in Nat /\ d \in Nat
    BY <2>2, BlockOf
  <2> HIDE DEF a, b, d
  <2>4. a .. Lower(b, d - 1) \subseteq 0 .. d - 1
    BY <2>3 DEF Lower
  <2> QED
    BY <2>4 DEF Touched, a, b, d, s
<1>4. ASSUME NEW f, NEW o \in 0 .. MaxOrder, o # 0 => f[o - 1] = FreeBlocks(o - 1, taken)
      PROVE  Level(f, o) = FreeBlocks(o, taken)
  <2>1. CASE o = 0
    BY <2>1, FreePages
  <2>2. CASE o # 0
    <3>1. o \in Order
      BY <1>2, <2>2
    <3>2. \A i \in Touched(o, first, last) :
            i \in FreeBlocks(o, taken) <=> {2 * i, 2 * i + 1} \subseteq FreeBlocks(o - 1, taken)
      BY <1>3, <3>1, Halves
    <3>3. old[o] \ Touched(o, first, last) = FreeBlocks(o, taken) \ Touched(o, first, last)
      BY <3>1 DEF last
    <3>4. Level(f, o) = (FreeBlocks(o, taken) \ Touched(o, first, last))
                        \cup {i \in Touched(o, first, last) : i \in FreeBlocks(o, taken)}
      BY <1>4, <2>2, <3>2, <3>3
    <3> QED
      BY <3>4
  <2> QED
    BY <2>1, <2>2
<1> HIDE DEF Level
<1>5. true = Step(true)
  <2>1. \A o \in 0 .. MaxOrder : o # 0 => true[o - 1] = FreeBlocks(o - 1, taken)
    BY <1>2
  <2>2. \A o \in 0 .. MaxOrder : Level(true, o) = FreeBlocks(o, taken)
    <3> HIDE DEF true
    <3> QED
      BY <1>4, <2>1
  <2> QED
    BY <2>2
<1>6. new = Step(new)
  <2> HIDE DEF Step, true
  <2> QED
    BY <1>5
<1> HIDE DEF new
<1>7. \A o \in 0 .. MaxOrder : new[o] = Level(new, o)
  BY <1>6
<1>8. ASSUME NEW o \in 0 .. MaxOrder, new[o] # FreeBlocks(o, taken) PROVE FALSE
  <2> DEFINE Wrong == {p \in 0 .. MaxOrder : new[p] # FreeBlocks(p, taken)}
  <2>1. Wrong \in SUBSET Nat /\ Wrong # {}
    BY <1>2, <1>8
  <2>2. PICK p \in Wrong : \A q \in Wrong : p <= q
    BY <2>1, LeastNumber
  <2>3. p # 0 => p - 1 \in 0 .. MaxOrder /\ p - 1 \notin Wrong
    <3>1. p \in 0 .. MaxOrder /\ p \in Nat
      BY <2>1, <2>2
    <3>2. p # 0 => p - 1 \in 0 .. MaxOrder /\ ~(p <= p - 1)
      BY <1>2, <3>1
    <3> QED
      BY <2>2, <3>2
  <2>4. p # 0 => new[p - 1] = FreeBlocks(p - 1, taken)
    BY <2>3
  <2>5. Level(new, p) = FreeBlocks(p, taken)
    BY <1>4, <2>2, <2>4
  <2> QED
    BY <1>7, <2>2, <2>5
<1>9. Order \subseteq 0 .. MaxOrder
  BY <1>2 DEF Order
<1> QED
  BY <1>1, <1>8, <1>9

\* The index of all of memory, and after some pages changed hands.
LEMMA BuiltIs ==
    ASSUME PagesAssumption, managed \in Nat \ {0}, NEW taken
    PROVE  Built(taken) = [o \in Order |-> FreeBlocks(o, taken)]
<1> DEFINE empty == [o \in Order |-> {}]
<1>1. ASSUME NEW o \in Order
      PROVE  empty[o] \ Touched(o, 0, 0 + managed - 1) = FreeBlocks(o, taken) \ Touched(o, 0, 0 + managed - 1)
  <2> DEFINE s == Size(o)
             d == managed \div s
             b == (managed - 1) \div s
  <2>1. o \in 0 .. MaxOrder
    BY DEF PagesAssumption, Order
  <2>2. s \in Nat \ {0}
    BY <2>1, SizeOf
  <2> HIDE DEF s
  <2>3. d \in Nat /\ d * s <= managed /\ b \in Nat /\ managed - 1 < b * s + s
    BY <2>2, BlockOf
  <2>4. 0 \div s = 0
    BY <2>2
  <2> HIDE DEF b, d
  <2>5. b * s \in Nat /\ d * s \in Nat
    BY <2>2, <2>3
  <2>6. ~(b + 1 < d)
    <3>1. b + 1 \in Nat /\ (b + 1) * s = b * s + s
      BY <2>2, <2>3
    <3>2. b + 1 < d => (b + 1) * s + s <= d * s
      BY <2>2, <2>3, <3>1, Grows
    <3> QED
      BY <2>2, <2>3, <2>5, <3>1, <3>2
  <2>7. Lower(b, d - 1) = d - 1
    BY <2>3, <2>6 DEF Lower
  <2>8. 0 + managed - 1 = managed - 1
    OBVIOUS
  <2>9. Touched(o, 0, 0 + managed - 1) = 0 .. d - 1
    BY <2>4, <2>7, <2>8 DEF Touched, b, d, s
  <2> QED
    BY <2>9 DEF FreeBlocks, d, s
<1>2. \A o \in Order :
         empty[o] \ Touched(o, 0, 0 + managed - 1) = FreeBlocks(o, taken) \ Touched(o, 0, 0 + managed - 1)
  BY <1>1
<1>3. 0 + managed <= managed /\ 0 \in Nat
  OBVIOUS
<1> HIDE DEF empty
<1>4. Refreshed(empty, taken, 0, managed) = [o \in Order |-> FreeBlocks(o, taken)]
  BY <1>2, <1>3, RefreshedIs
<1> QED
  BY <1>4 DEF Built, empty

LEMMA RefreshedKeeps ==
    ASSUME PagesAssumption, managed \in Nat, NEW before, NEW taken,
           NEW first \in Nat, NEW count \in Nat \ {0}, first + count <= managed,
           before \ Run(first, count) = taken \ Run(first, count)
    PROVE  Refreshed([o \in Order |-> FreeBlocks(o, before)], taken, first, count) =
               [o \in Order |-> FreeBlocks(o, taken)]
<1> DEFINE last == first + count - 1
           old == [o \in Order |-> FreeBlocks(o, before)]
<1>1. ASSUME NEW o \in Order
      PROVE  old[o] \ Touched(o, first, last) = FreeBlocks(o, taken) \ Touched(o, first, last)
  <2>1. o \in 0 .. MaxOrder
    BY DEF PagesAssumption, Order
  <2>2. \A i \in 0 .. managed \div Size(o) - 1 : i \notin Touched(o, first, last) =>
            Run(i * Size(o), Size(o)) \cap Run(first, count) = {}
    BY <2>1, Untouched
  <2>3. \A i \in 0 .. managed \div Size(o) - 1 : i \notin Touched(o, first, last) =>
            (Run(i * Size(o), Size(o)) \cap before = {} <=> Run(i * Size(o), Size(o)) \cap taken = {})
    BY <2>2
  <2> QED
    BY <2>3 DEF FreeBlocks
<1>2. \A o \in Order : old[o] \ Touched(o, first, first + count - 1) =
                       FreeBlocks(o, taken) \ Touched(o, first, first + count - 1)
  BY <1>1
<1> HIDE DEF old
<1>3. Refreshed(old, taken, first, count) = [o \in Order |-> FreeBlocks(o, taken)]
  BY <1>2, RefreshedIs
<1> QED
  BY <1>3 DEF old

-----------------------------------------------------------------------------
(***************************************************************************)
(* What is kept                                                            *)
(***************************************************************************)
\* Memory has a page, and the first is never given out; the bitmaps, the count
\* and the index are of the same pages.
Indexed ==
    /\ managed \in Nat \ {0}
    /\ 0 \in busy /\ 0 \notin owned /\ owned \subseteq busy /\ busy \subseteq AllPages
    /\ freeCount = Cardinality(AllPages \ busy)
    /\ level = [o \in Order |-> FreeBlocks(o, busy)]
\* The cursors stay where a search that begins at one, and then before it, sees
\* every page on its side of 4 GiB; the mark is true.
CursorsIn ==
    /\ normalCursor = Split \/ normalCursor \in Split .. managed - 1
    /\ dmaCursor = 1 \/ dmaCursor \in 1 .. DmaTop - 1
MarkTrue == normalDepleted \in BOOLEAN /\ (normalDepleted => Split .. managed - 1 \subseteq busy)
PagesInv == Indexed /\ CursorsIn /\ MarkTrue

-----------------------------------------------------------------------------
(***************************************************************************)
(* Searches                                                                *)
(***************************************************************************)
\* A block found is free and within the limits, and nothing is found only where
\* every block is taken.
LEMMA FindIs ==
    ASSUME PagesAssumption, Indexed, NEW o \in 0 .. MaxOrder, NEW first \in Nat, NEW limit \in Nat
    PROVE  /\ Find(o, first, limit) \in Nat
           /\ Find(o, first, limit) # managed =>
                /\ limit <= managed /\ first <= Find(o, first, limit)
                /\ Find(o, first, limit) + Size(o) <= limit
                /\ Run(Find(o, first, limit), Size(o)) \cap busy = {}
           /\ Find(o, first, limit) = managed /\ limit <= managed =>
                \A i \in Nat : first <= i * Size(o) /\ i * Size(o) + Size(o) <= limit =>
                    Run(i * Size(o), Size(o)) \cap busy # {}
<1> DEFINE s == Size(o)
           begin == (first + s - 1) \div s
           d == managed \div s
           e == limit \div s
           end == Lower(e, d)
           free == {i \in begin .. end - 1 : IF o = 0 THEN i \notin busy ELSE i \in level[o]}
           F == Find(o, first, limit)
<1>1. s \in Nat \ {0} /\ managed \in Nat \ {0} /\ (o # 0 => o \in Order)
  BY SizeOf DEF Indexed, Order, PagesAssumption
<1>2. F = IF limit > managed \/ first >= limit \/ free = {} THEN managed ELSE First(free) * s
  BY DEF Find
<1>3. /\ begin \in Nat /\ d \in Nat /\ e \in Nat /\ end \in Nat
      /\ \A i \in Nat : /\ begin <= i <=> first <= i * s
                        /\ i < d <=> i * s + s <= managed
                        /\ i < e <=> i * s + s <= limit
                        /\ i < end <=> i < d /\ i < e
  <2> HIDE DEF s
  <2>1. d \in Nat /\ e \in Nat
    BY <1>1, BlockOf
  <2>2. begin \in Nat
    BY <1>1, Ceiling
  <2>3. \A i \in Nat : begin <= i <=> first <= i * s
    BY <1>1, Ceiling
  <2>4. \A i \in Nat : /\ i < d <=> i * s + s <= managed
                       /\ i < e <=> i * s + s <= limit
    BY <1>1, Whole
  <2> HIDE DEF begin, d, e
  <2>5. end \in Nat /\ \A i \in Nat : i < end <=> i < d /\ i < e
    BY <2>1 DEF Lower
  <2> QED
    BY <2>1, <2>2, <2>3, <2>4, <2>5
<1>4. \A i \in Nat : i < d => (i \in free <=> begin <= i /\ i < end /\ Run(i * s, s) \cap busy = {})
  <2> SUFFICES ASSUME NEW i \in Nat, i < d
               PROVE  i \in free <=> begin <= i /\ i < end /\ Run(i * s, s) \cap busy = {}
    OBVIOUS
  <2>1. i \in begin .. end - 1 <=> begin <= i /\ i < end
    <3> HIDE DEF begin, end
    <3> QED
      BY <1>3
  <2>2. (IF o = 0 THEN i \notin busy ELSE i \in level[o]) <=> i \in FreeBlocks(o, busy)
    <3>1. CASE o = 0
      <4>1. i * s + s <= managed
        BY <1>3
      <4>2. s = 1
        BY <3>1 DEF PagesAssumption
      <4>3. i \in AllPages
        <5> HIDE DEF s
        <5> QED
          BY <4>1, <4>2, <1>1 DEF AllPages
      <4>4. FreeBlocks(0, busy) = AllPages \ busy
        BY <1>1, FreePages
      <4> QED
        BY <3>1, <4>3, <4>4
    <3>2. CASE o # 0
      BY <1>1, <3>2 DEF Indexed
    <3> QED
      BY <3>1, <3>2
  <2>3. i \in 0 .. managed \div Size(o) - 1
    <3>1. i * s + s <= managed
      BY <1>3
    <3> QED
      BY <1>1, <3>1, BlockIn
  <2>4. i \in FreeBlocks(o, busy) <=> Run(i * s, s) \cap busy = {}
    BY <2>3 DEF FreeBlocks
  <2>5. i \in free <=> i \in begin .. end - 1 /\ (IF o = 0 THEN i \notin busy ELSE i \in level[o])
    OBVIOUS
  <2> HIDE DEF free, begin, end, s, d
  <2> QED
    BY <2>1, <2>2, <2>4, <2>5
<1>5. free \in SUBSET Nat /\ \A i \in free : i < d
  <2>1. free \subseteq begin .. end - 1
    OBVIOUS
  <2> HIDE DEF free, begin, end, s, d
  <2>2. \A i \in begin .. end - 1 : i \in Nat /\ i < end
    BY <1>3
  <2> QED
    BY <1>3, <2>1, <2>2
<1> HIDE DEF free, begin, end, s, d, e, F
<1>6. ASSUME F # managed
      PROVE  F \in Nat /\ limit <= managed /\ first <= F /\ F + s <= limit /\ Run(F, s) \cap busy = {}
  <2>1. F = First(free) * s /\ free # {} /\ limit <= managed
    BY <1>1, <1>2, <1>6
  <2>2. PICK i \in free : i = First(free)
    BY <1>5, <2>1, FirstOf
  <2>3. i \in Nat /\ i < d /\ F = i * s
    BY <1>5, <2>1, <2>2
  <2>4. begin <= i /\ i < end /\ Run(i * s, s) \cap busy = {}
    BY <1>4, <2>2, <2>3
  <2>5. first <= i * s /\ i * s + s <= limit
    BY <1>3, <2>3, <2>4
  <2>6. i * s \in Nat
    BY <1>1, <2>3
  <2> QED
    BY <2>1, <2>3, <2>4, <2>5, <2>6
<1>7. ASSUME F = managed, limit <= managed, NEW i \in Nat, first <= i * s, i * s + s <= limit
      PROVE  Run(i * s, s) \cap busy # {}
  <2>1. i * s \in Nat
    BY <1>1
  <2>2. first < limit
    BY <1>1, <1>7, <2>1
  <2>3. begin <= i /\ i < e /\ i < d /\ i < end
    BY <1>1, <1>3, <1>7, <2>1
  <2>4. free = {}
    <3> SUFFICES ASSUME free # {} PROVE FALSE
      OBVIOUS
    <3>1. F = First(free) * s
      BY <1>1, <1>2, <1>7, <2>2
    <3>2. First(free) \in free
      BY <1>5, FirstOf
    <3>3. First(free) \in Nat /\ First(free) < d
      BY <1>5, <3>2
    <3>4. First(free) * s + s <= managed
      BY <1>3, <3>3
    <3>5. First(free) * s \in Nat
      BY <1>1, <3>3
    <3> QED
      BY <1>1, <1>7, <3>1, <3>4, <3>5
  <2> QED
    BY <1>4, <2>3, <2>4
<1>8. F \in Nat
  BY <1>1, <1>6
<1> QED
  BY <1>6, <1>7, <1>8 DEF F, s

\* The same of single pages.
LEMMA FindPage ==
    ASSUME PagesAssumption, Indexed, NEW first \in Nat, NEW limit \in Nat
    PROVE  /\ Find(0, first, limit) \in Nat
           /\ Find(0, first, limit) # managed =>
                 limit <= managed /\ Find(0, first, limit) \in (first .. limit - 1) \ busy
           /\ Find(0, first, limit) = managed /\ limit <= managed => first .. limit - 1 \subseteq busy
<1> DEFINE F == Find(0, first, limit)
<1>1. 0 \in 0 .. MaxOrder /\ Size(0) = 1 /\ managed \in Nat
  BY DEF PagesAssumption, Indexed
<1>2. /\ F \in Nat
      /\ F # managed => limit <= managed /\ first <= F /\ F + 1 <= limit /\ Run(F, 1) \cap busy = {}
      /\ F = managed /\ limit <= managed =>
           \A i \in Nat : first <= i * 1 /\ i * 1 + 1 <= limit => Run(i * 1, 1) \cap busy # {}
  BY <1>1, FindIs
<1> HIDE DEF F
<1>3. \A i \in Nat : i * 1 = i /\ Run(i, 1) = {i}
  <2> SUFFICES ASSUME NEW i \in Nat PROVE Run(i, 1) = {i}
    OBVIOUS
  <2>1. i + 1 - 1 = i /\ i .. i = {i}
    OBVIOUS
  <2> QED
    BY <2>1 DEF Run
<1>4. F # managed => F \in (first .. limit - 1) \ busy
  <2> SUFFICES ASSUME F # managed PROVE F \in (first .. limit - 1) \ busy
    OBVIOUS
  <2>1. F \notin busy
    BY <1>2, <1>3
  <2> QED
    BY <1>2, <2>1
<1>5. F = managed /\ limit <= managed => first .. limit - 1 \subseteq busy
  <2> SUFFICES ASSUME F = managed, limit <= managed, NEW i \in first .. limit - 1 PROVE i \in busy
    OBVIOUS
  <2>1. i \in Nat /\ first <= i * 1 /\ i * 1 + 1 <= limit
    OBVIOUS
  <2> QED
    BY <1>2, <1>3, <2>1
<1> QED
  BY <1>2, <1>4, <1>5 DEF F

LEMMA FreeCounted ==
    ASSUME PagesAssumption, Indexed
    PROVE  /\ IsFiniteSet(AllPages) /\ IsFiniteSet(AllPages \ busy) /\ freeCount \in Nat
           /\ DmaTop \in Nat /\ DmaTop <= managed /\ DmaTop <= Split
           /\ \A i, count \in Nat : i + count <= managed /\ Run(i, count) \cap busy = {} =>
                  Cardinality(Run(i, count)) = count /\ count <= freeCount
<1>1. managed \in Nat \ {0} /\ Split \in Nat \ {0} /\ freeCount = Cardinality(AllPages \ busy)
  BY DEF Indexed, PagesAssumption
<1>2. IsFiniteSet(AllPages)
  BY <1>1, FS_Interval DEF AllPages
<1>3. IsFiniteSet(AllPages \ busy) /\ freeCount \in Nat
  BY <1>1, <1>2, FS_Subset, FS_CardinalityType
<1>4. DmaTop \in Nat /\ DmaTop <= managed /\ DmaTop <= Split
  BY <1>1 DEF DmaTop, Lower
<1>5. ASSUME NEW i \in Nat, NEW count \in Nat, i + count <= managed, Run(i, count) \cap busy = {}
      PROVE  Cardinality(Run(i, count)) = count /\ count <= freeCount
  <2>1. i \in Int /\ i + count - 1 \in Int
    OBVIOUS
  <2>2. \A a, b \in Int : Cardinality(a .. b) = IF a > b THEN 0 ELSE b - a + 1
    BY FS_Interval
  <2>3. Cardinality(Run(i, count)) = count
    BY <2>1, <2>2 DEF Run
  <2>4. Run(i, count) \subseteq AllPages
    BY <1>1, <1>5 DEF Run, AllPages
  <2>5. Run(i, count) \in SUBSET (AllPages \ busy)
    BY <1>5, <2>4
  <2>6. Cardinality(Run(i, count)) <= freeCount
    BY <1>1, <1>3, <2>5, FS_Subset
  <2> QED
    BY <2>3, <2>6
<1> QED
  BY <1>2, <1>3, <1>4, <1>5

\* A run that may be given out: whole, and free.
Givable(first, count) == first \in Nat /\ first + count <= managed /\ Run(first, count) \cap busy = {}

\* What page_alloc finds.
LEMMA NextPageIs ==
    ASSUME PagesAssumption, PagesInv
    PROVE  /\ NextPage \in Nat
           /\ NextPage # managed => NextPage \in AllPages \ busy
           /\ NextPage = managed => busy = AllPages
           /\ LooksAbove /\ AboveFrom(normalCursor) = managed => Split .. managed - 1 \subseteq busy
<1>1. /\ managed \in Nat \ {0} /\ Split \in Nat \ {0} /\ busy \subseteq AllPages /\ 0 \in busy
      /\ Indexed /\ MarkTrue /\ CursorsIn
  BY DEF PagesInv, Indexed, PagesAssumption
<1>2. /\ freeCount \in Nat /\ DmaTop \in Nat /\ DmaTop <= managed /\ DmaTop <= Split
      /\ DmaTop \in {Split, managed} /\ IsFiniteSet(AllPages \ busy)
      /\ freeCount = Cardinality(AllPages \ busy)
  BY <1>1, FreeCounted DEF DmaTop, Lower, Indexed
<1>3. freeCount = 0 => busy = AllPages
  <2>1. freeCount = 0 => AllPages \ busy = {}
    BY <1>2, FS_EmptySet
  <2> QED
    BY <1>1, <2>1
<1> DEFINE A == AboveFrom(normalCursor)
           B == BelowFrom(dmaCursor)
<1>4. /\ A \in Nat /\ (A # managed => A \in AllPages \ busy)
      /\ LooksAbove /\ A = managed => Split .. managed - 1 \subseteq busy
  <2> DEFINE c == normalCursor
             x == Find(0, c, managed)
             y == Find(0, Split, c)
  <2>1. c \in Nat /\ (LooksAbove => c \in Split .. managed - 1)
    BY <1>1 DEF CursorsIn, LooksAbove
  <2> HIDE DEF c
  <2>2. /\ x \in Nat
        /\ x # managed => x \in (c .. managed - 1) \ busy
        /\ x = managed => c .. managed - 1 \subseteq busy
    <3>1. managed \in Nat /\ managed <= managed
      BY <1>1
    <3> QED
      BY <1>1, <2>1, <3>1, FindPage
  <2>3. /\ y \in Nat
        /\ y # managed => c <= managed /\ y \in (Split .. c - 1) \ busy
        /\ y = managed /\ c <= managed => Split .. c - 1 \subseteq busy
    BY <1>1, <2>1, FindPage
  <2>4. A = IF x # managed THEN x ELSE y
    BY DEF AboveFrom, c
  <2> HIDE DEF A, c, x, y
  <2>5. A \in Nat /\ (A # managed => A \in AllPages \ busy)
    BY <1>1, <2>1, <2>2, <2>3, <2>4 DEF AllPages
  <2>6. ASSUME LooksAbove, A = managed PROVE Split .. managed - 1 \subseteq busy
    <3>1. c \in Split .. managed - 1 /\ c .. managed - 1 \subseteq busy
      BY <2>1, <2>2, <2>4, <2>6
    <3>2. Split .. c - 1 \subseteq busy
      BY <1>1, <2>1, <2>2, <2>3, <2>4, <2>6, <3>1
    <3> QED
      BY <1>1, <3>1, <3>2
  <2> QED
    BY <2>5, <2>6
<1>5. /\ B \in Nat /\ (B # managed => B \in AllPages \ busy)
      /\ B = managed => 0 .. DmaTop - 1 \subseteq busy
  <2> DEFINE c == dmaCursor
             x == Find(0, c, DmaTop)
             y == Find(0, 1, c)
  <2>1. c \in Nat /\ 1 <= c /\ (c = 1 \/ c < DmaTop) /\ 1 \in Nat
    BY <1>1, <1>2 DEF CursorsIn
  <2>2. /\ x \in Nat
        /\ x # managed => x \in (c .. DmaTop - 1) \ busy
        /\ x = managed => c .. DmaTop - 1 \subseteq busy
    BY <1>1, <1>2, <2>1, FindPage
  <2>3. /\ y \in Nat
        /\ y # managed => c <= managed /\ y \in (1 .. c - 1) \ busy
        /\ y = managed /\ c <= managed => 1 .. c - 1 \subseteq busy
    BY <1>1, <2>1, FindPage
  <2>4. B = IF x # managed THEN x ELSE y
    BY DEF BelowFrom
  <2> HIDE DEF B, c, x, y
  <2>5. B \in Nat /\ (B # managed => B \in AllPages \ busy)
    BY <1>1, <1>2, <2>1, <2>2, <2>3, <2>4 DEF AllPages
  <2>6. ASSUME B = managed PROVE 0 .. DmaTop - 1 \subseteq busy
    <3>1. c .. DmaTop - 1 \subseteq busy
      BY <2>2, <2>4, <2>6
    <3>2. 1 .. c - 1 \subseteq busy
      BY <1>1, <1>2, <2>1, <2>2, <2>3, <2>4, <2>6
    <3> QED
      BY <1>1, <1>2, <2>1, <3>1, <3>2
  <2> QED
    BY <2>5, <2>6
<1>6. NextPage = IF freeCount = 0 THEN managed ELSE IF LooksAbove /\ A # managed THEN A ELSE B
  BY DEF NextPage
<1>7. LooksAbove \/ Split .. managed - 1 \subseteq busy
  <2>1. CASE managed > Split
    BY <1>1, <2>1 DEF LooksAbove, MarkTrue
  <2>2. CASE ~(managed > Split)
    BY <1>1, <2>2
  <2> QED
    BY <2>1, <2>2
<1> HIDE DEF A, B
<1>8. ASSUME NextPage = managed PROVE busy = AllPages
  <2>1. CASE freeCount = 0
    BY <1>3, <2>1
  <2>2. CASE freeCount # 0
    <3>1. Split .. managed - 1 \subseteq busy
      BY <1>4, <1>6, <1>7, <1>8, <2>2
    <3>2. B = managed
      BY <1>4, <1>6, <1>8, <2>2
    <3>3. 0 .. DmaTop - 1 \subseteq busy
      BY <1>5, <3>2
    <3>4. AllPages \subseteq busy
      BY <1>1, <1>2, <3>1, <3>3 DEF AllPages
    <3> QED
      BY <1>1, <3>4
  <2> QED
    BY <2>1, <2>2
<1>9. NextPage \in Nat /\ (NextPage # managed => NextPage \in AllPages \ busy)
  BY <1>1, <1>4, <1>5, <1>6
<1> QED
  BY <1>4, <1>8, <1>9 DEF A

\* What page_alloc_order finds: no block of the order lies on both sides of 4 GiB,
\* and the first holds page 0.
LEMMA OrderBlockIs ==
    ASSUME PagesAssumption, Indexed, NEW o \in 0 .. MaxOrder
    PROVE  /\ OrderBlock(o) \in Nat
           /\ OrderBlock(o) # managed => Givable(OrderBlock(o), Size(o))
           /\ OrderBlock(o) = managed =>
                \A i \in 0 .. managed \div Size(o) - 1 : Run(i * Size(o), Size(o)) \cap busy # {}
<1> DEFINE s == Size(o)
           x == Find(o, Split, managed)
           y == Find(o, 1, DmaTop)
<1>1. managed \in Nat \ {0} /\ Split \in Nat \ {0} /\ s \in Nat \ {0} /\ 0 \in busy /\ 1 \in Nat
  BY SizeOf DEF Indexed, PagesAssumption
<1>2. /\ freeCount \in Nat /\ DmaTop \in Nat /\ DmaTop <= managed /\ DmaTop \in {Split, managed} /\ DmaTop <= Split
      /\ \A i, count \in Nat : i + count <= managed /\ Run(i, count) \cap busy = {} => count <= freeCount
  BY <1>1, FreeCounted DEF DmaTop, Lower
<1>3. /\ x \in Nat /\ (x # managed => x + s <= managed /\ Run(x, s) \cap busy = {})
      /\ x = managed => \A i \in Nat : Split <= i * s /\ i * s + s <= managed => Run(i * s, s) \cap busy # {}
  <2>1. managed \in Nat /\ Split \in Nat /\ managed <= managed
    BY <1>1
  <2> HIDE DEF s
  <2> QED
    BY <2>1, FindIs DEF s
<1>4. /\ y \in Nat /\ (y # managed => y + s <= DmaTop /\ Run(y, s) \cap busy = {})
      /\ y = managed => \A i \in Nat : 1 <= i * s /\ i * s + s <= DmaTop => Run(i * s, s) \cap busy # {}
  BY <1>1, <1>2, FindIs
<1>5. OrderBlock(o) = IF freeCount < s THEN managed ELSE IF x # managed THEN x ELSE y
  BY DEF OrderBlock
<1>6. ASSUME OrderBlock(o) = managed, NEW i \in Nat, i * s + s <= managed
      PROVE  Run(i * s, s) \cap busy # {}
  <2>1. i * s \in Nat
    BY <1>1
  <2>2. CASE freeCount < s
    BY <1>1, <1>2, <1>6, <2>1, <2>2
  <2>3. CASE freeCount >= s
    <3>1. x = managed /\ y = managed
      BY <1>1, <1>2, <1>5, <1>6, <2>3
    <3>2. PICK k \in Nat : Split = k * s
      BY DEF PagesAssumption
    <3> HIDE DEF s, x, y
    <3>3. CASE Split <= i * s
      BY <1>3, <1>6, <3>1, <3>3
    <3>4. CASE i = 0
      <4>1. i * s = 0
        BY <1>1, <3>4
      <4>2. 0 \in Run(i * s, s)
        BY <1>1, <4>1 DEF Run
      <4> QED
        BY <1>1, <4>2
    <3>5. CASE i # 0 /\ i * s < Split
      <4>1. 1 <= i * s
        <5>1. 1 <= i
          BY <3>5
        <5>2. 1 * s <= i * s
          BY <1>1, <5>1, Grows
        <5> QED
          BY <1>1, <2>1, <5>2
      <4>2. i < k
        <5>1. ASSUME k <= i PROVE FALSE
          <6>1. k * s <= i * s
            BY <1>1, <3>2, <5>1, Grows
          <6> QED
            BY <1>1, <2>1, <3>2, <3>5, <6>1
        <5> QED
          BY <3>2, <5>1
      <4>3. i * s + s <= Split
        BY <1>1, <3>2, <4>2, Grows
      <4>4. i * s + s <= DmaTop
        BY <1>2, <1>6, <4>3
      <4> QED
        BY <1>4, <3>1, <4>1, <4>4
    <3> QED
      BY <1>1, <2>1, <3>3, <3>4, <3>5
  <2> QED
    BY <1>1, <1>2, <2>2, <2>3
<1>7. ASSUME OrderBlock(o) = managed, NEW i \in 0 .. managed \div Size(o) - 1
      PROVE  Run(i * s, s) \cap busy # {}
  <2>1. i \in Nat /\ i * s + s <= managed
    BY <1>1, BlockIn
  <2> QED
    BY <1>6, <1>7, <2>1
<1>8. OrderBlock(o) \in Nat /\ (OrderBlock(o) # managed => Givable(OrderBlock(o), s))
  <2> HIDE DEF s, x, y
  <2> QED
    BY <1>1, <1>2, <1>3, <1>4, <1>5 DEF Givable
<1> QED
  BY <1>7, <1>8

\* The runs that are given out are free.
LEMMA LinearRunIs ==
    ASSUME PagesAssumption, Indexed, NEW count \in Nat, NEW from \in Nat, NEW top \in Nat, top <= managed
    PROVE  LinearRun(count, from, top) = managed \/ Givable(LinearRun(count, from, top), count)
<1> DEFINE runs == {x \in from .. top - count : Run(x, count) \cap busy = {}}
<1>1. LinearRun(count, from, top) = IF runs = {} THEN managed ELSE First(runs)
  BY DEF LinearRun
<1>2. runs \in SUBSET Nat
  OBVIOUS
<1>3. ASSUME runs # {} PROVE Givable(First(runs), count)
  <2>1. First(runs) \in runs
    BY <1>2, <1>3, FirstOf
  <2>2. \A x \in runs : Givable(x, count)
    BY DEF Givable, Indexed
  <2> HIDE DEF runs
  <2> QED
    BY <2>1, <2>2
<1> QED
  BY <1>1, <1>3

LEMMA RunsFound ==
    ASSUME PagesAssumption, PagesInv, NEW count \in 1 .. managed
    PROVE  /\ PageRun(count) = managed \/ Givable(PageRun(count), count)
           /\ PageRunBelow(count, Split) = managed \/ Givable(PageRunBelow(count, Split), count)
<1> DEFINE top == Lower(managed, Split)
<1>1. /\ Indexed /\ managed \in Nat \ {0} /\ count \in Nat /\ Split \in Nat /\ 0 \in Nat /\ 1 \in Nat
      /\ top \in Nat /\ top <= managed
  BY DEF PagesInv, Indexed, PagesAssumption, Lower
<1>2. ASSUME IsSize(count) PROVE OrderOf(count) \in 0 .. MaxOrder /\ Size(OrderOf(count)) = count
  <2>1. \E o \in 0 .. MaxOrder : count = Size(o)
    BY <1>2 DEF IsSize
  <2> QED
    BY <2>1 DEF OrderOf
<1>3. /\ LinearRun(count, 0, managed) = managed \/ Givable(LinearRun(count, 0, managed), count)
      /\ LinearRun(count, 1, top) = managed \/ Givable(LinearRun(count, 1, top), count)
  <2> HIDE DEF top
  <2> QED
    BY <1>1, LinearRunIs
<1>4. IsSize(count) => OrderBlock(OrderOf(count)) = managed \/ Givable(OrderBlock(OrderOf(count)), count)
  BY <1>1, <1>2, OrderBlockIs
<1>5. ASSUME IsSize(count), Find(OrderOf(count), 1, top) # managed
      PROVE  Givable(Find(OrderOf(count), 1, top), count)
  <2> DEFINE o == OrderOf(count)
             F == Find(o, 1, top)
  <2> HIDE DEF top
  <2>1. o \in 0 .. MaxOrder /\ Size(o) = count
    BY <1>2, <1>5
  <2> HIDE DEF o
  <2>2. F \in Nat /\ F + Size(o) <= top /\ Run(F, Size(o)) \cap busy = {}
    BY <1>1, <1>5, <2>1, FindIs DEF o
  <2> HIDE DEF F
  <2>3. Givable(F, count)
    BY <1>1, <2>1, <2>2 DEF Givable
  <2> QED
    BY <2>3 DEF F, o
<1>6. PageRun(count) \in {managed, OrderBlock(OrderOf(count)), LinearRun(count, 0, managed)}
      /\ (PageRun(count) = managed \/ PageRun(count) = LinearRun(count, 0, managed)
          \/ (IsSize(count) /\ PageRun(count) = OrderBlock(OrderOf(count))))
  BY DEF PageRun
<1>7. \/ PageRunBelow(count, Split) = managed \/ PageRunBelow(count, Split) = LinearRun(count, 1, top)
      \/ IsSize(count) /\ PageRunBelow(count, Split) = Find(OrderOf(count), 1, top)
  BY DEF PageRunBelow
<1> HIDE DEF top
<1>8. PageRun(count) = managed \/ Givable(PageRun(count), count)
  BY <1>3, <1>4, <1>6
<1>9. PageRunBelow(count, Split) = managed \/ Givable(PageRunBelow(count, Split), count)
  BY <1>3, <1>5, <1>7
<1> QED
  BY <1>8, <1>9

LEMMA BelowFound ==
    ASSUME PagesAssumption, PagesInv, NEW top \in Nat
    PROVE  /\ PageBelow(top) = managed \/ Givable(PageBelow(top), 1)
           /\ PageBelow(top) = managed => AllPages \cap (0 .. top - 1) \subseteq busy
<1> DEFINE t == Lower(top, managed)
           F == Find(0, 1, t)
<1>1. /\ Indexed /\ managed \in Nat \ {0} /\ 0 \in busy /\ busy \subseteq AllPages
      /\ t \in Nat /\ t <= managed /\ t <= top /\ t \in {top, managed} /\ 1 \in Nat
  BY DEF PagesInv, Indexed, Lower
<1>2. /\ freeCount \in Nat /\ freeCount = Cardinality(AllPages \ busy) /\ IsFiniteSet(AllPages \ busy)
  BY <1>1, FreeCounted DEF Indexed
<1>3. PageBelow(top) = IF freeCount = 0 THEN managed ELSE F
  BY DEF PageBelow
<1> HIDE DEF t
<1>4. /\ F \in Nat /\ (F # managed => F \in (1 .. t - 1) \ busy)
      /\ F = managed => 1 .. t - 1 \subseteq busy
  BY <1>1, FindPage
<1> HIDE DEF F
<1>5. F # managed => Givable(F, 1)
  <2> SUFFICES ASSUME F # managed PROVE Givable(F, 1)
    OBVIOUS
  <2>1. F \in Nat /\ F + 1 <= managed /\ F \notin busy /\ F .. F + 1 - 1 = {F}
    BY <1>1, <1>4
  <2> QED
    BY <2>1 DEF Givable, Run
<1>6. ASSUME PageBelow(top) = managed PROVE AllPages \cap (0 .. top - 1) \subseteq busy
  <2>1. CASE freeCount = 0
    <3>1. AllPages \ busy = {}
      BY <1>2, <2>1, FS_EmptySet
    <3> QED
      BY <3>1
  <2>2. CASE freeCount # 0
    <3>1. 1 .. t - 1 \subseteq busy
      BY <1>3, <1>4, <1>6, <2>2
    <3> QED
      BY <1>1, <3>1 DEF AllPages
  <2> QED
    BY <2>1, <2>2
<1> QED
  BY <1>3, <1>5, <1>6

-----------------------------------------------------------------------------
(***************************************************************************)
(* Steps                                                                   *)
(***************************************************************************)
LEMMA PagesInitInv == ASSUME PagesAssumption, PagesInit PROVE PagesInv
<1>1. managed \in Nat /\ Split \in Nat /\ MaxOrder \in Nat
  BY DEF PagesInit, PagesAssumption
<1>2. 0 \in busy /\ busy \subseteq AllPages /\ owned = {} /\ freeCount = Cardinality(AllPages \ busy)
  BY DEF PagesInit
<1>3. managed # 0
  BY <1>1, <1>2 DEF AllPages
<1>4. level = [o \in Order |-> FreeBlocks(o, busy)]
  BY <1>1, <1>3, BuiltIs DEF PagesInit
<1> QED
  BY <1>1, <1>2, <1>3, <1>4 DEF PagesInv, Indexed, CursorsIn, MarkTrue, PagesInit

\* Giving out a free run keeps the books.
LEMMA CommitKeeps ==
    ASSUME PagesAssumption, Indexed, NEW first, NEW count \in Nat \ {0},
           first = managed \/ Givable(first, count), CommitPages(first, count)
    PROVE  Indexed' /\ managed' = managed /\ busy \subseteq busy' /\ first < managed /\ Givable(first, count)
<1>1. /\ managed \in Nat \ {0} /\ 0 \in busy /\ 0 \notin owned /\ owned \subseteq busy /\ busy \subseteq AllPages
      /\ freeCount = Cardinality(AllPages \ busy)
      /\ level = [o \in Order |-> FreeBlocks(o, busy)]
  BY DEF Indexed
<1>2. /\ first < managed /\ managed' = managed
      /\ busy' = busy \cup Run(first, count) /\ owned' = owned \cup Run(first, count)
      /\ freeCount' = freeCount - count /\ level' = Refreshed(level, busy', first, count)
  BY DEF CommitPages
<1>3. Givable(first, count) /\ first \in Nat /\ first + count <= managed /\ Run(first, count) \cap busy = {}
  BY <1>1, <1>2 DEF Givable
<1>4. Run(first, count) \subseteq AllPages
  BY <1>1, <1>3 DEF Run, AllPages
<1>5. /\ IsFiniteSet(AllPages \ busy) /\ Cardinality(Run(first, count)) = count /\ freeCount \in Nat
      /\ count <= freeCount
  BY <1>3, FreeCounted
<1> DEFINE R == Run(first, count)
           Unused == AllPages \ busy
<1>6. Cardinality(Unused \ R) = freeCount - count
  <2> HIDE DEF R, Unused
  <2>1. IsFiniteSet(Unused) /\ IsFiniteSet(R) /\ R \subseteq Unused
    <3>1. R \subseteq Unused /\ IsFiniteSet(Unused)
      BY <1>3, <1>4, <1>5 DEF R, Unused
    <3> QED
      BY <3>1, FS_Subset
  <2>2. Cardinality(Unused \ R) = Cardinality(Unused) - Cardinality(Unused \cap R)
    BY <2>1, FS_Difference
  <2>3. Unused \cap R = R
    BY <2>1
  <2> QED
    BY <1>1, <1>5, <2>2, <2>3 DEF Unused, R
<1>7. AllPages \ busy' = Unused \ R /\ AllPages' = AllPages
  BY <1>2 DEF AllPages
<1>8. level' = [o \in Order |-> FreeBlocks(o, busy')]
  <2> HIDE DEF R, Unused
  <2>1. busy \ Run(first, count) = busy' \ Run(first, count)
    BY <1>2
  <2>2. first \in Nat /\ first + count <= managed /\ managed \in Nat
    BY <1>1, <1>3
  <2>3. Refreshed([o \in Order |-> FreeBlocks(o, busy)], busy', first, count) = [o \in Order |-> FreeBlocks(o, busy')]
    <3>1. \A before, taken : before \ Run(first, count) = taken \ Run(first, count) =>
              Refreshed([o \in Order |-> FreeBlocks(o, before)], taken, first, count) =
                  [o \in Order |-> FreeBlocks(o, taken)]
      BY <2>2, RefreshedKeeps
    <3> QED
      BY <2>1, <3>1
  <2> QED
    BY <1>1, <1>2, <2>3
<1>9. level' = [o \in Order |-> FreeBlocks(o, busy)']
  BY <1>2, <1>8 DEF FreeBlocks
<1>10. freeCount' = Cardinality(AllPages' \ busy')
  BY <1>2, <1>6, <1>7
<1>11. 0 \in busy' /\ 0 \notin owned' /\ owned' \subseteq busy' /\ busy' \subseteq AllPages'
  <2>1. 0 \notin Run(first, count)
    BY <1>1, <1>3
  <2> QED
    BY <1>1, <1>2, <1>4, <1>7, <2>1
<1> QED
  BY <1>1, <1>2, <1>3, <1>9, <1>10, <1>11 DEF Indexed

LEMMA HintsKept ==
    ASSUME CursorsIn, MarkTrue, managed' = managed, busy \subseteq busy', UseHints
    PROVE  CursorsIn' /\ MarkTrue'
BY DEF CursorsIn, MarkTrue, UseHints, DmaTop, Lower

LEMMA PageAllocKeeps == ASSUME PagesAssumption, PagesInv, PageAlloc PROVE PagesInv'
<1>1. Indexed /\ CursorsIn /\ MarkTrue /\ managed \in Nat /\ Split \in Nat
  BY DEF PagesInv, Indexed, PagesAssumption
<1>2. /\ NextPage \in Nat /\ (NextPage # managed => NextPage \in AllPages \ busy)
      /\ LooksAbove /\ AboveFrom(normalCursor) = managed => Split .. managed - 1 \subseteq busy
  BY NextPageIs
<1>3. NextPage = managed \/ Givable(NextPage, 1)
  <2> SUFFICES ASSUME NextPage # managed PROVE Givable(NextPage, 1)
    OBVIOUS
  <2>1. NextPage \in AllPages \ busy /\ NextPage .. NextPage + 1 - 1 = {NextPage}
    BY <1>2
  <2> QED
    BY <1>1, <2>1 DEF Givable, Run, AllPages
<1>4. Indexed' /\ managed' = managed /\ busy \subseteq busy' /\ NextPage < managed
  BY <1>1, <1>3, CommitKeeps DEF PageAlloc
<1>5. MarkTrue'
  <2>1. normalDepleted' = (normalDepleted \/ (LooksAbove /\ AboveFrom(normalCursor) = managed))
    BY DEF PageAlloc
  <2>2. normalDepleted' \in BOOLEAN /\ (normalDepleted' => Split .. managed - 1 \subseteq busy)
    BY <1>1, <1>2, <2>1 DEF MarkTrue
  <2> QED
    BY <1>4, <2>2 DEF MarkTrue
<1>6. CursorsIn'
  <2>1. DmaTop' = DmaTop /\ DmaTop \in Nat
    BY <1>1, <1>4 DEF DmaTop, Lower
  <2>2. CASE NextPage >= Split
    <3>1. normalCursor' = (IF NextPage + 1 < managed THEN NextPage + 1 ELSE Split) /\ dmaCursor' = dmaCursor
      BY <2>2 DEF PageAlloc
    <3> QED
      BY <1>1, <1>2, <1>4, <2>1, <2>2, <3>1 DEF CursorsIn
  <2>3. CASE ~(NextPage >= Split)
    <3>1. dmaCursor' = (IF NextPage + 1 < DmaTop THEN NextPage + 1 ELSE 1) /\ normalCursor' = normalCursor
      BY <2>3 DEF PageAlloc
    <3> QED
      BY <1>1, <1>2, <1>4, <2>1, <2>3, <3>1 DEF CursorsIn
  <2> QED
    BY <2>2, <2>3
<1> QED
  BY <1>4, <1>5, <1>6 DEF PagesInv

LEMMA RunKeeps ==
    ASSUME PagesAssumption, PagesInv, NEW first, NEW count \in Nat \ {0},
           first = managed \/ Givable(first, count), CommitPages(first, count), UseHints
    PROVE  PagesInv'
<1>1. Indexed /\ CursorsIn /\ MarkTrue
  BY DEF PagesInv
<1>2. Indexed' /\ managed' = managed /\ busy \subseteq busy'
  BY <1>1, CommitKeeps
<1> QED
  BY <1>1, <1>2, HintsKept DEF PagesInv

LEMMA PageFreeKeeps == ASSUME PagesAssumption, PagesInv, NEW p \in AllPages, PageFree(p) PROVE PagesInv'
<1>1. /\ managed \in Nat \ {0} /\ 0 \in busy /\ 0 \notin owned /\ owned \subseteq busy /\ busy \subseteq AllPages
      /\ freeCount = Cardinality(AllPages \ busy)
      /\ level = [o \in Order |-> FreeBlocks(o, busy)]
      /\ CursorsIn /\ MarkTrue /\ Indexed
  BY DEF Indexed, PagesInv
<1>2. /\ p \in owned /\ managed' = managed /\ owned' = owned \ {p} /\ busy' = busy \ {p}
      /\ freeCount' = freeCount + 1 /\ level' = Refreshed(level, busy', p, 1)
      /\ normalDepleted' = Depleted(p) /\ normalCursor' = normalCursor /\ dmaCursor' = dmaCursor
  BY DEF PageFree
<1>3. p \in Nat /\ p + 1 <= managed /\ Run(p, 1) = {p} /\ p \in busy /\ p # 0
  <2>1. p \in Nat /\ p + 1 <= managed /\ p .. p + 1 - 1 = {p}
    BY <1>1 DEF AllPages
  <2> QED
    BY <1>1, <1>2, <2>1 DEF Run
<1>4. AllPages' = AllPages /\ AllPages \ busy' = (AllPages \ busy) \cup {p}
  BY <1>2 DEF AllPages
<1>5. freeCount' = Cardinality(AllPages' \ busy')
  <2>1. IsFiniteSet(AllPages \ busy) /\ p \notin AllPages \ busy
    BY <1>1, <1>3, FreeCounted
  <2>2. Cardinality((AllPages \ busy) \cup {p}) = Cardinality(AllPages \ busy) + 1
    BY <2>1, FS_AddElement
  <2> QED
    BY <1>1, <1>2, <1>4, <2>2
<1>6. level' = [o \in Order |-> FreeBlocks(o, busy')]
  <2> DEFINE count == 1
  <2>1. /\ busy \ Run(p, count) = busy' \ Run(p, count) /\ count \in Nat \ {0} /\ managed \in Nat
        /\ p \in Nat /\ p + count <= managed
    BY <1>1, <1>2, <1>3
  <2>2. level' = Refreshed(level, busy', p, count)
    BY <1>2
  <2> HIDE DEF count
  <2> QED
    BY <1>1, <2>1, <2>2, RefreshedKeeps
<1>7. level' = [o \in Order |-> FreeBlocks(o, busy)']
  BY <1>2, <1>6 DEF FreeBlocks
<1>8. Indexed'
  BY <1>1, <1>2, <1>3, <1>4, <1>5, <1>7 DEF Indexed
<1>9. CursorsIn'
  BY <1>1, <1>2 DEF CursorsIn, DmaTop, Lower
<1>10. MarkTrue'
  <2>1. normalDepleted' = (normalDepleted /\ p < Split)
    BY <1>2 DEF Depleted
  <2>2. normalDepleted \in BOOLEAN /\ (normalDepleted => Split .. managed - 1 \subseteq busy) /\ Split \in Nat
    BY <1>1 DEF MarkTrue, PagesAssumption
  <2>3. ASSUME normalDepleted' PROVE Split .. managed' - 1 \subseteq busy'
    <3>1. normalDepleted /\ p < Split
      BY <2>1, <2>3
    <3>2. Split .. managed - 1 \subseteq busy /\ p \notin Split .. managed - 1
      BY <1>1, <1>3, <2>2, <3>1
    <3> QED
      BY <1>2, <3>2
  <2> QED
    BY <2>1, <2>2, <2>3 DEF MarkTrue
<1> QED
  BY <1>8, <1>9, <1>10 DEF PagesInv

LEMMA PagesStep == ASSUME PagesAssumption, PagesInv, [PagesNext]_pagesVars PROVE PagesInv'
<1>1. managed \in Nat /\ Split \in Nat /\ 1 \in Nat \ {0}
  BY DEF PagesInv, Indexed, PagesAssumption
<1>2. CASE PageAlloc
  BY <1>2, PageAllocKeeps
<1>3. ASSUME NEW top \in {Split, managed}, PageAllocBelow(top) PROVE PagesInv'
  <2>1. top \in Nat
    BY <1>1
  <2>2. PageBelow(top) = managed \/ Givable(PageBelow(top), 1)
    BY <2>1, BelowFound
  <2> QED
    BY <1>1, <1>3, <2>2, RunKeeps DEF PageAllocBelow
<1>4. ASSUME NEW count \in 1 .. managed, PageAllocRun(count) \/ PageAllocRunBelow(count, Split) PROVE PagesInv'
  <2>1. count \in Nat \ {0}
    BY <1>1
  <2>2. CASE PageAllocRun(count)
    BY <2>1, <2>2, RunsFound, RunKeeps DEF PageAllocRun
  <2>3. CASE PageAllocRunBelow(count, Split)
    BY <2>1, <2>3, RunsFound, RunKeeps DEF PageAllocRunBelow
  <2> QED
    BY <1>4, <2>2, <2>3
<1>5. ASSUME NEW p \in AllPages, PageFree(p) PROVE PagesInv'
  BY <1>5, PageFreeKeeps
<1>6. CASE UNCHANGED pagesVars
  BY <1>6 DEF pagesVars, PagesInv, Indexed, CursorsIn, MarkTrue, FreeBlocks, AllPages, DmaTop
<1> QED
  BY <1>2, <1>3, <1>4, <1>5, <1>6 DEF PagesNext

-----------------------------------------------------------------------------
(***************************************************************************)
(* Theorems                                                                *)
(***************************************************************************)
\* The books of the page allocator agree after every call, however many pages
\* the machine has, and the cursors and the mark are where a search needs them.
THEOREM PagesInvariant == ASSUME PagesAssumption PROVE PagesSpec => []PagesInv
<1>1. PagesInit => PagesInv
  BY PagesInitInv
<1>2. PagesInv /\ [PagesNext]_pagesVars => PagesInv'
  BY PagesStep
<1> QED
  BY <1>1, <1>2, PTL DEF PagesSpec

\* The index knows of every aligned block whether all of it is free, also of
\* those at the end of memory, after any calls of page_alloc, page_alloc_below,
\* page_alloc_run, page_alloc_run_below and page_free.
THEOREM IndexStaysTrue == ASSUME PagesAssumption PROVE PagesSpec => []IndexIsTrue
<1>1. PagesInv => IndexIsTrue
  <2> SUFFICES ASSUME PagesInv PROVE IndexIsTrue
    OBVIOUS
  <2>1. normalCursor \in Nat /\ dmaCursor \in Nat
    <3>1. managed \in Nat /\ Split \in Nat
      BY DEF PagesInv, Indexed, PagesAssumption
    <3>2. DmaTop \in Nat
      BY <3>1 DEF DmaTop, Lower
    <3> QED
      BY <3>1, <3>2 DEF PagesInv, CursorsIn
  <2>2. \A o \in Order : level[o] = FreeBlocks(o, busy)
    BY DEF PagesInv, Indexed
  <2> QED
    BY <2>1, <2>2 DEF IndexIsTrue, PagesInv, Indexed, FreeBlocks
<1> QED
  BY <1>1, PagesInvariant, PTL

\* A request of any order, of a page anywhere or below 4 GiB, is refused only
\* when no such page or block is free.
THEOREM FreePagesAreFound == ASSUME PagesAssumption PROVE PagesSpec => []FreeIsFound
<1>1. PagesInv => FreeIsFound
  <2> SUFFICES ASSUME PagesInv PROVE FreeIsFound
    OBVIOUS
  <2>1. Split \in Nat /\ Indexed /\ (\A o \in Order : o \in 0 .. MaxOrder)
    BY DEF PagesInv, PagesAssumption, Order
  <2>2. NextPage = managed => busy = AllPages
    BY NextPageIs
  <2>3. PageBelow(Split) = managed => AllPages \cap (0 .. Split - 1) \subseteq busy
    BY <2>1, BelowFound
  <2>4. ASSUME NEW o \in Order, OrderBlock(o) = managed,
               NEW i \in 0 .. managed \div Size(o) - 1
        PROVE  Run(i * Size(o), Size(o)) \cap busy # {}
    BY <2>1, <2>4, OrderBlockIs
  <2> QED
    BY <2>2, <2>3, <2>4 DEF FreeIsFound
<1> QED
  BY <1>1, PagesInvariant, PTL

\* Both together: however the calls of page_alloc and page_free follow each other,
\* the index is true and a page that is free is found (page_buddy.c, memory.c).
THEOREM MemoryIsSound == ASSUME PagesAssumption PROVE PagesSpec => []MemorySound
  BY IndexStaysTrue, FreePagesAreFound, PTL DEF MemorySound

\* A call gives out only pages that were free, of memory and never the first; a
\* page that is given out stays so until it is freed.
GivesFree == owned' \ owned \subseteq AllPages \ busy /\ busy \ busy' \subseteq owned \ owned'

THEOREM OnlyFreePagesGiven == ASSUME PagesAssumption PROVE PagesSpec => [][GivesFree]_pagesVars
<1>1. ASSUME PagesInv, [PagesNext]_pagesVars PROVE [GivesFree]_pagesVars
  <2> SUFFICES ASSUME PagesNext PROVE GivesFree
    BY <1>1
  <2>1. Indexed /\ managed \in Nat \ {0} /\ Split \in Nat /\ 1 \in Nat \ {0}
    BY <1>1 DEF PagesInv, Indexed, PagesAssumption
  <2>2. ASSUME NEW first, NEW count \in Nat \ {0}, first = managed \/ Givable(first, count), CommitPages(first, count)
        PROVE  GivesFree
    <3>1. Givable(first, count)
      BY <2>1, <2>2, CommitKeeps
    <3>2. Run(first, count) \subseteq AllPages \ busy
      BY <2>1, <3>1 DEF Givable, Run, AllPages
    <3> QED
      BY <2>2, <3>2 DEF CommitPages, GivesFree
  <2>3. CASE PageAlloc
    <3>1. NextPage = managed \/ Givable(NextPage, 1)
      <4> SUFFICES ASSUME NextPage # managed PROVE Givable(NextPage, 1)
        OBVIOUS
      <4>1. NextPage \in AllPages \ busy
        BY <1>1, NextPageIs
      <4>2. NextPage .. NextPage + 1 - 1 = {NextPage}
        BY <2>1, <4>1 DEF AllPages
      <4> QED
        BY <2>1, <4>1, <4>2 DEF Givable, Run, AllPages
    <3> QED
      BY <2>1, <2>2, <2>3, <3>1 DEF PageAlloc
  <2>4. ASSUME NEW top \in {Split, managed}, PageAllocBelow(top) PROVE GivesFree
    BY <1>1, <2>1, <2>2, <2>4, BelowFound DEF PageAllocBelow
  <2>5. ASSUME NEW count \in 1 .. managed, PageAllocRun(count) \/ PageAllocRunBelow(count, Split) PROVE GivesFree
    BY <1>1, <2>1, <2>2, <2>5, RunsFound DEF PageAllocRun, PageAllocRunBelow
  <2>6. ASSUME NEW p \in AllPages, PageFree(p) PROVE GivesFree
    BY <2>6 DEF PageFree, GivesFree
  <2> QED
    BY <2>3, <2>4, <2>5, <2>6 DEF PagesNext
<1>2. PagesInv /\ [PagesNext]_pagesVars => [GivesFree]_pagesVars
  BY <1>1
<1> QED
  BY <1>2, PagesInvariant, PTL DEF PagesSpec
=============================================================================
