------------------------------- MODULE Files --------------------------------
(***************************************************************************)
(* The file system of Nuvora Core as kernel/fs.c and kernel/fs_extent.inc  *)
(* keep it: a table of nodes, open descriptors, and for the files of a     *)
(* data volume lists of extents over its blocks.                           *)
(*                                                                         *)
(*  - nodes     struct node: kind, parent, name, size, extents, data, refs *)
(*  - fd        the descriptors of all processes; cwd of one of them       *)
(*  - blk       the blocks of the volume's data area                       *)
(*  - pins, hint, frozen   struct extent_vol and the volume's restore_error*)
(*  - roots, later         the metadata in the two slots, and the newer one*)
(*                                                                         *)
(* A step is one system call, a save, or a restart with the mount that     *)
(* follows; Store takes saves and power losses apart.  A position, a size  *)
(* and a block are counted in cells: Unit of them make a block.            *)
(***************************************************************************)
EXTENDS Integers, Sequences, FiniteSets, SequencesExt

CONSTANTS
    Name,       \* names of directory entries
    Handle,     \* descriptors of all processes
    Value,      \* what a cell may hold, besides 0
    Unit,       \* cells of a block (PAGE bytes in the code)
    Limits,     \* [nodes, depth, size, end]: FS_NODES, NV_PATH_MAX,
                \* NV_FILE_MAX64 and the number of blocks in the data area
    Closed, Blank

Mode == {"read", "write", "append"}     \* how a file may be open

ASSUME FilesAssumption ==
    /\ Unit \in Nat \ {0} /\ Value \subseteq Nat \ {0}
    /\ Limits \subseteq [nodes : Nat \ {0, 1}, depth : Nat, size : Nat, end : Nat]
    /\ IsFiniteSet(Handle)
    /\ Closed \notin [node : Nat, mode : Mode, offset : Nat]

VARIABLES
    limits, disk,                       \* the machine: its limits, has it a data disk?
    nodes, fd, cwd,                     \* kernel/fs.c
    pins, hint, frozen, active,         \* kernel/fs_extent.inc and kernel/store.c
    blk, roots, later                   \* the medium

machine == <<limits, disk>>
medium  == <<blk, roots, later>>
volume  == <<pins, hint, frozen, active>>
vars    == <<machine, nodes, fd, cwd, volume, medium>>

Least(S) == CHOOSE x \in S : \A y \in S : x <= y
Most(S)  == CHOOSE x \in S : \A y \in S : x >= y

(***************************************************************************)
(* The tree.  Tables of nodes are parameters, because an import builds one *)
(* and a move is taken back when a path becomes too long.                  *)
(***************************************************************************)
Home  == 1
Tmp   == 2
Root  == {Home, Tmp}
Slots == 1 .. limits.nodes

NoNode == [kind |-> "free", parent |-> 0, name |-> "", size |-> 0,
           extents |-> <<>>, data |-> <<>>, refs |-> 0]
Fresh(kind, parent, name) == [NoNode EXCEPT !.kind = kind, !.parent = parent, !.name = name]
Empty == [n \in Slots |-> IF n = Home THEN Fresh("dir", 0, "home")
                          ELSE IF n = Tmp THEN Fresh("dir", 0, "tmp") ELSE NoNode]

Used(t)        == {n \in Slots : t[n].kind # "free"}
Child(t, p, x) == {n \in Used(t) : t[n].parent = p /\ t[n].name = x}
Children(t, p) == {n \in Used(t) : t[n].parent = p}

\* the way up: the node itself, the directories above it, and then 0.  No path
\* that fits into NV_PATH_MAX leads further.
Above(t, n) ==
    LET up[k \in 0 .. limits.depth + 1] ==
            IF k = 0 THEN n ELSE IF up[k - 1] = 0 THEN 0 ELSE t[up[k - 1]].parent
    IN  up
Descendant(t, n, a) == \E k \in 0 .. limits.depth : Above(t, n)[k] = a
Volume(t, n)        == IF Descendant(t, n, Home) THEN Home ELSE Tmp
Depth(t, n)         == CHOOSE d \in 0 .. limits.depth : Above(t, n)[d] \in Root
Path(t, n) ==
    LET d == Depth(t, n)
    IN  IF n \in Used(t) THEN [i \in 1 .. d + 1 |-> t[Above(t, n)[d + 1 - i]].name] ELSE <<>>
\* fs_path fails: the path is too long
TooLong(t, n) == Above(t, n)[limits.depth + 1] # 0
\* fs_lookup: the node a path leads to
NodeAt(t, path) == CHOOSE n \in Used(t) : Path(t, n) = path

\* create_node may succeed below p
MayCreate(t, p, x) ==
    /\ t[p].kind = "dir"
    /\ Above(t, p)[limits.depth] = 0
    /\ Child(t, p, x) = {}
    /\ Used(t) # Slots
FreeSlot(t) == Least(Slots \ Used(t))

\* mutation_error: the volume is frozen after an unsettled save
Mutable(n) == Volume(nodes, n) = Home /\ disk => ~frozen
InUse(n)   == nodes[n].refs # 0 \/ cwd = n
Opened(t, n) == [t EXCEPT ![n].refs = @ + 1]

(***************************************************************************)
(* Extents: runs of blocks, in the order of the file.                      *)
(***************************************************************************)
Blocks(cells) == (cells + Unit - 1) \div Unit

Covers(e, b) == e.logical <= b /\ b < e.logical + e.blocks
\* extent_read of one cell; what no extent covers is zero
CellOf(map, c, cells) ==
    LET over == {i \in DOMAIN map : Covers(map[i], c \div Unit)}
    IN  IF over = {} THEN 0
        ELSE LET e == map[Least(over)]
             IN  cells[e.physical + c \div Unit - e.logical][c % Unit]

OnDisk(t, n) == Volume(t, n) = Home /\ disk
\* file_copy of the whole file
BytesOf(t, n, cells) ==
    IF OnDisk(t, n) THEN [i \in 1 .. t[n].size |-> CellOf(t[n].extents, i - 1, cells)]
    ELSE t[n].data

Meets(e, at, n) == at < e.physical + e.blocks /\ e.physical < at + n
\* every run that may not be overwritten: the pins of both roots, the files
Taken == pins[0] \cup pins[1] \cup UNION {ToSet(nodes[n].extents) : n \in Slots}
Skip(at, n) == Most({at} \cup {e.physical + e.blocks : e \in {x \in Taken : Meets(x, at, n)}})

NoSpace == -1
Search(from, n) ==
    LET found[at \in 0 .. limits.end] ==
            IF n > limits.end - at THEN NoSpace
            ELSE IF Skip(at, n) = at THEN at ELSE found[Skip(at, n)]
    IN  found[from]
\* extent_allocate: first from the hint on, then from the beginning
Allocate(n) == IF Search(hint, n) # NoSpace THEN Search(hint, n) ELSE Search(0, n)

\* extent_add joins a run to the last one when both go on where it ends
Added(map, e) ==
    IF e.blocks = 0 THEN map
    ELSE IF map # <<>> /\ Last(map).logical + Last(map).blocks = e.logical
                       /\ Last(map).physical + Last(map).blocks = e.physical
    THEN [map EXCEPT ![Len(map)].blocks = @ + e.blocks]
    ELSE Append(map, e)
Joined(pieces) ==
    LET map[i \in 0 .. Len(pieces)] == IF i = 0 THEN <<>> ELSE Added(map[i - 1], pieces[i])
    IN  map[Len(pieces)]

\* what a run has before a block, and from a block on
Before(e, first) ==
    [e EXCEPT !.blocks = IF first < e.logical THEN 0
                         ELSE IF @ < first - e.logical THEN @ ELSE first - e.logical]
After(e, end) ==
    LET cut == IF end < e.logical THEN 0 ELSE IF e.blocks < end - e.logical THEN e.blocks
               ELSE end - e.logical
    IN  [logical |-> e.logical + cut, physical |-> e.physical + cut, blocks |-> e.blocks - cut]
\* mutated: what is left of an old run behind the new one is the whole run
RemappedWhole(map, first, end, at) ==
    Joined([i \in DOMAIN map |-> Before(map[i], first)]
           \o <<[logical |-> first, physical |-> at, blocks |-> end - first]>>
           \o SelectSeq(map, LAMBDA e : e.logical + e.blocks > end))
\* the map of a file whose blocks first .. end-1 have moved to at
Remapped(map, first, end, at) ==
    Joined([i \in DOMAIN map |-> Before(map[i], first)]
           \o <<[logical |-> first, physical |-> at, blocks |-> end - first]>>
           \o [i \in DOMAIN map |-> After(map[i], end)])

(***************************************************************************)
(* Metadata: what a save writes and a mount reads.                         *)
(***************************************************************************)
\* fs_extent_export: parents first, then in the order of the node table
Inside(t) == {n \in Used(t) \ {Home} : Descendant(t, n, Home)}
Foremost(t, S) ==
    CHOOSE n \in S : \A m \in S : Depth(t, n) < Depth(t, m) \/ (Depth(t, n) = Depth(t, m) /\ n <= m)
Exported(t) ==
    LET left[i \in 0 .. Cardinality(Inside(t))] ==
            IF i = 0 THEN Inside(t) ELSE left[i - 1] \ {Foremost(t, left[i - 1])}
        Entry(n) == [path |-> Path(t, n), kind |-> t[n].kind, size |-> t[n].size,
                     extents |-> t[n].extents]
    IN  [i \in 1 .. Cardinality(Inside(t)) |-> Entry(Foremost(t, left[i - 1]))]
PinsOf(stream) == UNION {ToSet(stream[i].extents) : i \in DOMAIN stream}

\* the checks of fs_extent_import, which come before any change
AcceptsExtents(stream, i) ==
    LET map == stream[i].extents
        fileBlocks == Blocks(stream[i].size)
        EndOf(j) == IF j = 0 THEN 0 ELSE map[j].logical + map[j].blocks
        Earlier(j) == {map[k] : k \in 1 .. j - 1}
                      \cup UNION {ToSet(stream[k].extents) : k \in 1 .. i - 1}
    IN  \A j \in DOMAIN map :
            /\ map[j].blocks > 0 /\ map[j].logical >= EndOf(j - 1)
            /\ map[j].logical + map[j].blocks <= fileBlocks
            /\ map[j].physical \in 0 .. limits.end - 1
            /\ map[j].physical + map[j].blocks <= limits.end
            /\ \A e \in Earlier(j) : ~Meets(e, map[j].physical, map[j].blocks)
Accepts(stream) ==
    /\ Len(stream) < limits.nodes
    /\ \A i \in DOMAIN stream :
          LET e == stream[i] IN
          /\ e.size <= limits.size
          /\ e.kind = "dir" => e.size = 0 /\ e.extents = <<>>
          /\ Len(e.path) - 1 \in 1 .. limits.depth /\ e.path[1] = "home"
          /\ \A j \in 1 .. i - 1 : stream[j].path # e.path
          /\ Len(e.path) > 2 =>
                \E j \in 1 .. i - 1 : stream[j].kind = "dir" /\ stream[j].path = Front(e.path)
          /\ AcceptsExtents(stream, i)

\* and its changes: one node after the other, each in the first free slot
Imported(stream) ==
    LET built[i \in 0 .. Len(stream)] ==
            IF i = 0 THEN Empty
            ELSE LET t == built[i - 1]
                     e == stream[i]
                 IN  [t EXCEPT ![FreeSlot(t)] =
                         [Fresh(e.kind, NodeAt(t, Front(e.path)), Last(e.path)) EXCEPT
                             !.size = e.size, !.extents = e.extents]]
    IN  built[Len(stream)]

(***************************************************************************)
(* The machine starts with an empty disk, or none.                         *)
(***************************************************************************)
Init ==
    /\ limits \in Limits
    /\ disk \in BOOLEAN
    /\ nodes = Empty
    /\ fd = [h \in Handle |-> Closed]
    /\ cwd = Home
    /\ pins = [s \in {0, 1} |-> {}]
    /\ hint = 0
    /\ frozen = FALSE
    /\ active = -1
    /\ blk = [b \in 0 .. limits.end - 1 |-> [c \in 0 .. Unit - 1 |-> 0]]
    /\ roots = [s \in {0, 1} |-> Blank]
    /\ later = 0

(***************************************************************************)
(* Calls on descriptors                                                    *)
(***************************************************************************)
Descriptor(n, mode, size) ==
    [node |-> n, mode |-> mode, offset |-> IF mode = "append" THEN size ELSE 0]

\* fs_open of a node that is there; trunc is NV_TRUNC
Open(h, n, mode, trunc) ==
    /\ fd[h] = Closed
    /\ n \in Used(nodes) /\ nodes[n].kind = "file"
    /\ trunc => mode # "read" /\ Mutable(n)
    /\ LET t == IF trunc THEN [nodes EXCEPT ![n].extents = <<>>, ![n].data = <<>>, ![n].size = 0]
                ELSE nodes
       IN  /\ nodes' = Opened(t, n)
           /\ fd' = [fd EXCEPT ![h] = Descriptor(n, mode, t[n].size)]
    /\ UNCHANGED <<machine, cwd, volume, medium>>

\* fs_open with NV_CREATE of a name that is not there
OpenNew(h, p, x, mode) ==
    /\ fd[h] = Closed /\ mode # "read"
    /\ p \in Used(nodes) /\ Mutable(p) /\ MayCreate(nodes, p, x)
    /\ LET n == FreeSlot(nodes)
       IN  /\ nodes' = Opened([nodes EXCEPT ![n] = Fresh("file", p, x)], n)
           /\ fd' = [fd EXCEPT ![h] = Descriptor(n, mode, 0)]
    /\ UNCHANGED <<machine, cwd, volume, medium>>

OpenDirectory(h, n) ==
    /\ fd[h] = Closed
    /\ n \in Used(nodes) /\ nodes[n].kind = "dir"
    /\ nodes' = Opened(nodes, n)
    /\ fd' = [fd EXCEPT ![h] = Descriptor(n, "read", 0)]
    /\ UNCHANGED <<machine, cwd, volume, medium>>

Close(h) ==
    /\ fd[h] # Closed
    /\ nodes' = [nodes EXCEPT ![fd[h].node].refs = @ - 1]
    /\ fd' = [fd EXCEPT ![h] = Closed]
    /\ UNCHANGED <<machine, cwd, volume, medium>>

\* fs_seek64; the position in a directory is left out
Seek(h, at) ==
    /\ fd[h] # Closed /\ nodes[fd[h].node].kind = "file"
    /\ at \in 0 .. limits.size
    /\ fd' = [fd EXCEPT ![h].offset = at]
    /\ UNCHANGED <<machine, nodes, cwd, volume, medium>>

Read(h, length) ==
    /\ fd[h] # Closed /\ nodes[fd[h].node].kind = "file"
    /\ LET left == nodes[fd[h].node].size - fd[h].offset
       IN  /\ left > 0
           /\ fd' = [fd EXCEPT ![h].offset = @ + (IF length < left THEN length ELSE left)]
    /\ UNCHANGED <<machine, nodes, cwd, volume, medium>>

\* Where fs_write puts the bytes, and how long the file is afterwards
WriteAt(h) == IF fd[h].mode = "append" THEN nodes[fd[h].node].size ELSE fd[h].offset
Longer(size, end) == IF size > end THEN size ELSE end
MayWrite(h, length) ==
    /\ fd[h] # Closed /\ fd[h].mode # "read"
    /\ WriteAt(h) + length <= limits.size

\* fs_write to a file that memory holds: all pages are there before it changes
WriteMemory(h, length, v) ==
    /\ MayWrite(h, length) /\ ~OnDisk(nodes, fd[h].node)
    /\ LET n    == fd[h].node
           at   == WriteAt(h)
           size == Longer(nodes[n].size, at + length)
       IN  /\ nodes' = [nodes EXCEPT ![n].size = size, ![n].data =
                 [i \in 1 .. size |-> IF i \in at + 1 .. at + length THEN v
                                      ELSE IF i \in DOMAIN nodes[n].data THEN nodes[n].data[i] ELSE 0]]
           /\ fd' = [fd EXCEPT ![h].offset = at + length]
    /\ UNCHANGED <<machine, cwd, volume, medium>>

\* mutated: a block that is not all input is not read first
NewCellBlank(n, at, length, v, c) == IF at <= c /\ c < at + length THEN v ELSE 0
\* The cell c of a file as extent_write puts it into its new block: the input,
\* what the file had if the block is not all input, or zero
NewCell(n, at, length, v, c) ==
    LET base    == (c \div Unit) * Unit
        partial == base < at \/ at + length < base + Unit
    IN  IF at <= c /\ c < at + length THEN v
        ELSE IF partial /\ base < nodes[n].size /\ c < nodes[n].size
             THEN CellOf(nodes[n].extents, c, blk) ELSE 0

\* extent_write: the new blocks, of which the drive has taken `taken' cells
\* when the call succeeds or gives up
WriteExtents(h, length, v, taken) ==
    /\ MayWrite(h, length) /\ OnDisk(nodes, fd[h].node) /\ ~frozen
    /\ LET n     == fd[h].node
           at    == WriteAt(h)
           first == at \div Unit
           end   == Blocks(at + length)
           where == Allocate(end - first)
           cells == (end - first) * Unit
           Now(b, c) == LET k == (b - where) * Unit + c
                        IN  IF k \in 0 .. taken - 1 THEN NewCell(n, at, length, v, first * Unit + k)
                            ELSE blk[b][c]
       IN  /\ where # NoSpace /\ taken \in 0 .. cells
           /\ hint' = where + end - first
           /\ blk' = [b \in DOMAIN blk |-> [c \in 0 .. Unit - 1 |-> Now(b, c)]]
           /\ IF taken = cells
              THEN /\ nodes' = [nodes EXCEPT
                         ![n].size = Longer(nodes[n].size, at + length),
                         ![n].extents = Remapped(nodes[n].extents, first, end, where)]
                   /\ fd' = [fd EXCEPT ![h].offset = at + length]
              ELSE UNCHANGED <<nodes, fd>>
    /\ UNCHANGED <<machine, cwd, pins, frozen, active, roots, later>>

(***************************************************************************)
(* Calls on paths                                                          *)
(***************************************************************************)
MakeDirectory(p, x) ==
    /\ p \in Used(nodes) /\ Mutable(p) /\ MayCreate(nodes, p, x)
    /\ nodes' = [nodes EXCEPT ![FreeSlot(nodes)] = Fresh("dir", p, x)]
    /\ UNCHANGED <<machine, fd, cwd, volume, medium>>

Chdir(n) ==
    /\ n \in Used(nodes) /\ nodes[n].kind = "dir" /\ n # cwd
    /\ cwd' = n
    /\ UNCHANGED <<machine, nodes, fd, volume, medium>>

RemoveNode(n) ==
    /\ n \in Used(nodes) \ Root /\ Mutable(n)
    /\ ~InUse(n) /\ Children(nodes, n) = {}
    /\ nodes' = [nodes EXCEPT ![n] = NoNode]
    /\ UNCHANGED <<machine, fd, cwd, volume, medium>>

Renamed(n, p, x) == [nodes EXCEPT ![n].parent = p, ![n].name = x]
\* fs_move, which takes the new name back when a path below it gets too long
Move(n, p, x) ==
    /\ n \in Used(nodes) \ Root /\ p \in Used(nodes)
    /\ Volume(nodes, n) = Volume(nodes, p)
    /\ nodes[p].kind = "dir" /\ ~Descendant(nodes, p, n)
    /\ Child(nodes, p, x) = {} /\ Mutable(n)
    /\ \A i \in Used(nodes) : Descendant(nodes, i, n) =>
          ~TooLong(Renamed(n, p, x), i)
    /\ nodes' = Renamed(n, p, x)
    /\ UNCHANGED <<machine, fd, cwd, volume, medium>>

\* fs_replace: the file that had the name goes
Replace(n, p, x) ==
    /\ n \in Used(nodes) /\ p \in Used(nodes)
    /\ nodes[n].kind = "file" /\ nodes[p].kind = "dir"
    /\ Volume(nodes, n) = Volume(nodes, p)
    /\ n \notin Child(nodes, p, x)
    /\ \A o \in Child(nodes, p, x) : nodes[o].kind = "file" /\ nodes[o].refs = 0
    /\ nodes[n].refs = 0 /\ Mutable(n)
    /\ Above(nodes, p)[limits.depth] = 0
    /\ nodes' = [i \in Slots |-> IF i \in Child(nodes, p, x) THEN NoNode ELSE Renamed(n, p, x)[i]]
    /\ UNCHANGED <<machine, fd, cwd, volume, medium>>

(***************************************************************************)
(* Saves and restarts                                                      *)
(***************************************************************************)
Spare == IF active = 0 THEN 1 ELSE 0

Save ==
    /\ disk /\ ~frozen
    /\ roots' = [roots EXCEPT ![Spare] = Exported(nodes)]
    /\ later' = Spare
    /\ pins' = [pins EXCEPT ![Spare] = PinsOf(Exported(nodes))]
    /\ active' = Spare
    /\ UNCHANGED <<machine, nodes, fd, cwd, hint, frozen, blk>>

\* It ends before the commit header: the spare root is gone, its pins are not.
SaveFails ==
    /\ disk /\ ~frozen
    /\ roots' = [roots EXCEPT ![Spare] = Blank]
    /\ UNCHANGED <<machine, nodes, fd, cwd, volume, blk, later>>

\* It ends after the header was sent: nobody knows whether it arrived.
SaveUnsettled ==
    /\ disk /\ ~frozen
    /\ \E root \in {Blank, Exported(nodes)} :
          /\ roots' = [roots EXCEPT ![Spare] = root]
          /\ later' = IF root = Blank THEN later ELSE Spare
    /\ frozen' = TRUE
    /\ UNCHANGED <<machine, nodes, fd, cwd, pins, hint, active, blk>>

\* the slots whose root a mount accepts, and the one it activates, if any
Valid(r)         == {s \in {0, 1} : IF r[s] = Blank THEN FALSE ELSE Accepts(r[s])}
Activated(r, l)  == IF Valid(r) = {} THEN -1 ELSE IF l \in Valid(r) THEN l ELSE Least(Valid(r))
MountedTree(r, l) == IF Valid(r) = {} THEN Empty ELSE Imported(r[Activated(r, l)])

\* The power goes; store_init enables the area, pins both roots, activates one.
Restart ==
    /\ nodes' = MountedTree(roots, later)
    /\ pins' = [s \in {0, 1} |-> IF s \in Valid(roots) THEN PinsOf(roots[s]) ELSE {}]
    /\ active' = Activated(roots, later)
    /\ frozen' = (Valid(roots) = {} /\ \E s \in {0, 1} : roots[s] # Blank)
    /\ hint' = 0
    /\ fd' = [h \in Handle |-> Closed]
    /\ cwd' = Home
    /\ UNCHANGED <<machine, medium>>

\* What changes no file, what changes one, and what changes the tree or a place in it
Descriptors ==
    \E h \in Handle :
        \/ \E n \in Slots, mode \in Mode : Open(h, n, mode, FALSE)
        \/ \E n \in Slots : OpenDirectory(h, n)
        \/ Close(h)
        \/ \E at \in 0 .. limits.size : Seek(h, at)
        \/ \E length \in 1 .. limits.size : Read(h, length)
Writes ==
    \E h \in Handle :
        \/ \E n \in Slots, mode \in Mode : Open(h, n, mode, TRUE)
        \/ \E length \in 1 .. limits.size, v \in Value : WriteMemory(h, length, v)
        \/ \E length \in 1 .. limits.size, v \in Value,
               taken \in 0 .. (Blocks(limits.size) + 1) * Unit : WriteExtents(h, length, v, taken)
Paths ==
    \/ \E h \in Handle, p \in Slots, x \in Name, mode \in Mode : OpenNew(h, p, x, mode)
    \/ \E p \in Slots, x \in Name : MakeDirectory(p, x)
    \/ \E n \in Slots : Chdir(n) \/ RemoveNode(n)
    \/ \E n \in Slots, p \in Slots, x \in Name : Move(n, p, x) \/ Replace(n, p, x)
Saves == Save \/ SaveFails \/ SaveUnsettled

Next == Descriptors \/ Writes \/ Paths \/ Saves \/ Restart

Spec == Init /\ [][Next]_vars

(***************************************************************************)
(* Properties                                                              *)
(***************************************************************************)
\* The types, and what the descriptors rest on: a node counts exactly the
\* descriptors on it, so that what is open or somebody's directory is never
\* freed (fs_remove, fs_replace), and the way up from every node in use leads
\* over directories to a root.
TreeSound ==
    /\ nodes \in [Slots -> [kind : {"free", "file", "dir"}, parent : Slots \cup {0},
                            name : Name \cup {"", "home", "tmp"}, size : 0 .. limits.size,
                            extents : Seq([logical : Nat, physical : Nat, blocks : Nat]),
                            data : Seq(Value \cup {0}), refs : 0 .. Cardinality(Handle)]]
    /\ hint \in 0 .. limits.end
    /\ \A n \in Slots : nodes[n].refs = Cardinality({h \in Handle : fd[h] # Closed /\ fd[h].node = n})
    /\ \A h \in Handle : fd[h] # Closed => fd[h].node \in Used(nodes)
    /\ cwd \in Used(nodes) /\ nodes[cwd].kind = "dir"
    /\ \A n \in Used(nodes) \ Root :
          nodes[nodes[n].parent].kind = "dir" /\ \E r \in Root : Descendant(nodes, n, r)

\* fs_extent_import would accept what fs_extent_export writes of the tree and
\* its extents now: no save can produce a root that the next start rejects.
SavesAccepted == disk => Accepts(Exported(nodes))

\* The search finds a run of free blocks whenever there is one of that length,
\* wherever the hint stands, and what it finds is free and inside the area
\* (extent_allocate).
RunsAreFound ==
    \A n \in 1 .. limits.end :
        LET free == {at \in 0 .. limits.end - n : \A e \in Taken : ~Meets(e, at, n)}
        IN  Allocate(n) \in free \/ (free = {} /\ Allocate(n) = NoSpace)

\* What a program sees of a table of nodes, and would see after a restart
Contents(t, cells) ==
    LET path == [n \in Used(t) |-> Path(t, n)]
    IN  [p \in Range(path) |->
            LET n == CHOOSE m \in Used(t) : path[m] = p
            IN  [kind |-> t[n].kind, bytes |-> BytesOf(t, n, cells)]]
SavedTree(r, l, cells) ==
    LET c == Contents(MountedTree(r, l), cells)
    IN  [p \in {q \in DOMAIN c : q[1] = "home"} |-> c[p]]
Handles(t, descriptors) ==
    [h \in Handle |->
        LET d == descriptors[h]
        IN  IF d = Closed THEN Closed ELSE [path |-> Path(t, d.node), at |-> d.offset, mode |-> d.mode]]

\* The tree can be used, saved and mounted, and free blocks are found, after any
\* calls, saves and restarts (fs.c, fs_extent.inc).
FilesSound == TreeSound /\ SavesAccepted /\ RunsAreFound
=============================================================================
