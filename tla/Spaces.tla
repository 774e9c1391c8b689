------------------------------- MODULE Spaces -------------------------------
(***************************************************************************)
(* Address spaces: the page tables of kernel/memory64.c, and on top of     *)
(* them the mappings of a Linux program (compat/linux/linux_memory.h), its *)
(* heap and image (task.c), and a second process with its kernel stack.    *)
(*                                                                         *)
(* Addresses are counted in pages.  Which free page is taken is left to    *)
(* Pages: nothing here depends on it.                                      *)
(***************************************************************************)
EXTENDS Integers, Sequences, FiniteSets, SequencesExt

CONSTANTS Memory,             \* numbers of pages that programs may have
          Levels, Fan,        \* levels of page tables (4) and entries of one (512)
          HeapMax, MapBase,   \* pages of a heap; where mappings begin
          VmaMax, MemoryMax,  \* LINUX_VMAS, LINUX_MEMORY_MAX
          StackPages,         \* KSTACK_PAGES
          Kinds, None, Kernel

VARIABLES mem,    \* free pages; the entries or the data of the others; a panic
          root, maps, heap,   \* the Linux program: pd, maps, pages of heap
          other, stack,       \* another process: pd, pages of its kernel stack
          failed              \* the last call has failed
spacesVars == <<mem, root, maps, heap, other, stack, failed>>

Slot    == 0 .. Fan - 1
UserMin == Fan ^ (Levels - 2)     \* the rest of the first table's table is the kernel's
UserEnd == Fan ^ Levels
Image   == UserMin
Heap    == UserMin + 1
Pages(start, end) == [n \in 1 .. end - start |-> start + n - 1]
Lesser(x, y)  == IF x < y THEN x ELSE y
Greater(x, y) == IF x > y THEN x ELSE y

(***************************************************************************)
(* Pages and tables (memory.c, memory64.c)                                 *)
(***************************************************************************)
Out(m)  == m.free = {}
Next1(m) == CHOOSE p \in m.free : \A q \in m.free : p <= q
Alloc(m) == [m EXCEPT !.free = @ \ {Next1(m)}, !.data[Next1(m)] = "zero",
                      !.at[Next1(m)] = [i \in Slot |-> None]]
Free(m, p) == [m EXCEPT !.free = @ \cup {p}, !.panic = @ \/ p \in m.free]

Index(va, d)  == (va \div Fan ^ (d - 1)) % Fan
Entry(p, can) == [to |-> p, can |-> can]
IsPage(e)     == e \notin {None, Kernel}
IsTable(e)    == IsPage(e) /\ "user" \in e.can
Empty(m, t)   == \A i \in Slot : m.at[t][i] = None
AllTables     == {"user", "write"}

\* the tables on the way to an address, as far as they go
RECURSIVE Tables(_, _, _, _)
Tables(m, t, va, d) ==
    LET e == m.at[t][Index(va, d)]
    IN  <<t>> \o IF d > 1 /\ IsTable(e) THEN Tables(m, e.to, va, d - 1) ELSE <<>>
Path(m, pd, va) == Tables(m, pd, va, Levels)
Leaf(m, pd, va) == LET ts == Path(m, pd, va)
                   IN  IF Len(ts) < Levels THEN None ELSE m.at[Last(ts)][Index(va, 1)]
Set(m, pd, va, e) == [m EXCEPT !.at[Last(Path(m, pd, va))][Index(va, 1)] = e]

\* leaf(..., true): the tables up to an address, made where they are missing
Grown(m, pd, va) ==
    LET Deeper(s, d) ==
            LET e == s.m.at[s.t][Index(va, d)]
            IN  IF s.ok /\ e = None /\ ~Out(s.m)
                THEN [s EXCEPT !.t = Next1(s.m),
                               !.m = [Alloc(s.m) EXCEPT !.at[s.t][Index(va, d)] = Entry(Next1(s.m), AllTables)]]
                ELSE IF s.ok /\ IsPage(e) /\ IsTable(e) THEN [s EXCEPT !.t = e.to]
                ELSE [s EXCEPT !.ok = FALSE]
    IN  FoldLeft(Deeper, [m |-> m, t |-> pd, ok |-> TRUE], [n \in 1 .. Levels - 1 |-> Levels - n + 1])

\* vm_unmap: the page, and the tables that are empty without it
Pruned(m, ts, va) ==
    LET Prune(s, n) ==      \* the table n from the end of the way
            LET t == ts[Len(ts) - n + 1]
                above == ts[Len(ts) - n]
                at == Index(va, Levels - Len(ts) + n + 1)
            IN  IF s.on /\ Empty(s.m, t) THEN [s EXCEPT !.m = Free([@ EXCEPT !.at[above][at] = None], t)]
                ELSE [s EXCEPT !.on = FALSE]
    IN  FoldLeft(Prune, [m |-> m, on |-> TRUE], [n \in 1 .. Len(ts) - 1 |-> n]).m
Without(m, pd, va, e) == IF e = None THEN m ELSE Free(Set(m, pd, va, None), e.to)
Unmapped(m, pd, va)   == Pruned(Without(m, pd, va, Leaf(m, pd, va)), Path(m, pd, va), va)

\* vm_map and vm_prepare
OrNot(r, pd, va) == [m |-> IF r.ok THEN r.m ELSE Unmapped(r.m, pd, va), ok |-> r.ok]
Filled(g, pd, va, can) ==
    IF Out(g.m) THEN [g EXCEPT !.ok = FALSE]
    ELSE [g EXCEPT !.m = Set(Alloc(@), pd, va, Entry(Next1(@), can))]
Taken(g, pd, va) == g.ok /\ Leaf(g.m, pd, va) # None
Put(g, pd, va, can) ==
    IF Taken(g, pd, va) THEN [g EXCEPT !.ok = FALSE]
    ELSE OrNot(IF g.ok THEN Filled(g, pd, va, can) ELSE g, pd, va)
Prepared(m, pd, va)    == OrNot(Grown(m, pd, va), pd, va)
Mapped(m, pd, va, can) == Put(Grown(m, pd, va), pd, va, can)
\* a step for each address, up to the first that fails
Each(Step(_, _), m, vas) ==
    LET Do(s, va) == IF s.ok THEN Step(s.m, va) ELSE s
    IN  FoldLeft(Do, [m |-> m, ok |-> TRUE], vas)

\* vm_move_page
Moved(m, to, from, va) ==
    Set(Set(Without(m, to, va, Leaf(m, to, va)), to, va, Leaf(m, from, va)), from, va, None)

\* visit_range: the addresses of a range with a page, and the range unmapped
Present(m, pd, vas) == SelectSeq(vas, LAMBDA va : Leaf(m, pd, va) # None)
RECURSIVE Swept(_, _, _, _, _, _)
Swept(m, t, d, base, start, end) ==
    LET Visit(s, i) ==
            LET at == base + i * Fan ^ (d - 1)
                e  == s.at[t][i]
                cleared(x) == Free([x EXCEPT !.at[t][i] = None], e.to)
                orNot(deep) == IF Empty(deep, e.to) THEN cleared(deep) ELSE deep
            IN  IF at >= end \/ at + Fan ^ (d - 1) <= start \/ ~IsPage(e) \/ (d > 1 /\ ~IsTable(e)) THEN s
                ELSE IF d = 1 THEN cleared(s)
                ELSE orNot(Swept(s, e.to, d - 1, at, start, end))
    IN  FoldLeft(Visit, m, [n \in 1 .. Fan |-> n - 1])
UnmappedRange(m, pd, start, end) == Swept(m, pd, Levels, 0, start, end)
\* mutated: pages that nobody may touch are passed over
ChangedUser(m, pd, start, end, can) ==
    LET Change(s, va) == IF IsTable(Leaf(s, pd, va)) THEN Set(s, pd, va, [Leaf(s, pd, va) EXCEPT !.can = can]) ELSE s
    IN  FoldLeft(Change, m, Present(m, pd, Pages(start, end)))
ChangedRange(m, pd, start, end, can) ==
    LET Change(s, va) == Set(s, pd, va, [Leaf(s, pd, va) EXCEPT !.can = can])
    IN  FoldLeft(Change, m, Present(m, pd, Pages(start, end)))
ClearedRange(m, pd, start, end) ==
    LET Clear(s, va) == [s EXCEPT !.data[Leaf(s, pd, va).to] = "zero"]
    IN  FoldLeft(Clear, m, Present(m, pd, Pages(start, end)))

\* vm_create, and vm_destroy with walk_user: a page that a program may not
\* touch is its page all the same
Created(m) == IF Cardinality(m.free) < 2 THEN [m |-> m, ok |-> FALSE]
              ELSE LET pd == Next1(m)
                       l3 == Next1(Alloc(m))
                   IN  [m |-> [Alloc(Alloc(m)) EXCEPT !.at[pd][0] = Entry(l3, AllTables), !.at[l3][0] = Kernel],
                        ok |-> TRUE, pd |-> pd]
\* mutated: as for tables
WalksUser(e, d) == IsTable(e)
Walks(e, d) == IsPage(e) /\ (d = 1 \/ IsTable(e))
RECURSIVE Destroy(_, _, _)
Destroy(m, t, d) ==
    LET Visit(s, i) == LET e == s.at[t][i]
                       IN  IF ~Walks(e, d) THEN s
                           ELSE Free(IF d = 1 THEN s ELSE Destroy(s, e.to, d - 1), e.to)
    IN  FoldLeft(Visit, m, [n \in 1 .. Fan |-> n - 1])
Destroyed(m, pd) == IF pd = None THEN m ELSE Free(Destroy(m, pd, Levels), pd)

(***************************************************************************)
(* Mappings (linux_memory.h)                                               *)
(***************************************************************************)
User  == MapBase .. UserEnd - 1
Ranges == {r \in User \X (MapBase + 1 .. UserEnd) : r[1] < r[2]}
Count(m) == Len(Present(m, root, Pages(UserMin, UserEnd)))     \* mapped_bytes
Can(prot) == CASE prot = "none" -> {} [] prot = "read" -> {"user"} [] OTHER -> {"user", "write"}
Vma(start, end, prot, kind) == [start |-> start, end |-> end, prot |-> prot, kind |-> kind]

\* linux_plan_add, for one mapping after the other
Planned(parts) ==
    LET Add(p, v) ==
            IF ~p.ok \/ v.start >= v.end THEN p
            ELSE LET joins == p.maps # <<>> /\ LET l == Last(p.maps)
                                               IN l.end = v.start /\ l.prot = v.prot /\ l.kind = v.kind
                 IN  IF p.maps # <<>> /\ Last(p.maps).end > v.start THEN [p EXCEPT !.ok = FALSE]
                     ELSE IF joins THEN [p EXCEPT !.maps[Len(p.maps)].end = v.end]
                     ELSE IF Len(p.maps) = VmaMax THEN [p EXCEPT !.ok = FALSE]
                     ELSE [p EXCEPT !.maps = Append(@, v)]
    IN  FoldLeft(Add, [maps |-> <<>>, ok |-> TRUE], parts)
Within(v, start, end) == [v EXCEPT !.start = Greater(@, start), !.end = Lesser(@, end)]
Cut(start, end) == [n \in 1 .. Len(maps) |-> Within(maps[n], start, end)]
\* linux_plan_replace and linux_plan_protect
Replaced(start, end, fresh) == Planned(Cut(0, start) \o fresh \o Cut(end, UserEnd))
Reprotected(start, end, prot) ==
    Planned(Cut(0, start) \o [n \in 1 .. Len(maps) |-> [Cut(start, end)[n] EXCEPT !.prot = prot]]
            \o Cut(end, UserEnd))
Overlap(start, end) == {n \in 1 .. Len(maps) : maps[n].start < end /\ start < maps[n].end}
Owned(start, end, kinds) ==
    \A va \in start .. end - 1 :
        \E n \in 1 .. Len(maps) : va \in maps[n].start .. maps[n].end - 1 /\ maps[n].kind \in kinds
\* linux_find_hole
Hole(hint, size) ==
    LET Pass(s, v) == IF s.found \/ s.at >= v.end THEN s
                      ELSE IF s.at < v.start /\ size <= v.start - s.at THEN [s EXCEPT !.found = TRUE]
                      ELSE [s EXCEPT !.at = v.end]
        h == FoldLeft(Pass, [at |-> hint, found |-> FALSE], maps)
    IN  IF h.found \/ size <= UserEnd - h.at THEN h.at ELSE None

\* linux_commit_pages, with linux_prune_empty when it fails
\* mutated: what was prepared is left
PrunedNothing(m, start, end) == m
PrunedEmpty(m, start, end) ==
    LET Prune(s, va) == IF Leaf(s, root, va) = None THEN Unmapped(s, root, va) ELSE s
    IN  FoldLeft(Prune, m, Pages(start, end))
Committed(m, staged, start, end) ==
    LET vas == Present(m, staged, Pages(start, end))
        Prepare(s, va) == Prepared(s, root, va)
        Move(s, va) == Moved(s, root, staged, va)
        after(p) == [p EXCEPT !.m = IF p.ok THEN FoldLeft(Move, @, vas) ELSE PrunedEmpty(@, start, end)]
    IN  after(Each(Prepare, m, vas))

Answer(m, ok) == mem' = m /\ failed' = ~ok
Refused == failed' = TRUE /\ UNCHANGED <<mem, root, maps, heap, other, stack>>

\* a space of its own with the pages `vas', before they are moved; `bad' is a
\* page that cannot be read
StagedIn(c, vas, can, data, bad) ==
    LET Copied(r, va) == IF r.ok THEN [r EXCEPT !.ok = va # bad, !.m.data[Leaf(r.m, c.pd, va).to] = data] ELSE r
        One(m, va) == Copied(Mapped(m, c.pd, va, can), va)
        under(e) == [m |-> e.m, ok |-> e.ok, pd |-> c.pd]
    IN  IF c.ok THEN under(Each(One, c.m, vas)) ELSE [m |-> mem, ok |-> FALSE, pd |-> None]
Staged(vas, can, data, bad) == StagedIn(Created(mem), vas, can, data, bad)
\* and the pages moved to where they belong, or let go of
Into(start, end, s) == IF s.ok THEN Committed(s.m, s.pd, start, end) ELSE [m |-> s.m, ok |-> FALSE]
Finish(c, pd) == [c EXCEPT !.m = Destroyed(@, pd)]
Replacing(start, end, s) == Finish(Into(start, end, s), s.pd)

\* where `size' pages may be put: anywhere (MAP_FIXED), or where there is room
Holes(size) == {IF Hole(hint, size) # None THEN Hole(hint, size) ELSE Hole(MapBase, size) : hint \in User}
NoRoom ==
    /\ \/ \E start \in User : \E end \in start + 1 .. UserEnd : Overlap(start, end) # {}     \* NOREPLACE
       \/ \E size \in 1 .. UserEnd - MapBase : None \in Holes(size)
    /\ Refused
Map ==
    \E size \in 1 .. UserEnd - MapBase, prot \in {"none", "read", "write"}, kind \in Kinds :
    \E at \in (MapBase .. UserEnd - size) \cup (Holes(size) \ {None}) :
        LET resident == kind # "anon" \/ prot # "none"
            end == at + size
            plan == Replaced(at, end, <<Vma(at, end, prot, kind)>>)
            old == Len(Present(mem, root, Pages(at, end)))
        IN  /\ kind = "shared" => prot # "write"
            /\ IF \/ resident /\ (size > MemoryMax \/ Count(mem) - old > MemoryMax - size)
                  \/ ~plan.ok
               THEN Refused
               ELSE /\ UNCHANGED <<root, heap, other, stack>>
                    /\ IF ~resident THEN Answer(UnmappedRange(mem, root, at, end), TRUE) /\ maps' = plan.maps
                       ELSE \E bad \in {None} \cup (IF kind = "anon" THEN {} ELSE at .. end - 1) :
                            \E c \in {Replacing(at, end, Staged(Pages(at, end), Can(prot),
                                                 IF kind = "anon" THEN "zero" ELSE "file", bad))} :
                                Answer(c.m, c.ok) /\ maps' = IF c.ok THEN plan.maps ELSE maps

Unmap ==
    \E <<start, end>> \in Ranges :
        LET plan == Replaced(start, end, <<>>)
        IN  IF plan.ok THEN /\ Answer(UnmappedRange(mem, root, start, end), TRUE)
                            /\ maps' = plan.maps
                            /\ UNCHANGED <<root, heap, other, stack>>
            ELSE Refused

Protect ==
    \E <<start, end>> \in Ranges \cup {<<Image, Heap>>, <<Image, Heap + 1>>}, prot \in {"none", "read", "write"} :
        LET owned == Owned(start, end, Kinds)
            plan == Reprotected(start, end, prot)
            vas == Pages(start, end)
            absent == SelectSeq(vas, LAMBDA va : Leaf(mem, root, va) = None)
            fills == prot # "none" /\ owned
        IN  IF \/ prot = "write" /\ \E n \in Overlap(start, end) : maps[n].kind = "shared"
               \/ owned /\ ~plan.ok
               \/ ~owned /\ (Overlap(start, end) # {} \/ absent # <<>>)
               \/ fills /\ (end - start > MemoryMax \/ Count(mem) > MemoryMax - Len(absent))
            THEN Refused
            ELSE \E c \in {IF ~fills \/ absent = <<>> THEN [m |-> mem, ok |-> TRUE]
                          ELSE Replacing(start, end, Staged(absent, Can(prot), "zero", None))} :
                 /\ Answer(IF c.ok THEN ChangedRange(c.m, root, start, end, Can(prot)) ELSE c.m, c.ok)
                 /\ maps' = IF owned /\ c.ok THEN plan.maps ELSE maps
                 /\ UNCHANGED <<root, heap, other, stack>>

\* MADV_DONTNEED
Advise ==
    \E <<start, end>> \in Ranges :
        IF Owned(start, end, {"anon"})
        THEN /\ Answer(ClearedRange(mem, root, start, end), TRUE)
             /\ UNCHANGED <<root, maps, heap, other, stack>>
        ELSE Refused

\* The program, or a call on its behalf after user_range, writes a page.
Write ==
    \E va \in UserMin .. UserEnd - 1 :
        /\ Leaf(mem, root, va) # None /\ "write" \in Leaf(mem, root, va).can
        /\ Answer([mem EXCEPT !.data[Leaf(mem, root, va).to] = "mine"], TRUE)
        /\ UNCHANGED <<root, maps, heap, other, stack>>

(***************************************************************************)
(* Processes (task.c)                                                      *)
(***************************************************************************)
\* linux_brk and task_grow, which lets go of what it has when it fails
Brk ==
    \E size \in (0 .. HeapMax) \ {heap} :
        LET more == Pages(Heap + heap, Heap + size)
            less == Pages(Heap + size, Heap + heap)
            Grow(s, va) == Mapped(s, root, va, {"user", "write"})
            Drop(s, va) == Unmapped(s, root, va)
        IN  IF size > heap /\ (Count(mem) > MemoryMax - (size - heap) \/ size - heap > Cardinality(mem.free))
            THEN Refused
            ELSE \E g \in {Each(Grow, mem, more)} :
                 /\ Answer(FoldLeft(Drop, g.m, IF g.ok THEN less ELSE more), g.ok)
                 /\ heap' = IF g.ok THEN size ELSE heap
                 /\ UNCHANGED <<root, maps, other, stack>>

\* prepare_image: vm_create, the image, whose bytes may be unusable, and the stack
Prepare(bad) == Staged(<<Image>>, {"user"}, "image", bad)
Exec ==
    \E bad \in {None, Image} : \E s \in {Prepare(bad)} :
        IF s.ok THEN /\ Answer(Destroyed(s.m, root), TRUE)
                     /\ root' = s.pd /\ maps' = <<>> /\ heap' = 0
                     /\ UNCHANGED <<other, stack>>
        ELSE Answer(Destroyed(s.m, s.pd), FALSE) /\ UNCHANGED <<root, maps, heap, other, stack>>

\* spawn, with vm_stack_alloc, and release_task with vm_stack_free
Give(m, p) == Free(m, p)
StackIn(s) ==
    LET Take(x, n) == IF Out(x.m) THEN [x EXCEPT !.ok = FALSE]
                      ELSE IF x.ok THEN [x EXCEPT !.m = Alloc(@), !.held = @ \cup {Next1(x.m)}]
                      ELSE x
    IN  FoldLeft(Take, [m |-> s.m, ok |-> TRUE, held |-> {}], [n \in 1 .. StackPages |-> n])
Spawn ==
    /\ other = None
    /\ \E bad \in {None, Image} : \E s \in {Prepare(bad)} : \E t \in {StackIn(s)} :
            IF s.ok /\ t.ok
            THEN Answer(t.m, TRUE) /\ other' = s.pd /\ stack' = t.held /\ UNCHANGED <<root, maps, heap>>
            ELSE /\ Answer(Destroyed(IF s.ok THEN FoldLeft(Give, t.m, SetToSeq(t.held)) ELSE s.m, s.pd), FALSE)
                 /\ UNCHANGED <<root, maps, heap, other, stack>>
Reap ==
    /\ other # None
    /\ Answer(FoldLeft(Give, Destroyed(mem, other), SetToSeq(stack)), TRUE)
    /\ other' = None /\ stack' = {}
    /\ UNCHANGED <<root, maps, heap>>

Init ==
    /\ \E n \in Memory :
        LET Page == 1 .. n
            m == [free |-> Page, at |-> [p \in Page |-> [i \in Slot |-> None]],
                  data |-> [p \in Page |-> "zero"], panic |-> FALSE]
            c == Created(m)
            i == Mapped(c.m, c.pd, Image, {"user"})
        IN  /\ mem = [i.m EXCEPT !.data[Leaf(i.m, c.pd, Image).to] = "image"]
            /\ root = c.pd
    /\ maps = <<>> /\ heap = 0 /\ other = None /\ stack = {} /\ failed = FALSE
Next == Map \/ NoRoom \/ Unmap \/ Protect \/ Advise \/ Write \/ Brk \/ Exec \/ Spawn \/ Reap

(***************************************************************************)
(* Properties                                                              *)
(***************************************************************************)
RECURSIVE EntriesBelow(_, _, _)
EntriesBelow(m, t, d) ==
    LET own == {<<t, i>> : i \in {i \in Slot : IsPage(m.at[t][i])}}
    IN  own \cup IF d = 1 THEN {} ELSE UNION {EntriesBelow(m, m.at[s[1]][s[2]].to, d - 1) : s \in own}
\* Every page is free, or in one place of one table, or is a root or a page of a
\* kernel stack: calls that fail, moves and ends leave none behind and give none
\* back twice (vm_*, spawn, exec).
PagesAccounted ==
    LET roots == {root, other} \ {None}
        slots == UNION {EntriesBelow(mem, pd, Levels) : pd \in roots}
        to(s) == mem.at[s[1]][s[2]].to
        mapped == {to(s) : s \in slots}
    IN  /\ ~mem.panic
        /\ Cardinality(mapped) = Cardinality(slots)
        /\ mapped \cap (roots \cup stack) = {}
        /\ mem.free = DOMAIN mem.at \ (mapped \cup roots \cup stack)

\* The list of mappings and the tables say the same: pages are there where a
\* mapping lets the program use them, with its rights, and nowhere else
\* (linux_memory.h).
MapsTrue ==
    /\ \A n \in 1 .. Len(maps) : maps[n].start < maps[n].end /\ (n > 1 => maps[n - 1].end <= maps[n].start)
    /\ \A va \in User :
        LET e == Leaf(mem, root, va)
        IN  IF Overlap(va, va + 1) = {} THEN e = None
            ELSE LET v == maps[CHOOSE n \in Overlap(va, va + 1) : TRUE]
                 IN  IF e = None THEN v.prot = "none" ELSE e.can = Can(v.prot)
    /\ Count(mem) <= MemoryMax + 1

\* What a program sees of its memory
Seen == [va \in UserMin .. UserEnd - 1 |->
            LET e == Leaf(mem, root, va)
            IN  IF e = None THEN None ELSE [can |-> e.can, data |-> mem.data[e.to]]]
\* A call that fails has changed nothing, also of the number of free pages.
FailsWhole ==
    [][failed' => /\ UNCHANGED <<root, maps, heap, other>>
                  /\ UNCHANGED mem \/ UNCHANGED <<Seen, Cardinality(mem.free)>>]_spacesVars
=============================================================================
