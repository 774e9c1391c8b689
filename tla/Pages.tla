-------------------------------- MODULE Pages --------------------------------
(***************************************************************************)
(* The page allocator of kernel/memory.c on the index of free blocks in    *)
(* common/page_buddy.c.                                                    *)
(*                                                                         *)
(*  - busy, owned        the bitmaps: not free; given out by the allocator *)
(*  - level              the index: for each order the free blocks of that *)
(*                       size, found out from the order below              *)
(*  - normalCursor, dmaCursor, normalDepleted    where the next search     *)
(*                       begins above and below Split, and that nothing is *)
(*                       left above it                                     *)
(*                                                                         *)
(* The index and the three hints only save searching; every change of the  *)
(* bitmap has to keep them true.                                           *)
(***************************************************************************)
EXTENDS Integers, FiniteSets

CONSTANTS
    Managed,    \* numbers of pages a machine may have
    Split,      \* the first page above 4 GiB (2^20 in the code)
    MaxOrder    \* NV_BUDDY_MAX_ORDER

VARIABLES managed, busy, owned, freeCount, level, normalCursor, dmaCursor, normalDepleted
pagesVars == <<managed, busy, owned, freeCount, level, normalCursor, dmaCursor, normalDepleted>>

AllPages   == 0 .. managed - 1
Order      == 1 .. MaxOrder
Size(o)    == 2 ^ o
Lower(x, y) == IF x < y THEN x ELSE y
First(S)   == CHOOSE x \in S : \A y \in S : x <= y
Run(first, count) == first .. first + count - 1

(***************************************************************************)
(* common/page_buddy.c                                                     *)
(***************************************************************************)
\* the blocks of an order that touch the pages first .. last
\* mutated: the last block of memory is left out
TouchedShort(o, first, last) == first \div Size(o) .. Lower(last \div Size(o), managed \div Size(o) - 2)
Touched(o, first, last) == first \div Size(o) .. Lower(last \div Size(o), managed \div Size(o) - 1)

\* The levels after blocks over the pages first .. first+count-1 were looked
\* at again, from the pages up
Refreshed(old, taken, first, count) ==
    LET last == first + count - 1
        new[o \in 0 .. MaxOrder] ==
            IF o = 0 THEN AllPages \ taken
            ELSE LET below == new[o - 1]
                 IN  (old[o] \ Touched(o, first, last))
                     \cup {i \in Touched(o, first, last) : {2 * i, 2 * i + 1} \subseteq below}
    IN  IF count = 0 \/ first >= managed \/ count > managed - first THEN old
        ELSE [o \in Order |-> new[o]]

\* nv_buddy_init: every block of every order is looked at
Built(taken) == Refreshed([o \in Order |-> {}], taken, 0, managed)

\* the lowest free block of an order inside first .. limit-1, or `managed'
Find(o, first, limit) ==
    LET begin == (first + Size(o) - 1) \div Size(o)
        end   == Lower(limit \div Size(o), managed \div Size(o))
        free  == {i \in begin .. end - 1 : IF o = 0 THEN i \notin busy ELSE i \in level[o]}
    IN  IF limit > managed \/ first >= limit \/ free = {} THEN managed
        ELSE First(free) * Size(o)

(***************************************************************************)
(* kernel/memory.c.  A search that finds nothing gives `managed'.          *)
(***************************************************************************)
PagesInit ==
    /\ managed \in Managed
    /\ \E reserved \in SUBSET AllPages : 0 \in reserved /\ busy = reserved
    /\ owned = {}
    /\ freeCount = Cardinality(AllPages \ busy)
    /\ level = Built(busy)
    /\ normalCursor = Split /\ dmaCursor = 1 /\ normalDepleted = FALSE

\* commit_pages
CommitPages(first, count) ==
    /\ first < managed
    /\ busy' = busy \cup Run(first, count)
    /\ owned' = owned \cup Run(first, count)
    /\ freeCount' = freeCount - count
    /\ level' = Refreshed(level, busy', first, count)
    /\ UNCHANGED managed

DmaTop == Lower(Split, managed)
\* page_alloc looks above Split first, from the cursor on and then before it,
\* unless it has found nothing there and nothing was freed there since
AboveFrom(c) == IF Find(0, c, managed) # managed THEN Find(0, c, managed) ELSE Find(0, Split, c)
BelowFrom(c) == IF Find(0, c, DmaTop) # managed THEN Find(0, c, DmaTop) ELSE Find(0, 1, c)
LooksAbove   == ~normalDepleted /\ managed > Split
NextPage ==
    IF freeCount = 0 THEN managed
    ELSE IF LooksAbove /\ AboveFrom(normalCursor) # managed THEN AboveFrom(normalCursor)
    ELSE BelowFrom(dmaCursor)

PageAlloc ==
    /\ CommitPages(NextPage, 1)
    /\ normalDepleted' = (normalDepleted \/ (LooksAbove /\ AboveFrom(normalCursor) = managed))
    /\ IF NextPage >= Split
       THEN /\ normalCursor' = IF NextPage + 1 < managed THEN NextPage + 1 ELSE Split
            /\ UNCHANGED dmaCursor
       ELSE /\ dmaCursor' = IF NextPage + 1 < DmaTop THEN NextPage + 1 ELSE 1
            /\ UNCHANGED normalCursor

PageBelow(top) == IF freeCount = 0 THEN managed ELSE Find(0, 1, Lower(top, managed))

\* page_alloc_order
OrderBlock(o) ==
    IF freeCount < Size(o) THEN managed
    ELSE IF Find(o, Split, managed) # managed THEN Find(o, Split, managed)
    ELSE Find(o, 1, DmaTop)

\* the first run of free pages at all, for counts that are no power of two
LinearRun(count, from, top) ==
    LET runs == {s \in from .. top - count : Run(s, count) \cap busy = {}}
    IN  IF runs = {} THEN managed ELSE First(runs)
IsSize(count)  == \E o \in 0 .. MaxOrder : count = Size(o)
OrderOf(count) == CHOOSE o \in 0 .. MaxOrder : count = Size(o)
\* page_alloc_run and page_alloc_run_below
PageRun(count) ==
    IF freeCount < count THEN managed
    ELSE IF IsSize(count) THEN OrderBlock(OrderOf(count))
    ELSE LinearRun(count, 0, managed)
PageRunBelow(count, limit) ==
    LET top == Lower(managed, limit)
    IN  IF count > freeCount \/ count >= top THEN managed
        ELSE IF IsSize(count) THEN Find(OrderOf(count), 1, top)
        ELSE LinearRun(count, 1, top)

UseHints == UNCHANGED <<normalCursor, dmaCursor, normalDepleted>>

PageAllocBelow(top)         == CommitPages(PageBelow(top), 1) /\ UseHints
PageAllocRun(count)         == CommitPages(PageRun(count), count) /\ UseHints
PageAllocRunBelow(count, l) == CommitPages(PageRunBelow(count, l), count) /\ UseHints

\* is memory above 4 GiB still used up once p is free?
Depleted(p)      == normalDepleted /\ p < Split
PageFree(p) ==
    /\ p \in owned
    /\ owned' = owned \ {p}
    /\ busy' = busy \ {p}
    /\ freeCount' = freeCount + 1
    /\ normalDepleted' = Depleted(p)
    /\ level' = Refreshed(level, busy', p, 1)
    /\ UNCHANGED <<managed, normalCursor, dmaCursor>>

PagesNext ==
    \/ PageAlloc
    \/ \E top \in {Split, managed} : PageAllocBelow(top)
    \/ \E count \in 1 .. managed : PageAllocRun(count) \/ PageAllocRunBelow(count, Split)
    \/ \E p \in AllPages : PageFree(p)

PagesSpec == PagesInit /\ [][PagesNext]_pagesVars

(***************************************************************************)
(* Properties                                                              *)
(***************************************************************************)
\* After every allocation and every free, of single pages or of runs: what is
\* given out is busy, the count is that of the free pages, and the index knows
\* of each aligned block whether all of it is free, at the end of memory too.
IndexIsTrue ==
    /\ owned \subseteq busy /\ busy \subseteq AllPages
    /\ freeCount = Cardinality(AllPages \ busy)
    /\ normalCursor \in Nat /\ dmaCursor \in Nat
    /\ \A o \in Order :
          level[o] = {i \in 0 .. managed \div Size(o) - 1 : Run(i * Size(o), Size(o)) \cap busy = {}}

\* A request finds nothing only if there is nothing: the cursors and the mark
\* that memory above 4 GiB is used up never hide a free page, nor does the index
\* hide a free block of an order.
FreeIsFound ==
    /\ NextPage = managed => busy = AllPages
    /\ PageBelow(Split) = managed => AllPages \cap (0 .. Split - 1) \subseteq busy
    /\ \A o \in Order : OrderBlock(o) = managed =>
          \A i \in 0 .. managed \div Size(o) - 1 : Run(i * Size(o), Size(o)) \cap busy # {}

\* The index is true and free memory is found (page_buddy.c, memory.c).
MemorySound == IndexIsTrue /\ FreeIsFound
=============================================================================
