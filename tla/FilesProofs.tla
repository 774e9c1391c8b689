------------------------------ MODULE FilesProofs ------------------------------
(***************************************************************************)
(* Proofs about Files, for any limits, names, values and descriptors.      *)
(*                                                                         *)
(* FilesInv is the inductive invariant.  The tree is Shaped: every node in *)
(* use has a directory above it, no two of one directory have one name,    *)
(* and the way up reaches a root within the depth the volume allows.  The  *)
(* maps are Stored: no block of the volume is in two places of the files,  *)
(* and none is beyond a file's end or the volume's.  The nodes count their *)
(* descriptors (Counted), a descriptor is on a node in use (Described),    *)
(* and the pinned runs and both roots of the medium are what saves of such *)
(* trees left (Pinned, Rooted), which is what a restart begins from.       *)
(*                                                                         *)
(* The proof goes from data to steps.  The recursive functions of the      *)
(* model (Above, Joined, the search of Allocate, Exported and Imported)    *)
(* get a lemma each that they are functions and what their steps are; then *)
(* a tree that grows, shrinks or moves a node stays Shaped, a map with a   *)
(* run more or without its tail stays Stored; a list written of a tree is  *)
(* Good, and a mount of a Good list gives each entry its node in turn.     *)
(* There is a lemma for every action after that, and they meet in          *)
(* FilesNext.                                                              *)
(***************************************************************************)
EXTENDS Files, TLAPS, FiniteSetTheorems, SequenceTheorems

-----------------------------------------------------------------------------
(***************************************************************************)
(* Numbers                                                                 *)
(***************************************************************************)
\* Least elements, of any set of numbers.
LEMMA LeastNumber ==
    ASSUME NEW S \in SUBSET Nat, S # {} PROVE \E x \in S : \A y \in S : x <= y
<1>1. PICK n \in S : TRUE
  OBVIOUS
<1> DEFINE T == {y \in S : y <= n}
           AtMost(x) == {y \in T : y <= x}
           All == {AtMost(x) : x \in T}
<1>2. IsFiniteSet(T) /\ n \in T /\ T \in SUBSET Nat
  <2>1. n \in Nat /\ T \in SUBSET Nat /\ (\A s \in T : s <= n) /\ n \in T
    <3>1. n \in Nat /\ n <= n
      BY <1>1
    <3> QED
      BY <1>1, <3>1
  <2> HIDE DEF T
  <2> QED
    BY <2>1, FS_BoundedSetOfNaturals
<1> HIDE DEF T
<1>3. All \subseteq FiniteSubsetsOf(T) /\ All # {}
  <2>1. All # {}
    BY <1>2
  <2>2. All \subseteq FiniteSubsetsOf(T)
    BY <1>2, FS_Subset DEF FiniteSubsetsOf
  <2> QED
    BY <2>1, <2>2
<1>4. PICK B \in All : \A C \in All : ~(<<C, B>> \in StrictSubsetOrdering(T))
  <2> HIDE DEF All
  <2> QED
    BY <1>2, <1>3, FS_StrictSubsetOrderingWellFounded, WFMin, Zenon
<1>5. PICK x \in T : B = AtMost(x)
  BY <1>4
<1>6. ASSUME NEW y \in T, y < x PROVE FALSE
  <2>1. x \in Nat /\ y \in Nat
    BY <1>2
  <2>2. AtMost(y) \subseteq AtMost(x) /\ x \in AtMost(x) /\ x \notin AtMost(y)
    <3>1. (\A z \in T : z <= y => z <= x) /\ x <= x /\ ~(x <= y)
      BY <1>2, <2>1, <1>6
    <3> QED
      BY <3>1, <2>1
  <2>3. AtMost(y) \in SUBSET T /\ AtMost(x) \in SUBSET T
    OBVIOUS
  <2>4. <<AtMost(y), AtMost(x)>> \in StrictSubsetOrdering(T)
    <3> HIDE DEF AtMost
    <3> QED
      BY <2>2, <2>3, Zenon DEF StrictSubsetOrdering
  <2> QED
    BY <1>4, <1>5, <2>4
<1>7. ASSUME NEW y \in S PROVE x <= y
  <2>1. x \in Nat /\ n \in Nat /\ y \in Nat /\ x <= n
    BY <1>1, <1>2 DEF T
  <2>2. y \in T => x <= y
    BY <1>2, <1>6, <2>1
  <2> QED
    BY <2>1, <2>2, <1>7 DEF T
<1> QED
  BY <1>7 DEF T

\* A set that has 0 and with every number the next one has all up to a limit.
LEMMA UpTo ==
    ASSUME NEW N \in Nat, NEW S, 0 \in S, \A k \in 0 .. N : k \in S /\ k # N => k + 1 \in S
    PROVE  \A k \in 0 .. N : k \in S
<1> SUFFICES ASSUME NEW k \in 0 .. N, k \notin S PROVE FALSE
  OBVIOUS
<1> DEFINE Rest == {j \in 0 .. N : j \notin S}
<1>1. PICK j \in Rest : \A i \in Rest : j <= i
  <2>1. Rest \in SUBSET Nat /\ Rest # {}
    OBVIOUS
  <2> QED
    BY <2>1, LeastNumber
<1>2. j \in 0 .. N /\ j \in Nat /\ j # 0 /\ j \notin S
  OBVIOUS
<1>3. j - 1 \in 0 .. N /\ j - 1 \notin Rest /\ j - 1 # N /\ (j - 1) + 1 = j
  <2>1. j - 1 \in 0 .. N /\ ~(j <= j - 1) /\ j - 1 # N /\ (j - 1) + 1 = j
    BY <1>2
  <2> QED
    BY <1>1, <2>1
<1> QED
  BY <1>2, <1>3

LEMMA LeastIs ==
    ASSUME NEW S \in SUBSET Nat, S # {} PROVE Least(S) \in S /\ \A y \in S : Least(S) <= y
<1>1. \E x \in S : \A y \in S : x <= y
  BY LeastNumber
<1> QED
  BY <1>1 DEF Least

\* A set of numbers below a limit has a greatest one.
LEMMA MostIs ==
    ASSUME NEW N \in Nat, NEW S \in SUBSET (0 .. N), S # {}
    PROVE  Most(S) \in S /\ \A y \in S : Most(S) >= y
<1> DEFINE Mirror == {N - x : x \in S}
<1>1. PICK m \in Mirror : \A y \in Mirror : m <= y
  <2>1. \A x \in S : N - x \in Nat
    OBVIOUS
  <2>2. PICK x \in S : TRUE
    OBVIOUS
  <2>3. Mirror \in SUBSET Nat /\ N - x \in Mirror
    BY <2>1
  <2> QED
    BY <2>3, LeastNumber
<1>2. PICK x \in S : m = N - x
  OBVIOUS
<1>3. \A y \in S : x >= y
  <2> SUFFICES ASSUME NEW y \in S PROVE x >= y
    OBVIOUS
  <2>1. m <= N - y
    BY <1>1
  <2>2. x \in 0 .. N /\ y \in 0 .. N
    OBVIOUS
  <2> QED
    BY <1>2, <2>1, <2>2
<1> QED
  BY <1>3 DEF Most

\* The numbers a machine has: its limits, and a finite table of descriptors.
Extent   == [logical : Nat, physical : Nat, blocks : Nat \ {0}]
NodeName == Name \cup {"", "home", "tmp"}
Node == [kind : {"free", "file", "dir"}, parent : Slots \cup {0}, name : NodeName, size : 0 .. limits.size,
         extents : Seq(Extent), data : Seq(Value \cup {0}), refs : 0 .. Cardinality(Handle)]
Sized == limits \in [nodes : Nat \ {0, 1}, depth : Nat, size : Nat, end : Nat] /\ IsFiniteSet(Handle)

\* A tree of directories under the two roots: the slots that are not used are
\* blank, the way up is not too long, and the names of a directory differ.
Shaped(t) ==
    /\ t \in [Slots -> Node]
    /\ \A r \in Root : t[r].kind = "dir" /\ t[r].parent = 0 /\ t[r].name = IF r = Home THEN "home" ELSE "tmp"
    /\ \A n \in Used(t) \ Root : t[n].parent \in Used(t) /\ t[t[n].parent].kind = "dir"
    /\ \A n \in Used(t) : \E d \in 0 .. limits.depth : Above(t, n)[d] \in Root
    /\ \A n \in Slots \ Used(t) : t[n] = NoNode
    /\ \A n, m \in Used(t) \ Root : t[n].parent = t[m].parent /\ t[n].name = t[m].name => n = m
    /\ \A n \in Used(t) : t[n].kind = "dir" => t[n].size = 0 /\ t[n].extents = <<>>

-----------------------------------------------------------------------------
(***************************************************************************)
(* The way up                                                              *)
(***************************************************************************)
Up(t, x) == IF x = 0 THEN 0 ELSE t[x].parent
\* The recursion of Above defines a function.
LEMMA AboveIs ==
    ASSUME limits.depth \in Nat, NEW t, NEW n
    PROVE  Above(t, n) = [k \in 0 .. limits.depth + 1 |-> IF k = 0 THEN n ELSE Up(t, Above(t, n)[k - 1])]
<1> DEFINE N == limits.depth + 1
           Step(f, N0) == [k \in 0 .. N0 |-> IF k = 0 THEN n ELSE Up(t, f[k - 1])]
           Built == {k \in 0 .. N : \E f : f = Step(f, k)}
<1>1. N \in Nat
  OBVIOUS
<1> HIDE DEF N
<1>2. 0 \in Built
  <2> DEFINE f == [k \in 0 .. 0 |-> n]
  <2>1. f = Step(f, 0)
    OBVIOUS
  <2> HIDE DEF f, Step
  <2> QED
    BY <1>1, <2>1
<1>3. ASSUME NEW k \in 0 .. N, k \in Built, k # N PROVE k + 1 \in Built
  <2>1. PICK f : f = Step(f, k)
    BY <1>3
  <2> DEFINE g == [j \in 0 .. k + 1 |-> IF j = k + 1 THEN Up(t, f[k]) ELSE f[j]]
  <2>2. \A j \in 0 .. k : f[j] = IF j = 0 THEN n ELSE Up(t, f[j - 1])
    BY <2>1
  <2>3. ASSUME NEW j \in 0 .. k + 1 PROVE g[j] = IF j = 0 THEN n ELSE Up(t, g[j - 1])
    <3>1. CASE j = k + 1
      <4>1. k \in 0 .. k + 1 /\ k # k + 1 /\ j - 1 = k /\ j # 0
        BY <1>1, <3>1
      <4> QED
        BY <3>1, <4>1
    <3>2. CASE j # k + 1
      <4>1. j \in 0 .. k /\ (j # 0 => j - 1 \in 0 .. k + 1 /\ j - 1 # k + 1)
        BY <1>1, <3>2
      <4> QED
        BY <2>2, <3>2, <4>1
    <3> QED
      BY <3>1, <3>2
  <2>4. g = Step(g, k + 1)
    <3>1. g = [j \in 0 .. k + 1 |-> g[j]]
      OBVIOUS
    <3> HIDE DEF g
    <3> QED
      BY <2>3, <3>1
  <2>5. k + 1 \in 0 .. N
    BY <1>1, <1>3
  <2> HIDE DEF g, Step
  <2> QED
    BY <2>4, <2>5
<1>4. N \in Built
  <2> HIDE DEF Built
  <2>1. N \in 0 .. N
    BY <1>1
  <2> QED
    BY <1>1, <1>2, <1>3, <2>1, UpTo
<1>5. \E f : f = Step(f, N)
  BY <1>4
<1>6. Above(t, n) = CHOOSE f : f = Step(f, N)
  BY DEF Above, Up, N
<1> QED
  BY <1>5, <1>6 DEF N

LEMMA AboveSteps ==
    ASSUME limits.depth \in Nat, NEW t, NEW n
    PROVE  /\ Above(t, n)[0] = n
           /\ \A k \in 0 .. limits.depth : Above(t, n)[k + 1] = Up(t, Above(t, n)[k])
<1>1. \A k \in 0 .. limits.depth + 1 : Above(t, n)[k] = IF k = 0 THEN n ELSE Up(t, Above(t, n)[k - 1])
  BY AboveIs
<1> DEFINE a == Above(t, n)
<1> HIDE DEF a
<1>2. \A k \in 0 .. limits.depth + 1 : a[k] = IF k = 0 THEN n ELSE Up(t, a[k - 1])
  BY <1>1 DEF a
<1>3. a[0] = n
  BY <1>2
<1>4. ASSUME NEW k \in 0 .. limits.depth PROVE a[k + 1] = Up(t, a[k])
  <2>1. k + 1 \in 0 .. limits.depth + 1 /\ k + 1 # 0 /\ (k + 1) - 1 = k
    OBVIOUS
  <2> QED
    BY <1>2, <2>1
<1> QED
  BY <1>3, <1>4 DEF a

\* From a node i above, k more is i + k above.
LEMMA AboveAdds ==
    ASSUME limits.depth \in Nat, NEW t, NEW n, NEW i \in 0 .. limits.depth + 1,
           NEW k \in 0 .. limits.depth + 1 - i
    PROVE  Above(t, n)[i + k] = Above(t, Above(t, n)[i])[k]
<1> DEFINE N == limits.depth + 1 - i
           m == Above(t, n)[i]
           S == {j \in 0 .. N : Above(t, n)[i + j] = Above(t, m)[j]}
<1>1. N \in Nat /\ i \in Nat
  OBVIOUS
<1>2. 0 \in S
  <2>1. Above(t, m)[0] = m /\ i + 0 = i
    BY AboveSteps
  <2> QED
    BY <1>1, <2>1
<1>3. ASSUME NEW j \in 0 .. N, j \in S, j # N PROVE j + 1 \in S
  <2>1. j \in 0 .. limits.depth /\ i + j \in 0 .. limits.depth /\ i + (j + 1) = (i + j) + 1 /\ j + 1 \in 0 .. N
    BY <1>3
  <2>2. Above(t, m)[j + 1] = Up(t, Above(t, m)[j])
    BY <2>1, AboveSteps
  <2>3. Above(t, n)[(i + j) + 1] = Up(t, Above(t, n)[i + j])
    BY <2>1, AboveSteps
  <2> HIDE DEF m, N
  <2> QED
    BY <1>3, <2>1, <2>2, <2>3
<1> HIDE DEF S, N
<1>4. \A j \in 0 .. N : j \in S
  BY <1>1, <1>2, <1>3, UpTo
<1> QED
  BY <1>4 DEF S, N

\* Two tables with the same way up from every node of a set that it does not
\* leave, have the same way up.
LEMMA AboveSame ==
    ASSUME limits.depth \in Nat, NEW t, NEW u, NEW S, 0 \notin S,
           \A n \in S : u[n].parent = t[n].parent /\ t[n].parent \in S \cup {0},
           NEW n \in S
    PROVE  Above(u, n) = Above(t, n)
<1> DEFINE N == limits.depth + 1
           Same == {k \in 0 .. N : Above(u, n)[k] = Above(t, n)[k] /\ Above(t, n)[k] \in S \cup {0}}
<1>1. N \in Nat
  OBVIOUS
<1>2. 0 \in Same
  BY AboveSteps
<1>3. ASSUME NEW k \in 0 .. N, k \in Same, k # N PROVE k + 1 \in Same
  <2>1. k \in 0 .. limits.depth /\ k + 1 \in 0 .. N
    BY <1>3
  <2>2. Above(t, n)[k + 1] = Up(t, Above(t, n)[k]) /\ Above(u, n)[k + 1] = Up(u, Above(u, n)[k])
    BY <2>1, AboveSteps
  <2>3. Above(u, n)[k] = Above(t, n)[k] /\ Above(t, n)[k] \in S \cup {0}
    BY <1>3
  <2>4. Up(u, Above(u, n)[k]) = Up(t, Above(t, n)[k]) /\ Up(t, Above(t, n)[k]) \in S \cup {0}
    BY <2>3 DEF Up
  <2> HIDE DEF N
  <2> QED
    BY <2>1, <2>2, <2>4
<1>4. \A k \in 0 .. N : k \in Same
  <2> HIDE DEF N, Same
  <2> QED
    BY <1>1, <1>2, <1>3, UpTo
<1>5. \A k \in 0 .. N : Above(u, n)[k] = Above(t, n)[k]
  BY <1>4
<1>6. Above(u, n) = [k \in 0 .. N |-> Above(u, n)[k]]
  <2>1. Above(u, n) = [k \in 0 .. limits.depth + 1 |-> IF k = 0 THEN n ELSE Up(u, Above(u, n)[k - 1])]
    BY AboveIs
  <2> QED
    BY <2>1
<1>7. Above(t, n) = [k \in 0 .. N |-> Above(t, n)[k]]
  <2>1. Above(t, n) = [k \in 0 .. limits.depth + 1 |-> IF k = 0 THEN n ELSE Up(t, Above(t, n)[k - 1])]
    BY AboveIs
  <2> QED
    BY <2>1
<1> DEFINE a == Above(u, n)
           b == Above(t, n)
<1> HIDE DEF N, a, b
<1>8. (\A k \in 0 .. N : a[k] = b[k]) /\ a = [k \in 0 .. N |-> a[k]] /\ b = [k \in 0 .. N |-> b[k]]
  BY <1>5, <1>6, <1>7 DEF a, b
<1> QED
  BY <1>8 DEF a, b

LEMMA NothingAbove ==
    ASSUME Sized, NEW t, NEW k \in 0 .. limits.depth + 1 PROVE Above(t, 0)[k] = 0
<1> DEFINE N == limits.depth + 1
           S == {j \in 0 .. N : Above(t, 0)[j] = 0}
<1>0. limits.depth \in Nat
  BY DEF Sized
<1>1. N \in Nat
  BY <1>0
<1>2. 0 \in S
  BY <1>0, AboveSteps
<1>3. ASSUME NEW j \in 0 .. N, j \in S, j # N PROVE j + 1 \in S
  <2>1. j \in 0 .. limits.depth /\ j + 1 \in 0 .. N
    BY <1>0, <1>3
  <2>2. Above(t, 0)[j + 1] = Up(t, Above(t, 0)[j])
    BY <1>0, <2>1, AboveSteps
  <2> HIDE DEF N
  <2> QED
    BY <1>3, <2>1, <2>2 DEF Up
<1> HIDE DEF S, N
<1>4. \A j \in 0 .. N : j \in S
  BY <1>1, <1>2, <1>3, UpTo
<1> QED
  BY <1>4 DEF S, N

LEMMA SlotsAre == ASSUME Sized PROVE Slots \subseteq Nat \ {0} /\ 0 \notin Slots /\ Root \subseteq Slots /\ 0 \notin Root
  BY DEF Sized, Slots, Root, Home, Tmp

LEMMA UsedAre ==
    ASSUME Sized, NEW t, Shaped(t)
    PROVE  Used(t) \subseteq Slots /\ 0 \notin Used(t) /\ Root \subseteq Used(t)
  BY SlotsAre DEF Shaped, Used

LEMMA UpUsed ==
    ASSUME Sized, NEW t, Shaped(t), NEW n \in Used(t) \cup {0}
    PROVE  Up(t, n) \in Used(t) \cup {0}
<1>1. CASE n \in Root
  BY <1>1 DEF Shaped, Up
<1>2. CASE n \in Used(t) \ Root
  BY <1>2 DEF Shaped, Up
<1>3. CASE n = 0
  BY <1>3 DEF Up
<1> QED
  BY <1>1, <1>2, <1>3

LEMMA WayUsed ==
    ASSUME Sized, NEW t, Shaped(t), NEW n \in Used(t) \cup {0}, NEW k \in 0 .. limits.depth + 1
    PROVE  Above(t, n)[k] \in Used(t) \cup {0}
<1> DEFINE N == limits.depth + 1
           S == {j \in 0 .. N : Above(t, n)[j] \in Used(t) \cup {0}}
<1>0. limits.depth \in Nat
  BY DEF Sized
<1>1. N \in Nat
  BY <1>0
<1>2. 0 \in S
  BY <1>0, AboveSteps
<1>3. ASSUME NEW j \in 0 .. N, j \in S, j # N PROVE j + 1 \in S
  <2>1. j \in 0 .. limits.depth /\ j + 1 \in 0 .. N
    BY <1>0, <1>3
  <2>2. Above(t, n)[j + 1] = Up(t, Above(t, n)[j])
    BY <1>0, <2>1, AboveSteps
  <2>3. Above(t, n)[j] \in Used(t) \cup {0}
    BY <1>3
  <2> HIDE DEF N
  <2> QED
    BY <2>1, <2>2, <2>3, UpUsed
<1> HIDE DEF S, N
<1>4. \A j \in 0 .. N : j \in S
  BY <1>1, <1>2, <1>3, UpTo
<1> QED
  BY <1>4 DEF S, N

\* Above a root, and above what is above it, is nothing.
LEMMA AboveRoot ==
    ASSUME Sized, NEW t, Shaped(t), NEW n, NEW d \in 0 .. limits.depth, Above(t, n)[d] \in Root,
           NEW k \in d + 1 .. limits.depth + 1
    PROVE  Above(t, n)[k] = 0
<1>1. limits.depth \in Nat
  BY DEF Sized
<1>2. Above(t, n)[d + 1] = 0
  <2>1. Above(t, n)[d + 1] = Up(t, Above(t, n)[d])
    BY <1>1, AboveSteps
  <2> QED
    BY <2>1 DEF Shaped, Up
<1> DEFINE i == d + 1
           j == k - i
<1>3. i \in 0 .. limits.depth + 1 /\ j \in 0 .. limits.depth + 1 - i /\ i + j = k /\ j \in 0 .. limits.depth + 1
  BY <1>1
<1>4. Above(t, n)[i] = 0
  BY <1>2
<1> HIDE DEF i, j
<1>5. Above(t, n)[i + j] = Above(t, Above(t, n)[i])[j]
  BY <1>1, <1>3, AboveAdds
<1> QED
  BY <1>3, <1>4, <1>5, NothingAbove

LEMMA DepthIs ==
    ASSUME Sized, NEW t, Shaped(t), NEW n \in Used(t)
    PROVE  /\ Depth(t, n) \in 0 .. limits.depth
           /\ Above(t, n)[Depth(t, n)] \in Root
           /\ \A k \in 0 .. limits.depth + 1 : k > Depth(t, n) => Above(t, n)[k] = 0
           /\ \A k \in 0 .. limits.depth + 1 : k < Depth(t, n) => Above(t, n)[k] \in Used(t) \ Root
<1> DEFINE d == Depth(t, n)
<1>1. d \in 0 .. limits.depth /\ Above(t, n)[d] \in Root
  <2>1. \E e \in 0 .. limits.depth : Above(t, n)[e] \in Root
    BY DEF Shaped
  <2> QED
    BY <2>1 DEF Depth
<1>2. limits.depth \in Nat
  BY DEF Sized
<1> HIDE DEF d
<1>3. ASSUME NEW k \in 0 .. limits.depth + 1, k > d PROVE Above(t, n)[k] = 0
  <2>1. k \in d + 1 .. limits.depth + 1
    BY <1>1, <1>2, <1>3
  <2> QED
    BY <1>1, <2>1, AboveRoot
<1>4. ASSUME NEW k \in 0 .. limits.depth + 1, k < d PROVE Above(t, n)[k] \in Used(t) \ Root
  <2>1. k \in 0 .. limits.depth /\ d \in k + 1 .. limits.depth + 1 /\ d - k \in 0 .. limits.depth + 1 - k /\ k + (d - k) = d
    BY <1>1, <1>2, <1>4
  <2>2. Above(t, n)[k] \in Used(t) \cup {0}
    BY <1>4, WayUsed
  <2>3. Above(t, n)[k] \notin Root
    <3> SUFFICES ASSUME Above(t, n)[k] \in Root PROVE FALSE
      OBVIOUS
    <3>1. Above(t, n)[d] = 0
      BY <2>1, AboveRoot
    <3> QED
      BY <1>1, <3>1, SlotsAre
  <2>4. Above(t, n)[k] # 0
    <3> SUFFICES ASSUME Above(t, n)[k] = 0 PROVE FALSE
      OBVIOUS
    <3> DEFINE j == d - k
    <3>1. j \in 0 .. limits.depth + 1 - k /\ k + j = d /\ j \in 0 .. limits.depth + 1
      BY <1>2, <1>4, <2>1
    <3> HIDE DEF j
    <3>2. Above(t, n)[k + j] = Above(t, Above(t, n)[k])[j]
      BY <1>2, <1>4, <3>1, AboveAdds
    <3>3. Above(t, n)[d] = 0
      BY <3>1, <3>2, NothingAbove
    <3> QED
      BY <1>1, <3>3, SlotsAre
  <2> QED
    BY <2>2, <2>3, <2>4
<1> QED
  BY <1>1, <1>3, <1>4 DEF d

LEMMA DepthOnly ==
    ASSUME Sized, NEW t, Shaped(t), NEW n \in Used(t), NEW k \in 0 .. limits.depth + 1, Above(t, n)[k] \in Root
    PROVE  Depth(t, n) = k
<1> DEFINE d == Depth(t, n)
<1>1. d \in 0 .. limits.depth /\ Above(t, n)[d] \in Root /\ (k > d => Above(t, n)[k] = 0)
      /\ (k < d => Above(t, n)[k] \in Used(t) \ Root)
  BY DepthIs
<1> HIDE DEF d
<1>2. ~(k > d) /\ ~(k < d)
  BY <1>1, SlotsAre
<1>3. d \in Nat /\ k \in Nat
  BY <1>1 DEF Sized
<1> QED
  BY <1>2, <1>3 DEF d

LEMMA DepthRoot ==
    ASSUME Sized, NEW t, Shaped(t), NEW r \in Root PROVE Depth(t, r) = 0
<1>1. limits.depth \in Nat
  BY DEF Sized
<1>2. Above(t, r)[0] = r /\ r \in Used(t) /\ 0 \in 0 .. limits.depth + 1
  BY <1>1, AboveSteps, UsedAre
<1> QED
  BY <1>2, DepthOnly

LEMMA AboveParent ==
    ASSUME Sized, NEW t, NEW n, n # 0, NEW k \in 0 .. limits.depth
    PROVE  Above(t, n)[k + 1] = Above(t, t[n].parent)[k]
<1>1. limits.depth \in Nat
  BY DEF Sized
<1> DEFINE one == 1
<1>2. one \in 0 .. limits.depth + 1 /\ k \in 0 .. limits.depth + 1 - one /\ one + k = k + 1
  BY <1>1
<1>3. Above(t, n)[one] = t[n].parent
  <2>1. Above(t, n)[0] = n /\ 0 \in 0 .. limits.depth
    BY <1>1, AboveSteps
  <2>2. Above(t, n)[0 + 1] = Up(t, n)
    BY <1>1, <2>1, AboveSteps
  <2> QED
    BY <2>2 DEF Up
<1> HIDE DEF one
<1>4. Above(t, n)[one + k] = Above(t, Above(t, n)[one])[k]
  BY <1>1, <1>2, AboveAdds
<1> QED
  BY <1>2, <1>3, <1>4

LEMMA DepthParent ==
    ASSUME Sized, NEW t, Shaped(t), NEW n \in Used(t) \ Root
    PROVE  Depth(t, n) = Depth(t, t[n].parent) + 1
<1> DEFINE p == t[n].parent
           d == Depth(t, n)
           e == d - 1
<1>1. p \in Used(t) /\ n # 0 /\ n \in Used(t)
  BY UsedAre DEF Shaped
<1>2. d \in 0 .. limits.depth /\ Above(t, n)[d] \in Root /\ limits.depth \in Nat
  BY <1>1, DepthIs DEF Sized
<1>3. Above(t, n)[0] = n
  BY <1>2, AboveSteps
<1> HIDE DEF d, p
<1>4. d # 0
  BY <1>2, <1>3
<1>5. e \in 0 .. limits.depth /\ e + 1 = d
  BY <1>2, <1>4
<1> HIDE DEF e
<1>6. Above(t, p)[e] \in Root
  BY <1>1, <1>2, <1>5, AboveParent DEF p
<1>7. e \in 0 .. limits.depth + 1
  BY <1>2, <1>5
<1>8. Depth(t, p) = e
  BY <1>1, <1>6, <1>7, DepthOnly
<1> QED
  BY <1>5, <1>8 DEF d, p

(***************************************************************************)
(* Paths                                                                   *)
(***************************************************************************)
LEMMA PathIs ==
    ASSUME Sized, NEW t, Shaped(t), NEW n \in Used(t)
    PROVE  /\ Path(t, n) \in Seq(NodeName) /\ Len(Path(t, n)) = Depth(t, n) + 1
           /\ \A i \in 1 .. Depth(t, n) + 1 : Path(t, n)[i] = t[Above(t, n)[Depth(t, n) + 1 - i]].name
<1> DEFINE d == Depth(t, n)
           Part(i) == t[Above(t, n)[d + 1 - i]].name
<1>1. d \in 0 .. limits.depth /\ limits.depth \in Nat
      /\ \A k \in 0 .. limits.depth + 1 : k < d => Above(t, n)[k] \in Used(t) \ Root
  BY DepthIs DEF Sized
<1>2. Above(t, n)[d] \in Root
  BY DepthIs
<1>3. Path(t, n) = [i \in 1 .. d + 1 |-> Part(i)]
  BY DEF Path
<1>4. ASSUME NEW i \in 1 .. d + 1 PROVE Part(i) \in NodeName
  <2> DEFINE k == d + 1 - i
  <2> HIDE DEF d
  <2>1. k \in 0 .. limits.depth + 1 /\ (k < d \/ k = d)
    BY <1>1
  <2>2. Above(t, n)[k] \in Used(t)
    BY <1>1, <1>2, <2>1, UsedAre DEF d
  <2>3. Above(t, n)[k] \in Slots
    BY <2>2, UsedAre
  <2> HIDE DEF k
  <2>4. t[Above(t, n)[k]].name \in NodeName
    BY <2>3 DEF Shaped, Node
  <2> QED
    BY <2>4 DEF k
<1> HIDE DEF d, Part
<1>5. d + 1 \in Nat
  BY <1>1
<1>6. Path(t, n) \in [1 .. d + 1 -> NodeName]
  BY <1>3, <1>4
<1>7. Path(t, n) \in Seq(NodeName) /\ Len(Path(t, n)) = d + 1
  BY <1>5, <1>6
<1>8. \A i \in 1 .. d + 1 : Path(t, n)[i] = Part(i)
  BY <1>3
<1> QED
  BY <1>7, <1>8 DEF d, Part

LEMMA PathRoot ==
    ASSUME Sized, NEW t, Shaped(t), NEW r \in Root
    PROVE  Path(t, r) = <<IF r = Home THEN "home" ELSE "tmp">>
<1>1. r \in Used(t) /\ Depth(t, r) = 0
  BY UsedAre, DepthRoot
<1>2. Above(t, r)[0] = r
  BY AboveSteps DEF Sized
<1>3. Path(t, r) \in Seq(NodeName) /\ Len(Path(t, r)) = 1
  <2>1. Path(t, r) \in Seq(NodeName) /\ Len(Path(t, r)) = Depth(t, r) + 1
    BY <1>1, PathIs
  <2> QED
    BY <1>1, <2>1
<1>4. Path(t, r)[1] = t[r].name
  <2>1. \A i \in 1 .. Depth(t, r) + 1 : Path(t, r)[i] = t[Above(t, r)[Depth(t, r) + 1 - i]].name
    BY <1>1, PathIs
  <2> QED
    BY <1>1, <1>2, <2>1
<1>5. t[r].name = IF r = Home THEN "home" ELSE "tmp"
  BY DEF Shaped
<1> QED
  BY <1>3, <1>4, <1>5

\* The path of a node is that of its directory with its name behind it.
LEMMA PathStep ==
    ASSUME Sized, NEW t, Shaped(t), NEW n \in Used(t) \ Root
    PROVE  Path(t, n) = Append(Path(t, t[n].parent), t[n].name)
<1> DEFINE p == t[n].parent
           d == Depth(t, p)
           whole == Path(t, n)
           front == Path(t, p)
           x == t[n].name
<1>1. p \in Used(t) /\ n \in Used(t) /\ n # 0
  BY UsedAre DEF Shaped
<1>2. Depth(t, n) = d + 1 /\ d \in 0 .. limits.depth /\ d + 1 \in 0 .. limits.depth /\ limits.depth \in Nat
  <2>1. Depth(t, n) = Depth(t, t[n].parent) + 1 /\ limits.depth \in Nat
    BY DepthParent DEF Sized
  <2> HIDE DEF p
  <2>2. Depth(t, p) \in 0 .. limits.depth /\ Depth(t, n) \in 0 .. limits.depth
    BY <1>1, DepthIs
  <2> QED
    BY <2>1, <2>2 DEF p
<1>3. whole \in Seq(NodeName) /\ Len(whole) = d + 2 /\ front \in Seq(NodeName) /\ Len(front) = d + 1
  <2> HIDE DEF p
  <2>1. Path(t, n) \in Seq(NodeName) /\ Len(Path(t, n)) = Depth(t, n) + 1
    BY <1>1, PathIs
  <2>2. Path(t, p) \in Seq(NodeName) /\ Len(Path(t, p)) = Depth(t, p) + 1
    BY <1>1, PathIs
  <2> QED
    BY <1>2, <2>1, <2>2
<1>4. x \in NodeName
  BY <1>1, UsedAre DEF Shaped, Node
<1>5. ASSUME NEW i \in 1 .. d + 1 PROVE whole[i] = front[i]
  <2> DEFINE k == d + 1 - i
  <2>1. \A j \in 1 .. Depth(t, n) + 1 : whole[j] = t[Above(t, n)[Depth(t, n) + 1 - j]].name
    BY <1>1, PathIs
  <2>2. \A j \in 1 .. d + 1 : front[j] = t[Above(t, p)[d + 1 - j]].name
    <3> HIDE DEF p
    <3> QED
      BY <1>1, PathIs
  <2>3. i \in 1 .. Depth(t, n) + 1 /\ Depth(t, n) + 1 - i = k + 1 /\ k \in 0 .. limits.depth
    <3> HIDE DEF d
    <3> QED
      BY <1>2
  <2> HIDE DEF k
  <2>4. Above(t, n)[k + 1] = Above(t, t[n].parent)[k]
    BY <1>1, <2>3, AboveParent
  <2>5. whole[i] = t[Above(t, n)[k + 1]].name
    <3> HIDE DEF whole
    <3> QED
      BY <2>1, <2>3
  <2>6. front[i] = t[Above(t, p)[k]].name
    <3> HIDE DEF front, d, p
    <3> QED
      BY <2>2 DEF k
  <2> QED
    BY <2>4, <2>5, <2>6
<1>6. whole[d + 2] = x
  <2>1. \A j \in 1 .. Depth(t, n) + 1 : whole[j] = t[Above(t, n)[Depth(t, n) + 1 - j]].name
    BY <1>1, PathIs
  <2>2. d + 2 \in 1 .. Depth(t, n) + 1 /\ Depth(t, n) + 1 - (d + 2) = 0
    <3> HIDE DEF d
    <3> QED
      BY <1>2
  <2>3. Above(t, n)[0] = n
    BY <1>2, AboveSteps
  <2> HIDE DEF whole, d
  <2>4. whole[d + 2] = t[Above(t, n)[Depth(t, n) + 1 - (d + 2)]].name
    BY <2>1, <2>2
  <2> QED
    BY <2>2, <2>3, <2>4
<1> HIDE DEF whole, front, x, d
<1>7. Append(front, x) \in Seq(NodeName) /\ Len(Append(front, x)) = d + 2
      /\ (\A i \in 1 .. d + 1 : Append(front, x)[i] = front[i]) /\ Append(front, x)[d + 2] = x
  BY <1>2, <1>3, <1>4
<1>8. \A i \in 1 .. d + 2 : i \in 1 .. d + 1 \/ i = d + 2
  BY <1>2
<1>9. \A i \in 1 .. d + 2 : whole[i] = Append(front, x)[i]
  BY <1>5, <1>6, <1>7, <1>8
<1>10. whole = Append(front, x)
  <2> DEFINE other == Append(front, x)
  <2>1. other \in Seq(NodeName) /\ Len(other) = d + 2 /\ \A i \in 1 .. d + 2 : whole[i] = other[i]
    BY <1>7, <1>9
  <2> HIDE DEF other
  <2>2. whole = other
    BY <1>3, <2>1
  <2> QED
    BY <2>2 DEF other
<1> QED
  BY <1>10 DEF whole, front, x

LEMMA FrontLast ==
    ASSUME NEW S, NEW s \in Seq(S), NEW x \in S PROVE Front(Append(s, x)) = s /\ Last(Append(s, x)) = x
<1> DEFINE a == Append(s, x)
<1>1. a \in Seq(S) /\ Len(a) = Len(s) + 1 /\ (\A i \in 1 .. Len(s) : a[i] = s[i]) /\ a[Len(s) + 1] = x
  OBVIOUS
<1> HIDE DEF a
<1>2. Front(a) = [i \in 1 .. Len(s) |-> a[i]]
  <2>1. Len(a) - 1 = Len(s)
    BY <1>1
  <2> QED
    BY <2>1 DEF Front
<1>3. s = [i \in 1 .. Len(s) |-> s[i]]
  OBVIOUS
<1>4. Front(a) = s
  BY <1>1, <1>2, <1>3
<1>5. Last(a) = x
  BY <1>1 DEF Last
<1> QED
  BY <1>4, <1>5 DEF a

LEMMA PathParts ==
    ASSUME Sized, NEW t, Shaped(t), NEW n \in Used(t) \ Root
    PROVE  Front(Path(t, n)) = Path(t, t[n].parent) /\ Last(Path(t, n)) = t[n].name
<1> DEFINE p == t[n].parent
<1>1. p \in Used(t) /\ n \in Used(t)
  BY DEF Shaped
<1>2. t[n].name \in NodeName
  BY <1>1, UsedAre DEF Shaped, Node
<1>3. Path(t, p) \in Seq(NodeName)
  <2> HIDE DEF p
  <2> QED
    BY <1>1, PathIs
<1>4. Path(t, n) = Append(Path(t, p), t[n].name)
  BY PathStep
<1> QED
  BY <1>2, <1>3, <1>4, FrontLast

\* No two nodes have the same path.
LEMMA PathsDiffer ==
    ASSUME Sized, NEW t, Shaped(t), NEW n \in Used(t), NEW m \in Used(t), Path(t, n) = Path(t, m)
    PROVE  n = m
<1> DEFINE N == limits.depth
           S == {d \in 0 .. N : \A a, b \in Used(t) : Depth(t, a) = d /\ Depth(t, b) = d /\ Path(t, a) = Path(t, b) => a = b}
<1>1. N \in Nat
  BY DEF Sized
<1>2. \A a \in Used(t) : Depth(t, a) = 0 <=> a \in Root
  <2> SUFFICES ASSUME NEW a \in Used(t) PROVE Depth(t, a) = 0 <=> a \in Root
    OBVIOUS
  <2>1. Above(t, a)[Depth(t, a)] \in Root
    BY DepthIs
  <2>2. Above(t, a)[0] = a
    BY <1>1, AboveSteps
  <2> QED
    BY <2>1, <2>2, DepthRoot
<1>3. 0 \in S
  <2> SUFFICES ASSUME NEW a \in Root, NEW b \in Root, Path(t, a) = Path(t, b) PROVE a = b
    BY <1>1, <1>2
  <2> DEFINE x == IF a = Home THEN "home" ELSE "tmp"
             y == IF b = Home THEN "home" ELSE "tmp"
  <2>1. Path(t, a) = <<x>> /\ Path(t, b) = <<y>>
    BY PathRoot
  <2>2. x = y
    <3> HIDE DEF x, y
    <3>1. <<x>>[1] = x /\ <<y>>[1] = y
      OBVIOUS
    <3> QED
      BY <2>1, <3>1
  <2> QED
    BY <2>2 DEF Root, Home, Tmp
<1>4. ASSUME NEW d \in 0 .. N, d \in S, d # N PROVE d + 1 \in S
  <2> SUFFICES ASSUME NEW a \in Used(t), NEW b \in Used(t), Depth(t, a) = d + 1, Depth(t, b) = d + 1, Path(t, a) = Path(t, b)
               PROVE  a = b
    BY <1>1, <1>4
  <2> DEFINE p == t[a].parent
             q == t[b].parent
  <2>1. a \notin Root /\ b \notin Root
    BY <1>1, <1>2
  <2>2. p \in Used(t) /\ q \in Used(t)
    BY <2>1 DEF Shaped
  <2>3. Depth(t, a) = Depth(t, p) + 1 /\ Depth(t, b) = Depth(t, q) + 1
    BY <2>1, DepthParent
  <2>4. Path(t, p) = Path(t, q) /\ t[a].name = t[b].name
    BY <2>1, PathParts
  <2> HIDE DEF p, q
  <2>5. Depth(t, p) \in 0 .. N /\ Depth(t, q) \in 0 .. N
    BY <2>2, DepthIs
  <2>6. Depth(t, p) = d /\ Depth(t, q) = d
    BY <1>1, <2>3, <2>5
  <2>7. p = q
    BY <1>4, <2>2, <2>4, <2>6
  <2> QED
    BY <2>1, <2>4, <2>7 DEF Shaped, p, q
<1>5. \A d \in 0 .. N : d \in S
  <2> HIDE DEF S, N
  <2> QED
    BY <1>1, <1>3, <1>4, UpTo
<1>6. Depth(t, n) \in 0 .. N /\ Depth(t, m) \in 0 .. N
  BY DepthIs
<1>7. Depth(t, n) = Depth(t, m)
  <2>1. Len(Path(t, n)) = Depth(t, n) + 1 /\ Len(Path(t, m)) = Depth(t, m) + 1
    BY PathIs
  <2> QED
    BY <1>1, <1>6, <2>1
<1> HIDE DEF N
<1> QED
  BY <1>5, <1>6, <1>7

(***************************************************************************)
(* Changes of a tree                                                       *)
(***************************************************************************)
LEMMA ParentUsed ==
    ASSUME Sized, NEW t, Shaped(t), NEW n \in Used(t) PROVE t[n].parent \in Used(t) \cup {0}
  BY DEF Shaped

LEMMA Altered ==
    ASSUME Sized, NEW t, Shaped(t), NEW u \in [Slots -> Node],
           \A n \in Slots : u[n].kind = t[n].kind /\ u[n].parent = t[n].parent /\ u[n].name = t[n].name,
           \A n \in Slots \ Used(t) : u[n] = t[n],
           \A n \in Used(t) : t[n].kind = "dir" => u[n].size = 0 /\ u[n].extents = <<>>
    PROVE  Shaped(u) /\ Used(u) = Used(t)
<1>1. Used(u) = Used(t)
  BY DEF Used
<1>2. limits.depth \in Nat
  BY DEF Sized
<1>3. ASSUME NEW n \in Used(t) PROVE Above(u, n) = Above(t, n)
  <2>1. \A m \in Used(t) : u[m].parent = t[m].parent /\ t[m].parent \in Used(t) \cup {0}
    BY ParentUsed, UsedAre
  <2> QED
    BY <1>2, <2>1, AboveSame, UsedAre
<1>4. \A n \in Used(u) : \E d \in 0 .. limits.depth : Above(u, n)[d] \in Root
  BY <1>1, <1>3 DEF Shaped
<1>5. \A r \in Root : u[r].kind = "dir" /\ u[r].parent = 0 /\ u[r].name = IF r = Home THEN "home" ELSE "tmp"
  BY SlotsAre DEF Shaped
<1>6. \A n \in Used(u) \ Root : u[n].parent \in Used(u) /\ u[u[n].parent].kind = "dir"
  BY <1>1, UsedAre DEF Shaped
<1>7. \A n \in Slots \ Used(u) : u[n] = NoNode
  BY <1>1 DEF Shaped
<1>8. \A n, m \in Used(u) \ Root : u[n].parent = u[m].parent /\ u[n].name = u[m].name => n = m
  BY <1>1, UsedAre DEF Shaped
<1>9. \A n \in Used(u) : u[n].kind = "dir" => u[n].size = 0 /\ u[n].extents = <<>>
  BY <1>1, UsedAre
<1> QED
  BY <1>1, <1>4, <1>5, <1>6, <1>7, <1>8, <1>9 DEF Shaped

LEMMA PathSame ==
    ASSUME Sized, NEW t, Shaped(t), NEW u, Shaped(u), NEW m \in Used(t), m \in Used(u),
           Above(u, m) = Above(t, m), \A a \in Used(t) : u[a].name = t[a].name
    PROVE  Path(u, m) = Path(t, m)
<1> DEFINE d == Depth(t, m)
           a == Above(t, m)
<1>1. Depth(u, m) = d
  BY DEF Depth
<1>2. d \in 0 .. limits.depth /\ a[d] \in Root /\ limits.depth \in Nat
      /\ \A k \in 0 .. limits.depth + 1 : k < d => a[k] \in Used(t) \ Root
  BY DepthIs DEF Sized
<1>3. ASSUME NEW i \in 1 .. d + 1 PROVE u[a[d + 1 - i]].name = t[a[d + 1 - i]].name
  <2> HIDE DEF d, a
  <2> DEFINE k == d + 1 - i
  <2>1. k \in 0 .. limits.depth + 1 /\ (k < d \/ k = d)
    BY <1>2
  <2> HIDE DEF k
  <2>2. a[k] \in Used(t)
    BY <1>2, <2>1, UsedAre
  <2> QED
    BY <2>2 DEF k
<1>4. Path(u, m) = [i \in 1 .. d + 1 |-> u[a[d + 1 - i]].name]
  BY <1>1 DEF Path
<1>5. Path(t, m) = [i \in 1 .. d + 1 |-> t[a[d + 1 - i]].name]
  BY DEF Path
<1> HIDE DEF d, a
<1> QED
  BY <1>3, <1>4, <1>5

LEMMA NoneAbove ==
    ASSUME Sized, NEW t, Shaped(t), NEW p \in Used(t), Above(t, p)[limits.depth] = 0
    PROVE  Depth(t, p) + 1 \in 0 .. limits.depth /\ Depth(t, p) \in Nat
<1> DEFINE d == Depth(t, p)
<1>1. d \in 0 .. limits.depth /\ Above(t, p)[d] \in Root /\ limits.depth \in Nat
  BY DepthIs DEF Sized
<1> HIDE DEF d
<1>2. d # limits.depth
  BY <1>1, SlotsAre
<1> QED
  BY <1>1, <1>2 DEF d

Put(t, n, e) == [t EXCEPT ![n] = e]
\* A new node in a directory that is not too deep, under a new name.
LEMMA Grown ==
    ASSUME Sized, NEW t, Shaped(t), NEW p \in Used(t), t[p].kind = "dir", Above(t, p)[limits.depth] = 0,
           NEW n \in Slots \ Used(t), NEW e \in Node, e.parent = p, e.kind # "free", Child(t, p, e.name) = {},
           e.kind = "dir" => e.size = 0 /\ e.extents = <<>>
    PROVE  /\ Shaped(Put(t, n, e)) /\ Used(Put(t, n, e)) = Used(t) \cup {n}
           /\ \A m \in Used(t) : Path(Put(t, n, e), m) = Path(t, m)
           /\ Path(Put(t, n, e), n) = Append(Path(t, p), e.name)
<1> DEFINE u == Put(t, n, e)
<1>1. u \in [Slots -> Node] /\ u[n] = e /\ \A m \in Slots \ {n} : u[m] = t[m]
  BY DEF Shaped, Put
<1>2. Used(t) \subseteq Slots \ {n} /\ n \notin Root /\ n # 0 /\ Root \subseteq Used(t) /\ 0 \notin Used(t) /\ n # p
  BY UsedAre, SlotsAre
<1> HIDE DEF u
<1>3. Used(u) = Used(t) \cup {n}
  BY <1>1, <1>2 DEF Used
<1>4. \A m \in Used(t) : u[m] = t[m]
  BY <1>1, <1>2
<1>5. limits.depth \in Nat
  BY DEF Sized
<1>6. ASSUME NEW m \in Used(t) PROVE Above(u, m) = Above(t, m)
  <2>1. \A a \in Used(t) : u[a].parent = t[a].parent /\ t[a].parent \in Used(t) \cup {0}
    BY <1>4, ParentUsed
  <2> QED
    BY <1>2, <1>5, <2>1, AboveSame
<1>7. \A m \in Used(u) : \E d \in 0 .. limits.depth : Above(u, m)[d] \in Root
  <2>1. CASE limits.depth = 0
    <3>1. Depth(t, p) + 1 \in 0 .. limits.depth /\ Depth(t, p) \in Nat
      BY NoneAbove
    <3> QED
      BY <2>1, <3>1
  <2>2. \A m \in Used(t) : \E d \in 0 .. limits.depth : Above(u, m)[d] \in Root
    BY <1>6 DEF Shaped
  <2>3. Above(u, n)[Depth(t, p) + 1] \in Root
    <3>1. Depth(t, p) \in 0 .. limits.depth /\ Above(t, p)[Depth(t, p)] \in Root
      BY DepthIs
    <3>2. Above(u, n)[Depth(t, p) + 1] = Above(u, u[n].parent)[Depth(t, p)]
      BY <1>2, <3>1, AboveParent
    <3> QED
      BY <1>1, <1>6, <3>1, <3>2
  <2>4. Depth(t, p) + 1 \in 0 .. limits.depth
    BY NoneAbove
  <2> QED
    BY <1>3, <2>2, <2>3, <2>4
<1>8. \A r \in Root : u[r].kind = "dir" /\ u[r].parent = 0 /\ u[r].name = IF r = Home THEN "home" ELSE "tmp"
  BY <1>2, <1>4 DEF Shaped
<1>9. \A m \in Used(u) \ Root : u[m].parent \in Used(u) /\ u[u[m].parent].kind = "dir"
  <2>1. \A m \in Used(t) \ Root : t[m].parent \in Used(t) /\ t[t[m].parent].kind = "dir"
    BY DEF Shaped
  <2> QED
    BY <1>1, <1>3, <1>4, <2>1
<1>10. \A m \in Slots \ Used(u) : u[m] = NoNode
  BY <1>1, <1>3 DEF Shaped
<1>11. \A a, b \in Used(u) \ Root : u[a].parent = u[b].parent /\ u[a].name = u[b].name => a = b
  <2>1. \A a \in Used(t) : ~(t[a].parent = p /\ t[a].name = e.name)
    BY DEF Child
  <2>2. \A a, b \in Used(t) \ Root : t[a].parent = t[b].parent /\ t[a].name = t[b].name => a = b
    BY DEF Shaped
  <2> QED
    BY <1>1, <1>3, <1>4, <2>1, <2>2
<1>12. \A m \in Used(u) : u[m].kind = "dir" => u[m].size = 0 /\ u[m].extents = <<>>
  BY <1>1, <1>3, <1>4 DEF Shaped
<1>13. Shaped(u)
  BY <1>1, <1>7, <1>8, <1>9, <1>10, <1>11, <1>12 DEF Shaped
<1>14. \A m \in Used(t) : Path(u, m) = Path(t, m)
  BY <1>3, <1>4, <1>6, <1>13, PathSame
<1>15. Path(u, n) = Append(Path(t, p), e.name)
  <2>1. Path(u, n) = Append(Path(u, u[n].parent), u[n].name)
    BY <1>2, <1>3, <1>13, PathStep
  <2> QED
    BY <1>1, <1>14, <2>1
<1> QED
  BY <1>3, <1>13, <1>14, <1>15 DEF u

\* A node goes that is no directory of another.
LEMMA Shrunk ==
    ASSUME Sized, NEW t, Shaped(t), NEW n \in Used(t) \ Root, Children(t, n) = {}
    PROVE  /\ Shaped(Put(t, n, NoNode)) /\ Used(Put(t, n, NoNode)) = Used(t) \ {n}
           /\ \A m \in Used(Put(t, n, NoNode)) : Above(Put(t, n, NoNode), m) = Above(t, m)
<1> DEFINE u == Put(t, n, NoNode)
<1>1. u[n] = NoNode /\ \A m \in Slots \ {n} : u[m] = t[m]
  BY UsedAre DEF Shaped, Put
<1>2. u \in [Slots -> Node]
  <2>1. n \in Slots /\ t \in [Slots -> Node] /\ t[n] \in Node
    BY UsedAre DEF Shaped
  <2>2. NoNode \in Node
    <3>1. limits.size \in Nat /\ 0 \in 0 .. Cardinality(Handle)
      BY FS_CardinalityType DEF Sized
    <3>2. 0 \in 0 .. limits.size /\ <<>> \in Seq(Extent) /\ <<>> \in Seq(Value \cup {0})
      BY <3>1
    <3> QED
      BY <3>1, <3>2 DEF Node, NoNode, NodeName
  <2> QED
    BY <2>1, <2>2 DEF Put
<1>3. Used(t) \subseteq Slots /\ Root \subseteq Used(t) /\ 0 \notin Used(t)
  BY UsedAre
<1> HIDE DEF u
<1>4. Used(u) = Used(t) \ {n}
  <2>1. NoNode.kind = "free"
    BY DEF NoNode
  <2> QED
    BY <1>1, <1>3, <2>1 DEF Used
<1>5. \A m \in Used(u) : u[m] = t[m]
  BY <1>1, <1>3, <1>4
<1>6. \A m \in Used(u) : t[m].parent \in Used(u) \cup {0}
  <2>1. \A m \in Used(t) : t[m].parent # n
    BY DEF Children
  <2> QED
    BY <1>4, <2>1, ParentUsed
<1>7. ASSUME NEW m \in Used(u) PROVE Above(u, m) = Above(t, m)
  <2>1. limits.depth \in Nat /\ 0 \notin Used(u)
    BY <1>3, <1>4 DEF Sized
  <2>2. \A a \in Used(u) : u[a].parent = t[a].parent /\ t[a].parent \in Used(u) \cup {0}
    BY <1>5, <1>6
  <2> QED
    BY <2>1, <2>2, AboveSame
<1>8. \A m \in Used(u) : \E d \in 0 .. limits.depth : Above(u, m)[d] \in Root
  BY <1>4, <1>7 DEF Shaped
<1>9. \A r \in Root : u[r].kind = "dir" /\ u[r].parent = 0 /\ u[r].name = IF r = Home THEN "home" ELSE "tmp"
  BY <1>3, <1>4, <1>5 DEF Shaped
<1>10. \A m \in Used(u) \ Root : u[m].parent \in Used(u) /\ u[u[m].parent].kind = "dir"
  <2>1. \A m \in Used(t) \ Root : t[m].parent \in Used(t) /\ t[t[m].parent].kind = "dir"
    BY DEF Shaped
  <2> QED
    BY <1>3, <1>4, <1>5, <1>6, <2>1
<1>11. \A m \in Slots \ Used(u) : u[m] = NoNode
  BY <1>1, <1>4 DEF Shaped
<1>12. \A a, b \in Used(u) \ Root : u[a].parent = u[b].parent /\ u[a].name = u[b].name => a = b
  BY <1>4, <1>5 DEF Shaped
<1>13. \A m \in Used(u) : u[m].kind = "dir" => u[m].size = 0 /\ u[m].extents = <<>>
  BY <1>4, <1>5 DEF Shaped
<1>14. Shaped(u)
  BY <1>2, <1>8, <1>9, <1>10, <1>11, <1>12, <1>13 DEF Shaped
<1> QED
  BY <1>4, <1>7, <1>14 DEF u

\* Who is below a node is so by way of his directory, unless he is it.
LEMMA BelowParent ==
    ASSUME Sized, NEW t, Shaped(t), NEW m \in Used(t), NEW n \in Used(t), t[m].parent # 0,
           Descendant(t, t[m].parent, n)
    PROVE  Descendant(t, m, n)
<1>1. PICK k \in 0 .. limits.depth : Above(t, t[m].parent)[k] = n
  BY DEF Descendant
<1>2. m # 0 /\ limits.depth \in Nat /\ n # 0
  BY UsedAre DEF Sized
<1>3. Above(t, m)[k + 1] = n
  BY <1>1, <1>2, AboveParent
<1> DEFINE j == k + 1
<1>4. j \in 0 .. limits.depth + 1
  BY <1>2
<1> HIDE DEF j
<1>5. Above(t, m)[j] = n
  BY <1>3 DEF j
<1>6. ~(j > Depth(t, m)) /\ Depth(t, m) \in 0 .. limits.depth
  BY <1>2, <1>4, <1>5, DepthIs
<1>7. j \in 0 .. limits.depth
  BY <1>2, <1>4, <1>6
<1> QED
  BY <1>5, <1>7 DEF Descendant

LEMMA BelowItself ==
    ASSUME Sized, NEW t, NEW n PROVE Descendant(t, n, n)
<1>1. 0 \in 0 .. limits.depth /\ Above(t, n)[0] = n
  BY AboveSteps DEF Sized
<1> QED
  BY <1>1 DEF Descendant

Placed(t, n, p, x) == [t EXCEPT ![n].parent = p, ![n].name = x]
\* A node, and all below it, goes into another directory, if that is not below it
\* and no path gets too long.
LEMMA Moved ==
    ASSUME Sized, NEW t, Shaped(t), NEW n \in Used(t) \ Root, NEW p \in Used(t), t[p].kind = "dir",
           NEW x \in Name, Child(t, p, x) = {}, ~Descendant(t, p, n),
           \A m \in Used(t) : Descendant(t, m, n) => ~TooLong(Placed(t, n, p, x), m)
    PROVE  Shaped(Placed(t, n, p, x)) /\ Used(Placed(t, n, p, x)) = Used(t)
<1> DEFINE D == limits.depth
           u == Placed(t, n, p, x)
<1>0. \A m \in Used(t) : Descendant(t, m, n) => ~TooLong(u, m)
  OBVIOUS
<1>1. Used(t) \subseteq Slots /\ 0 \notin Used(t) /\ Root \subseteq Used(t) /\ p # n /\ n \in Used(t) /\ n # 0
  BY BelowItself, UsedAre
<1>2. u \in [Slots -> Node] /\ (\A m \in Slots \ {n} : u[m] = t[m]) /\ u[n].parent = p /\ u[n].name = x
      /\ u[n].kind = t[n].kind /\ u[n].size = t[n].size /\ u[n].extents = t[n].extents
  <2> DEFINE v == [t[n] EXCEPT !.parent = p, !.name = x]
  <2>1. t \in [Slots -> Node] /\ n \in Slots /\ p \in Slots
    BY <1>1 DEF Shaped
  <2>2. t[n] \in Node
    BY <2>1
  <2>3. x \in NodeName /\ p \in Slots \cup {0}
    BY <2>1 DEF NodeName
  <2>4. v \in Node /\ v.parent = p /\ v.name = x /\ v.kind = t[n].kind /\ v.size = t[n].size /\ v.extents = t[n].extents
    BY <2>2, <2>3 DEF Node
  <2>5. u = [t EXCEPT ![n] = v]
    BY <2>1 DEF Placed
  <2> HIDE DEF v
  <2> QED
    BY <2>1, <2>4, <2>5
<1> HIDE DEF u
<1>3. Used(u) = Used(t)
  BY <1>1, <1>2 DEF Used
<1>4. D \in Nat
  BY DEF Sized
<1> HIDE DEF D
\* What is not below n stays where it is.
<1> DEFINE S == {m \in Used(t) : ~Descendant(t, m, n)}
<1>5. ASSUME NEW m \in S PROVE Above(u, m) = Above(t, m)
  <2>1. ASSUME NEW a \in S PROVE u[a].parent = t[a].parent /\ t[a].parent \in S \cup {0}
    <3>1. a # n
      BY BelowItself
    <3>2. u[a] = t[a]
      BY <1>1, <1>2, <3>1
    <3>3. t[a].parent \in Used(t) \cup {0}
      BY ParentUsed
    <3>4. t[a].parent # 0 => ~Descendant(t, t[a].parent, n)
      BY <1>1, BelowParent
    <3> QED
      BY <3>2, <3>3, <3>4
  <2>2. 0 \notin S
    BY <1>1
  <2> HIDE DEF S
  <2>3. limits.depth \in Nat /\ m \in S /\ \A a \in S : u[a].parent = t[a].parent /\ t[a].parent \in S \cup {0}
    BY <1>4, <2>1 DEF D
  <2> QED
    BY <2>2, <2>3, AboveSame
<1>6. p \in S
  OBVIOUS
\* n itself is below p.
<1> DEFINE e == Depth(t, p)
           c == e + 1
<1>7. e \in 0 .. D /\ Above(t, p)[e] \in Root /\ \A k \in 0 .. D + 1 : k < e => Above(t, p)[k] \in Used(t) \ Root
  BY DepthIs DEF D
<1>8. ASSUME NEW k \in 0 .. D PROVE Above(u, n)[k + 1] = Above(t, p)[k]
  <2>1. Above(u, n)[k + 1] = Above(u, u[n].parent)[k]
    <3>1. k \in 0 .. limits.depth /\ n # 0
      BY <1>1 DEF D
    <3> HIDE DEF S
    <3> QED
      BY <3>1, AboveParent
  <2> QED
    BY <1>2, <1>5, <1>6, <2>1
<1>9. Above(u, n)[0] = n
  BY <1>4, AboveSteps DEF D
<1> HIDE DEF e, S
<1>10. c \in 0 .. D
  <2>1. Above(u, n)[D + 1] = 0
    BY <1>0, <1>1, BelowItself DEF TooLong, D
  <2>2. Above(t, p)[D] = 0
    <3>1. D \in 0 .. D
      BY <1>4
    <3> QED
      BY <1>8, <2>1, <3>1
  <2>3. e # D
    BY <1>1, <1>7, <2>2
  <2> QED
    BY <1>4, <1>7, <2>3
<1>11. Above(u, n)[c] \in Root
  BY <1>7, <1>8
<1> HIDE DEF c
<1>12. ASSUME NEW k \in 0 .. D + 1, k <= c PROVE Above(u, n)[k] # 0
  <2>1. CASE k = 0
    BY <1>1, <1>9, <2>1
  <2>2. CASE k # 0
    <3> DEFINE j == k - 1
    <3>1. j \in 0 .. D /\ j + 1 = k /\ (j < e \/ j = e)
      BY <1>4, <1>7, <1>12, <2>2 DEF c
    <3> HIDE DEF j
    <3>2. Above(u, n)[j + 1] = Above(t, p)[j]
      BY <1>8, <3>1
    <3>3. j \in 0 .. D + 1
      BY <1>4, <3>1
    <3>4. Above(t, p)[j] \in Used(t)
      BY <1>1, <1>7, <3>1, <3>3
    <3> QED
      BY <1>1, <3>1, <3>2, <3>4
  <2> QED
    BY <2>1, <2>2
\* What is below n is as far below it as before.
<1>13. ASSUME NEW m \in Used(t), Descendant(t, m, n) PROVE \E d \in 0 .. D : Above(u, m)[d] \in Root
  <2> DEFINE At == {k \in 0 .. D : Above(t, m)[k] = n}
  <2>1. PICK j \in At : \A k \in At : j <= k
    <3>1. At \in SUBSET Nat /\ At # {}
      BY <1>4, <1>13 DEF Descendant, D
    <3> HIDE DEF At
    <3> QED
      BY <3>1, LeastNumber
  <2>2. j \in 0 .. D /\ j \in Nat /\ Above(t, m)[j] = n /\ \A k \in 0 .. D : k < j => Above(t, m)[k] # n
    <3>1. j \in 0 .. D /\ j \in Nat /\ Above(t, m)[j] = n
      BY <1>4
    <3>2. ASSUME NEW k \in 0 .. D, k < j, Above(t, m)[k] = n PROVE FALSE
      <4>1. j <= k /\ k \in Nat
        BY <1>4, <2>1, <3>2
      <4> QED
        BY <3>1, <3>2, <4>1
    <3> QED
      BY <3>1, <3>2
  <2> HIDE DEF At
  <2> DEFINE Same == {i \in 0 .. j : Above(u, m)[i] = Above(t, m)[i]}
  <2>3. 0 \in Same
    BY <1>4, <2>2, AboveSteps DEF D
  <2>4. ASSUME NEW i \in 0 .. j, i \in Same, i # j PROVE i + 1 \in Same
    <3>1. i \in 0 .. D /\ i \in 0 .. D + 1 /\ i < j /\ i + 1 \in 0 .. j
      BY <1>4, <2>2, <2>4
    <3>2. Above(u, m)[i + 1] = Up(u, Above(u, m)[i]) /\ Above(t, m)[i + 1] = Up(t, Above(t, m)[i])
      BY <1>4, <3>1, AboveSteps DEF D
    <3>3. Above(t, m)[i] \in Used(t) \cup {0} /\ Above(t, m)[i] # n
      BY <2>2, <3>1, WayUsed DEF D
    <3>4. Up(u, Above(t, m)[i]) = Up(t, Above(t, m)[i])
      BY <1>1, <1>2, <3>3 DEF Up
    <3> QED
      BY <2>4, <3>1, <3>2, <3>4
  <2>5. Above(u, m)[j] = n
    <3>1. \A i \in 0 .. j : i \in Same
      <4> HIDE DEF Same
      <4> QED
        BY <2>2, <2>3, <2>4, UpTo
    <3>2. j \in 0 .. j
      BY <2>2
    <3> QED
      BY <2>2, <3>1, <3>2
  <2>6. ASSUME NEW k \in 0 .. D + 1 - j PROVE Above(u, m)[j + k] = Above(u, n)[k]
    <3>1. j \in 0 .. D + 1
      BY <1>4, <2>2
    <3>2. Above(u, m)[j + k] = Above(u, Above(u, m)[j])[k]
      BY <1>4, <3>1, AboveAdds DEF D
    <3> QED
      BY <2>5, <3>2
  <2>7. j + c <= D
    <3> SUFFICES ASSUME ~(j + c <= D) PROVE FALSE
      OBVIOUS
    <3> DEFINE k == D + 1 - j
    <3>1. k \in 0 .. D + 1 - j /\ j + k = D + 1 /\ k \in 0 .. D + 1 /\ k <= c
      BY <1>4, <1>10, <2>2
    <3> HIDE DEF k
    <3>2. Above(u, m)[D + 1] = Above(u, n)[k]
      BY <2>6, <3>1
    <3>3. Above(u, m)[D + 1] = 0
      BY <1>0, <1>13 DEF TooLong, D
    <3> QED
      BY <1>12, <3>1, <3>2, <3>3
  <2>8. j + c \in 0 .. D /\ c \in 0 .. D + 1 - j
    BY <1>4, <1>10, <2>2, <2>7
  <2>9. Above(u, m)[j + c] \in Root
    BY <1>11, <2>6, <2>8
  <2> QED
    BY <2>8, <2>9
<1>14. \A m \in Used(u) : \E d \in 0 .. D : Above(u, m)[d] \in Root
  <2>1. \A m \in S : \E d \in 0 .. D : Above(u, m)[d] \in Root
    BY <1>5 DEF Shaped, S, D
  <2> QED
    BY <1>3, <1>13, <2>1 DEF S
<1>15. \A r \in Root : u[r].kind = "dir" /\ u[r].parent = 0 /\ u[r].name = IF r = Home THEN "home" ELSE "tmp"
  BY <1>1, <1>2 DEF Shaped
<1>16. \A m \in Used(u) \ Root : u[m].parent \in Used(u) /\ u[u[m].parent].kind = "dir"
  <2>1. \A m \in Used(t) \ Root : t[m].parent \in Used(t) /\ t[t[m].parent].kind = "dir"
    BY DEF Shaped
  <2>2. \A m \in Used(t) : u[m].kind = t[m].kind
    BY <1>1, <1>2
  <2>3. ASSUME NEW m \in Used(t) \ Root PROVE u[m].parent \in Used(t) /\ u[u[m].parent].kind = "dir"
    <3>1. CASE m = n
      BY <1>2, <2>2, <3>1
    <3>2. CASE m # n
      BY <1>1, <1>2, <2>1, <2>2, <3>2
    <3> QED
      BY <3>1, <3>2
  <2> QED
    BY <1>3, <2>3
<1>17. \A m \in Slots \ Used(u) : u[m] = NoNode
  BY <1>1, <1>2, <1>3 DEF Shaped
<1>18. \A a, b \in Used(u) \ Root : u[a].parent = u[b].parent /\ u[a].name = u[b].name => a = b
  <2>1. \A a \in Used(t) : ~(t[a].parent = p /\ t[a].name = x)
    BY DEF Child
  <2>2. \A a, b \in Used(t) \ Root : t[a].parent = t[b].parent /\ t[a].name = t[b].name => a = b
    BY DEF Shaped
  <2> QED
    BY <1>1, <1>2, <1>3, <2>1, <2>2
<1>19. \A m \in Used(u) : u[m].kind = "dir" => u[m].size = 0 /\ u[m].extents = <<>>
  BY <1>1, <1>2, <1>3 DEF Shaped
<1>20. Shaped(u)
  BY <1>2, <1>14, <1>15, <1>16, <1>17, <1>18, <1>19 DEF Shaped, D
<1> QED
  BY <1>3, <1>20 DEF u

(***************************************************************************)
(* Maps of files                                                           *)
(***************************************************************************)
Piece == [logical : Nat, physical : Nat, blocks : Nat]
End(e) == e.logical + e.blocks
\* The block l of a file is the block p of the volume, in a run, in a map.
Has(e, l, p) == e.logical <= l /\ l < End(e) /\ p = e.physical + (l - e.logical)
Owns(map, l, p) == \E i \in DOMAIN map : Has(map[i], l, p)
Ordered(map) == \A i, j \in DOMAIN map : i < j => End(map[i]) <= map[j].logical

LEMMA AddedKeeps ==
    ASSUME NEW map \in Seq(Extent), Ordered(map), NEW e \in Piece,
           e.blocks # 0 => \A i \in DOMAIN map : End(map[i]) <= e.logical
    PROVE  /\ Added(map, e) \in Seq(Extent) /\ Ordered(Added(map, e))
           /\ \A l, p \in Nat : Owns(Added(map, e), l, p) => Owns(map, l, p) \/ Has(e, l, p)
           /\ \A b \in Nat : (\A i \in DOMAIN map : End(map[i]) <= b) /\ (e.blocks # 0 => End(e) <= b)
                             => \A i \in DOMAIN Added(map, e) : End(Added(map, e)[i]) <= b
<1> DEFINE n == Len(map)
           new == Added(map, e)
<1>0. n \in Nat /\ DOMAIN map = 1 .. n /\ \A i \in 1 .. n : map[i] \in Extent
  OBVIOUS
<1>1. CASE e.blocks = 0
  <2>1. new = map
    BY <1>1 DEF Added
  <2> QED
    BY <1>1, <2>1
<1>2. CASE e.blocks # 0 /\ map # <<>> /\ Last(map).logical + Last(map).blocks = e.logical
                        /\ Last(map).physical + Last(map).blocks = e.physical
  <2> DEFINE last == map[n]
             long == [last EXCEPT !.blocks = @ + e.blocks]
  <2>1. n \in 1 .. n /\ Last(map) = last /\ last \in Extent
    BY <1>0, <1>2 DEF Last
  <2>2. long \in Extent /\ long.logical = last.logical /\ long.physical = last.physical
        /\ long.blocks = last.blocks + e.blocks /\ End(long) = End(e)
    <3>1. last \in Extent /\ e.blocks \in Nat \ {0} /\ last.blocks \in Nat \ {0} /\ last.logical \in Nat
      BY <1>2, <2>1 DEF Extent, Piece
    <3>2. last.logical + last.blocks = e.logical /\ last.physical + last.blocks = e.physical
      BY <1>2, <2>1
    <3> HIDE DEF last
    <3>3. last.blocks + e.blocks \in Nat \ {0}
      BY <3>1
    <3>4. long \in Extent /\ long.logical = last.logical /\ long.physical = last.physical
          /\ long.blocks = last.blocks + e.blocks
      BY <3>1, <3>3 DEF Extent
    <3> HIDE DEF long
    <3>5. End(long) = End(e) /\ last.logical + last.blocks = e.logical /\ last.physical + last.blocks = e.physical
      BY <3>1, <3>2, <3>4 DEF End
    <3> QED
      BY <3>2, <3>4, <3>5
  <2>10. last.logical + last.blocks = e.logical /\ last.physical + last.blocks = e.physical
    BY <1>2, <2>1
  <2>3. new = [map EXCEPT ![n] = long]
    BY <1>2, <2>1 DEF Added
  <2> HIDE DEF new, long, n
  <2>4. new \in Seq(Extent) /\ Len(new) = n /\ DOMAIN new = 1 .. n /\ new[n] = long /\ \A i \in 1 .. n : i # n => new[i] = map[i]
    BY <1>0, <2>1, <2>2, <2>3
  <2>5. Ordered(new)
    <3> SUFFICES ASSUME NEW i \in 1 .. n, NEW j \in 1 .. n, i < j PROVE End(new[i]) <= new[j].logical
      BY <2>4 DEF Ordered
    <3>1. i # n /\ new[j].logical = map[j].logical
      BY <1>0, <2>1, <2>2, <2>4
    <3> QED
      BY <1>0, <2>4, <3>1 DEF Ordered
  <2>6. ASSUME NEW l \in Nat, NEW p \in Nat, Owns(new, l, p) PROVE Owns(map, l, p) \/ Has(e, l, p)
    <3>1. PICK i \in 1 .. n : Has(new[i], l, p)
      BY <2>4, <2>6 DEF Owns
    <3>2. CASE i # n
      BY <1>0, <2>4, <3>1, <3>2 DEF Owns
    <3>3. CASE i = n
      <4>1. Has(long, l, p)
        BY <2>4, <3>1, <3>3
      <4>2. Has(last, l, p) \/ Has(e, l, p)
        <5>1. last.logical \in Nat /\ last.physical \in Nat /\ last.blocks \in Nat /\ e.blocks \in Nat
          BY <2>1 DEF Extent, Piece
        <5>2. long.logical = last.logical /\ long.physical = last.physical /\ long.blocks = last.blocks + e.blocks
          BY <2>2
        <5> HIDE DEF last
        <5> QED
          BY <2>10, <4>1, <5>1, <5>2 DEF Has, End
      <4> QED
        BY <1>0, <2>1, <4>2 DEF Owns
    <3> QED
      BY <3>2, <3>3
  <2>7. ASSUME NEW b \in Nat, \A i \in DOMAIN map : End(map[i]) <= b, End(e) <= b, NEW i \in DOMAIN new
        PROVE  End(new[i]) <= b
    BY <1>0, <2>2, <2>4, <2>7
  <2> QED
    BY <1>2, <2>4, <2>5, <2>6, <2>7 DEF new
<1>3. CASE e.blocks # 0 /\ ~(map # <<>> /\ Last(map).logical + Last(map).blocks = e.logical
                             /\ Last(map).physical + Last(map).blocks = e.physical)
  <2>1. new = Append(map, e) /\ e \in Extent
    BY <1>3 DEF Added, Extent, Piece
  <2> HIDE DEF new, n
  <2>2. new \in Seq(Extent) /\ Len(new) = n + 1 /\ DOMAIN new = 1 .. n + 1 /\ new[n + 1] = e /\ \A i \in 1 .. n : new[i] = map[i]
    BY <1>0, <2>1 DEF n
  <2>3. \A i \in 1 .. n + 1 : i = n + 1 \/ i \in 1 .. n
    BY <1>0
  <2>4. Ordered(new)
    <3> SUFFICES ASSUME NEW i \in 1 .. n + 1, NEW j \in 1 .. n + 1, i < j PROVE End(new[i]) <= new[j].logical
      BY <2>2 DEF Ordered
    <3>1. i \in 1 .. n
      BY <1>0
    <3>2. CASE j = n + 1
      BY <1>0, <1>3, <2>2, <3>1, <3>2
    <3>3. CASE j \in 1 .. n
      BY <1>0, <2>2, <3>1, <3>3 DEF Ordered
    <3> QED
      BY <2>3, <3>2, <3>3
  <2>5. ASSUME NEW l \in Nat, NEW p \in Nat, Owns(new, l, p) PROVE Owns(map, l, p) \/ Has(e, l, p)
    BY <1>0, <2>2, <2>3, <2>5 DEF Owns
  <2>6. ASSUME NEW b \in Nat, \A i \in DOMAIN map : End(map[i]) <= b, End(e) <= b, NEW i \in DOMAIN new
        PROVE  End(new[i]) <= b
    BY <1>0, <2>2, <2>3, <2>6
  <2> QED
    BY <1>3, <2>2, <2>4, <2>5, <2>6 DEF new
<1> QED
  BY <1>1, <1>2, <1>3

\* The recursion of Joined defines a function.
LEMMA JoinedSteps ==
    ASSUME NEW S, NEW pieces \in Seq(S)
    PROVE  \E map : /\ map[0] = <<>> /\ Joined(pieces) = map[Len(pieces)]
                    /\ \A i \in 1 .. Len(pieces) : map[i] = Added(map[i - 1], pieces[i])
<1> DEFINE N == Len(pieces)
           Step(f, N0) == [i \in 0 .. N0 |-> IF i = 0 THEN <<>> ELSE Added(f[i - 1], pieces[i])]
           Built == {k \in 0 .. N : \E f : f = Step(f, k)}
<1>1. N \in Nat
  OBVIOUS
<1> HIDE DEF N
<1>2. 0 \in Built
  <2> DEFINE f == [i \in 0 .. 0 |-> <<>>]
  <2>1. f = Step(f, 0)
    OBVIOUS
  <2> HIDE DEF f, Step
  <2> QED
    BY <1>1, <2>1
<1>3. ASSUME NEW k \in 0 .. N, k \in Built, k # N PROVE k + 1 \in Built
  <2>1. PICK f : f = Step(f, k)
    BY <1>3
  <2> DEFINE g == [j \in 0 .. k + 1 |-> IF j = k + 1 THEN Added(f[k], pieces[k + 1]) ELSE f[j]]
  <2>2. \A j \in 0 .. k : f[j] = IF j = 0 THEN <<>> ELSE Added(f[j - 1], pieces[j])
    BY <2>1
  <2>3. ASSUME NEW j \in 0 .. k + 1 PROVE g[j] = IF j = 0 THEN <<>> ELSE Added(g[j - 1], pieces[j])
    <3>1. CASE j = k + 1
      <4>1. k \in 0 .. k + 1 /\ k # k + 1 /\ j - 1 = k /\ j # 0
        BY <1>1, <3>1
      <4> QED
        BY <3>1, <4>1
    <3>2. CASE j # k + 1
      <4>1. j \in 0 .. k /\ (j # 0 => j - 1 \in 0 .. k + 1 /\ j - 1 # k + 1)
        BY <1>1, <3>2
      <4> QED
        BY <2>2, <3>2, <4>1
    <3> QED
      BY <3>1, <3>2
  <2>4. g = Step(g, k + 1)
    <3>1. g = [j \in 0 .. k + 1 |-> g[j]]
      OBVIOUS
    <3> HIDE DEF g
    <3> QED
      BY <2>3, <3>1
  <2>5. k + 1 \in 0 .. N
    BY <1>1, <1>3
  <2> HIDE DEF g, Step
  <2> QED
    BY <2>4, <2>5
<1>4. N \in Built
  <2> HIDE DEF Built
  <2>1. N \in 0 .. N
    BY <1>1
  <2> QED
    BY <1>1, <1>2, <1>3, <2>1, UpTo
<1>5. \E f : f = Step(f, N)
  BY <1>4
<1> DEFINE map == CHOOSE f : f = Step(f, N)
<1>6. map = Step(map, N)
  <2> HIDE DEF Step
  <2> QED
    BY <1>5
<1>7. Joined(pieces) = map[N]
  BY DEF Joined, N
<1> HIDE DEF map
<1>8. \A i \in 0 .. N : map[i] = IF i = 0 THEN <<>> ELSE Added(map[i - 1], pieces[i])
  BY <1>6
<1>9. map[0] = <<>> /\ \A i \in 1 .. N : map[i] = Added(map[i - 1], pieces[i])
  <2>1. 0 \in 0 .. N /\ \A i \in 1 .. N : i \in 0 .. N /\ i # 0
    BY <1>1
  <2> QED
    BY <1>8, <2>1
<1> QED
  BY <1>7, <1>9 DEF N

\* Pieces in order make a map of their blocks.
LEMMA JoinedIs ==
    ASSUME NEW pieces \in Seq(Piece),
           \A i, j \in 1 .. Len(pieces) : i < j /\ pieces[i].blocks # 0 /\ pieces[j].blocks # 0
                                          => End(pieces[i]) <= pieces[j].logical
    PROVE  /\ Joined(pieces) \in Seq(Extent) /\ Ordered(Joined(pieces))
           /\ \A l, p \in Nat : Owns(Joined(pieces), l, p) => \E i \in 1 .. Len(pieces) : Has(pieces[i], l, p)
<1> DEFINE N == Len(pieces)
<1>1. N \in Nat /\ \A i \in 1 .. N : pieces[i] \in Piece
  OBVIOUS
<1>2. PICK map : map[0] = <<>> /\ Joined(pieces) = map[N] /\ \A i \in 1 .. N : map[i] = Added(map[i - 1], pieces[i])
  BY JoinedSteps
<1> HIDE DEF N
<1> DEFINE Right(i) ==
              /\ map[i] \in Seq(Extent) /\ Ordered(map[i])
              /\ \A l, p \in Nat : Owns(map[i], l, p) => \E j \in 1 .. i : Has(pieces[j], l, p)
              /\ \A j \in i + 1 .. N : pieces[j].blocks # 0 => \A a \in DOMAIN map[i] : End(map[i][a]) <= pieces[j].logical
           S == {i \in 0 .. N : Right(i)}
<1>3. 0 \in S
  <2>1. DOMAIN <<>> = {}
    OBVIOUS
  <2>2. Right(0)
    BY <1>2, <2>1 DEF Ordered, Owns
  <2> HIDE DEF Right
  <2> QED
    BY <1>1, <2>2
<1>4. ASSUME NEW i \in 0 .. N, i \in S, i # N PROVE i + 1 \in S
  <2> DEFINE k == i + 1
             old == map[i]
             new == map[k]
             e == pieces[k]
  <2>1. k \in 1 .. N /\ k - 1 = i /\ k \in i + 1 .. N /\ i \in Nat
    BY <1>1, <1>4
  <2>2. new = Added(old, e) /\ e \in Piece
    BY <1>1, <1>2, <2>1
  <2>3. Right(i)
    BY <1>4
  <2>4. old \in Seq(Extent) /\ Ordered(old) /\ (e.blocks # 0 => \A a \in DOMAIN old : End(old[a]) <= e.logical)
        /\ \A l, p \in Nat : Owns(old, l, p) => \E j \in 1 .. i : Has(pieces[j], l, p)
    BY <2>1, <2>3
  <2>5. \A j \in i + 1 .. N : pieces[j].blocks # 0 => \A a \in DOMAIN old : End(old[a]) <= pieces[j].logical
    BY <2>3
  <2> HIDE DEF Right, k, old, new, e, S
  <2>6. /\ new \in Seq(Extent) /\ Ordered(new)
        /\ \A l, p \in Nat : Owns(new, l, p) => Owns(old, l, p) \/ Has(e, l, p)
        /\ \A b \in Nat : (\A a \in DOMAIN old : End(old[a]) <= b) /\ (e.blocks # 0 => End(e) <= b)
                             => \A a \in DOMAIN new : End(new[a]) <= b
    BY <2>2, <2>4, AddedKeeps
  <2>7. \A l, p \in Nat : Owns(new, l, p) => \E j \in 1 .. k : Has(pieces[j], l, p)
    <3>1. \A j \in 1 .. i : j \in 1 .. k
      BY <2>1
    <3>2. k \in 1 .. k
      BY <2>1
    <3> QED
      BY <2>4, <2>6, <3>1, <3>2 DEF e
  <2>8. ASSUME NEW j \in k + 1 .. N, pieces[j].blocks # 0, NEW a \in DOMAIN new PROVE End(new[a]) <= pieces[j].logical
    <3>1. j \in i + 1 .. N /\ k < j /\ j \in 1 .. N
      BY <1>1, <2>1 DEF k
    <3>2. pieces[j].logical \in Nat
      BY <1>1, <3>1 DEF Piece
    <3>3. e.blocks # 0 => End(e) <= pieces[j].logical
      BY <2>1, <2>8, <3>1 DEF e, N
    <3>4. \A c \in DOMAIN old : End(old[c]) <= pieces[j].logical
      BY <2>5, <2>8, <3>1
    <3> QED
      BY <2>6, <3>2, <3>3, <3>4
  <2>9. Right(k)
    BY <2>6, <2>7, <2>8 DEF Right, new
  <2>10. k \in 0 .. N
    BY <1>1, <2>1
  <2> QED
    BY <2>9, <2>10 DEF S, k
<1>5. N \in S
  <2> HIDE DEF S
  <2>1. N \in 0 .. N
    BY <1>1
  <2> QED
    BY <1>1, <1>3, <1>4, <2>1, UpTo
<1>6. Right(N)
  BY <1>5
<1> QED
  BY <1>2, <1>6 DEF N

LEMMA BeforeIs ==
    ASSUME NEW e \in Extent, NEW first \in Nat
    PROVE  /\ Before(e, first) \in Piece
           /\ Before(e, first).blocks # 0 => Before(e, first).logical = e.logical /\ End(Before(e, first)) <= End(e)
                                             /\ End(Before(e, first)) <= first
           /\ \A l, p \in Nat : Has(Before(e, first), l, p) => Has(e, l, p) /\ l < first
<1> DEFINE lo == e.logical
           b == e.blocks
           at == e.physical
           c == IF first < lo THEN 0 ELSE IF b < first - lo THEN b ELSE first - lo
           x == Before(e, first)
<1>1. lo \in Nat /\ b \in Nat /\ at \in Nat
  BY DEF Extent
<1>2. x = [logical |-> lo, physical |-> at, blocks |-> c]
  BY DEF Before, Extent
<1> HIDE DEF lo, b, at
<1>3. c \in Nat /\ c <= b /\ (c # 0 => lo + c <= first)
  BY <1>1
<1> HIDE DEF c, x
<1>4. x \in Piece /\ x.logical = lo /\ x.physical = at /\ x.blocks = c
  BY <1>1, <1>2, <1>3 DEF Piece
<1>5. x.blocks # 0 => x.logical = lo /\ End(x) <= lo + b /\ End(x) <= first
  BY <1>1, <1>3, <1>4 DEF End
<1>6. ASSUME NEW l \in Nat, NEW p \in Nat, Has(x, l, p)
      PROVE  lo <= l /\ l < lo + b /\ p = at + (l - lo) /\ l < first
  BY <1>1, <1>3, <1>4, <1>6 DEF Has, End
<1> QED
  BY <1>4, <1>5, <1>6 DEF x, lo, b, at, Has, End

LEMMA AfterIs ==
    ASSUME NEW e \in Extent, NEW end \in Nat
    PROVE  /\ After(e, end) \in Piece
           /\ After(e, end).blocks # 0 => After(e, end).logical >= e.logical /\ End(After(e, end)) = End(e)
                                          /\ After(e, end).logical >= end
           /\ \A l, p \in Nat : Has(After(e, end), l, p) => Has(e, l, p) /\ l >= end
<1> DEFINE lo == e.logical
           b == e.blocks
           at == e.physical
           c == IF end < lo THEN 0 ELSE IF b < end - lo THEN b ELSE end - lo
           x == After(e, end)
<1>1. lo \in Nat /\ b \in Nat /\ at \in Nat
  BY DEF Extent
<1>2. x = [logical |-> lo + c, physical |-> at + c, blocks |-> b - c]
  BY DEF After
<1> HIDE DEF lo, b, at
<1>3. c \in Nat /\ c <= b /\ (b - c # 0 => lo + c >= end)
  BY <1>1
<1> HIDE DEF c, x
<1>4. x \in Piece /\ x.logical = lo + c /\ x.physical = at + c /\ x.blocks = b - c
  BY <1>1, <1>2, <1>3 DEF Piece
<1>5. x.blocks # 0 => x.logical >= lo /\ End(x) = lo + b /\ x.logical >= end
  BY <1>1, <1>3, <1>4 DEF End
<1>6. ASSUME NEW l \in Nat, NEW p \in Nat, Has(x, l, p)
      PROVE  lo <= l /\ l < lo + b /\ p = at + (l - lo) /\ l >= end
  BY <1>1, <1>3, <1>4, <1>6 DEF Has, End
<1> QED
  BY <1>4, <1>5, <1>6 DEF x, lo, b, at, Has, End

\* The map after a write: the new run where it went, the old map elsewhere.
LEMMA RemappedIs ==
    ASSUME NEW map \in Seq(Extent), Ordered(map), NEW first \in Nat, NEW end \in Nat, first < end, NEW at \in Nat
    PROVE  /\ Remapped(map, first, end, at) \in Seq(Extent) /\ Ordered(Remapped(map, first, end, at))
           /\ \A l, p \in Nat : Owns(Remapped(map, first, end, at), l, p) =>
                 \/ Owns(map, l, p) /\ ~(first <= l /\ l < end)
                 \/ first <= l /\ l < end /\ p = at + (l - first)
<1> DEFINE n == Len(map)
           new == [logical |-> first, physical |-> at, blocks |-> end - first]
           starts == [i \in DOMAIN map |-> Before(map[i], first)]
           rests == [i \in DOMAIN map |-> After(map[i], end)]
           pieces == starts \o <<new>> \o rests
<1>1. n \in Nat /\ DOMAIN map = 1 .. n /\ \A i \in 1 .. n : map[i] \in Extent
  OBVIOUS
<1>2. starts \in Seq(Piece) /\ Len(starts) = n /\ \A i \in 1 .. n : starts[i] = Before(map[i], first)
  <2>1. starts \in [1 .. n -> Piece]
    BY <1>1, BeforeIs
  <2> QED
    BY <1>1, <2>1
<1>3. rests \in Seq(Piece) /\ Len(rests) = n /\ \A i \in 1 .. n : rests[i] = After(map[i], end)
  <2>1. rests \in [1 .. n -> Piece]
    BY <1>1, AfterIs
  <2> QED
    BY <1>1, <2>1
<1>4. new \in Piece /\ new.blocks = end - first /\ new.logical = first /\ End(new) = end /\ new.physical = at
  BY DEF Piece, End
<1> HIDE DEF n, new, starts, rests
<1>5. /\ pieces \in Seq(Piece) /\ Len(pieces) = n + 1 + n
      /\ \A i \in 1 .. n : pieces[i] = Before(map[i], first) /\ pieces[n + 1 + i] = After(map[i], end)
      /\ pieces[n + 1] = new
  <2> DEFINE most == starts \o <<new>>
  <2>1. <<new>> \in Seq(Piece) /\ Len(<<new>>) = 1 /\ <<new>>[1] = new
    BY <1>4
  <2>2. most \in Seq(Piece) /\ Len(most) = n + 1 /\ (\A i \in 1 .. n : most[i] = starts[i]) /\ most[n + 1] = new
    BY <1>1, <1>2, <2>1
  <2> HIDE DEF most
  <2>3. /\ most \o rests \in Seq(Piece) /\ Len(most \o rests) = n + 1 + n
        /\ (\A i \in 1 .. n + 1 : (most \o rests)[i] = most[i])
        /\ (\A i \in 1 .. n : (most \o rests)[n + 1 + i] = rests[i])
    BY <1>1, <1>3, <2>2
  <2>4. \A i \in 1 .. n : i \in 1 .. n + 1
    BY <1>1
  <2>5. n + 1 \in 1 .. n + 1
    BY <1>1
  <2> QED
    BY <1>2, <1>3, <2>2, <2>3, <2>4, <2>5 DEF most
<1> HIDE DEF pieces
<1>6. ASSUME NEW i \in 1 .. n + 1 + n PROVE i \in 1 .. n \/ i = n + 1 \/ \E j \in 1 .. n : i = n + 1 + j
  <2>1. CASE i > n + 1
    <3>1. i - (n + 1) \in 1 .. n /\ i = n + 1 + (i - (n + 1))
      BY <1>1, <2>1
    <3> QED
      BY <3>1
  <2>2. CASE ~(i > n + 1)
    BY <1>1, <2>2
  <2> QED
    BY <2>1, <2>2
<1>7. ASSUME NEW i \in 1 .. n PROVE
        /\ pieces[i].blocks # 0 => /\ pieces[i].logical = map[i].logical
                                   /\ End(pieces[i]) <= End(map[i]) /\ End(pieces[i]) <= first
        /\ pieces[n + 1 + i].blocks # 0 => /\ pieces[n + 1 + i].logical >= map[i].logical
                                           /\ End(pieces[n + 1 + i]) = End(map[i])
                                           /\ pieces[n + 1 + i].logical >= end
  BY <1>1, <1>5, BeforeIs, AfterIs
<1>8. \A i \in 1 .. n + 1 + n : pieces[i].logical \in Nat /\ End(pieces[i]) \in Nat
  <2>1. \A i \in 1 .. n + 1 + n : pieces[i] \in Piece
    BY <1>5
  <2> QED
    BY <2>1 DEF Piece, End
<1>9. \A i \in 1 .. n : map[i].logical \in Nat /\ End(map[i]) \in Nat
  BY <1>1 DEF Extent, End
<1>10. ASSUME NEW i \in 1 .. n + 1 + n, NEW j \in 1 .. n + 1 + n, i < j, pieces[i].blocks # 0, pieces[j].blocks # 0
       PROVE  End(pieces[i]) <= pieces[j].logical
  <2>1. CASE i \in 1 .. n
    <3>1. pieces[i].logical = map[i].logical /\ End(pieces[i]) <= End(map[i]) /\ End(pieces[i]) <= first
      BY <1>7, <1>10, <2>1
    <3>2. CASE j \in 1 .. n
      <4>1. pieces[j].logical = map[j].logical
        BY <1>7, <1>10, <3>2
      <4>2. End(map[i]) <= map[j].logical
        BY <1>1, <1>10, <2>1, <3>2 DEF Ordered
      <4> QED
        BY <1>8, <1>9, <2>1, <3>1, <3>2, <4>1, <4>2
    <3>3. CASE j = n + 1
      BY <1>4, <1>5, <3>1, <3>3
    <3>4. CASE \E k \in 1 .. n : j = n + 1 + k
      <4>1. pieces[j].logical >= end
        BY <1>7, <1>10, <3>4
      <4> QED
        BY <1>8, <3>1, <4>1
    <3> QED
      BY <1>6, <3>2, <3>3, <3>4
  <2>2. CASE i = n + 1
    <3>1. PICK k \in 1 .. n : j = n + 1 + k
      BY <1>1, <1>6, <1>10, <2>2
    <3>2. pieces[j].logical >= end
      BY <1>7, <1>10, <3>1
    <3> QED
      BY <1>4, <1>5, <1>8, <2>2, <3>2
  <2>3. CASE \E k \in 1 .. n : i = n + 1 + k
    <3>1. PICK k \in 1 .. n : i = n + 1 + k
      BY <2>3
    <3>2. PICK m \in 1 .. n : j = n + 1 + m
      BY <1>1, <1>6, <1>10, <3>1
    <3>3. k < m
      BY <1>1, <1>10, <3>1, <3>2
    <3>4. End(pieces[i]) = End(map[k]) /\ pieces[j].logical >= map[m].logical
      BY <1>7, <1>10, <3>1, <3>2
    <3>5. End(map[k]) <= map[m].logical
      BY <1>1, <3>3 DEF Ordered
    <3> QED
      BY <1>8, <1>9, <3>4, <3>5
  <2> QED
    BY <1>6, <2>1, <2>2, <2>3
<1>11. Remapped(map, first, end, at) = Joined(pieces)
  BY DEF Remapped, pieces, starts, new, rests
<1>12. /\ Joined(pieces) \in Seq(Extent) /\ Ordered(Joined(pieces))
       /\ \A l, p \in Nat : Owns(Joined(pieces), l, p) => \E i \in 1 .. Len(pieces) : Has(pieces[i], l, p)
  BY <1>5, <1>10, JoinedIs
<1>13. ASSUME NEW l \in Nat, NEW p \in Nat, NEW i \in 1 .. n + 1 + n, Has(pieces[i], l, p)
       PROVE  \/ Owns(map, l, p) /\ ~(first <= l /\ l < end)
              \/ first <= l /\ l < end /\ p = at + (l - first)
  <2>1. CASE i \in 1 .. n
    <3>1. Has(map[i], l, p) /\ l < first
      BY <1>1, <1>5, <1>13, <2>1, BeforeIs
    <3> QED
      BY <1>1, <2>1, <3>1 DEF Owns
  <2>2. CASE i = n + 1
    BY <1>4, <1>5, <1>13, <2>2 DEF Has
  <2>3. CASE \E k \in 1 .. n : i = n + 1 + k
    <3>1. PICK k \in 1 .. n : i = n + 1 + k
      BY <2>3
    <3>2. Has(After(map[k], end), l, p) /\ map[k] \in Extent
      BY <1>1, <1>5, <1>13, <3>1
    <3>3. Has(map[k], l, p) /\ l >= end
      BY <3>2, AfterIs
    <3> QED
      BY <1>1, <3>3 DEF Owns
  <2> QED
    BY <1>6, <2>1, <2>2, <2>3
<1> QED
  BY <1>5, <1>11, <1>12, <1>13

\* A number is in the block that division says.
LEMMA BlockOf ==
    ASSUME NEW n \in Nat, NEW s \in Nat \ {0}
    PROVE  n \div s \in Nat /\ (n \div s) * s <= n /\ n < (n \div s) * s + s
OBVIOUS

LEMMA Grows ==
    ASSUME NEW a \in Nat, NEW b \in Nat, NEW s \in Nat \ {0}
    PROVE  /\ a <= b => a * s <= b * s
           /\ a < b => a * s + s <= b * s
<1>1. ASSUME a <= b PROVE a * s <= b * s
  BY <1>1
<1>2. ASSUME a < b PROVE a * s + s <= b * s
  <2>1. (a + 1) * s <= b * s
    BY <1>2
  <2>2. (a + 1) * s = a * s + s
    OBVIOUS
  <2> QED
    BY <2>1, <2>2
<1> QED
  BY <1>1, <1>2

\* The blocks up to a number.
LEMMA Ceiling ==
    ASSUME NEW n \in Nat, NEW s \in Nat \ {0}, NEW i \in Nat
    PROVE  /\ (n + s - 1) \div s \in Nat
           /\ (n + s - 1) \div s <= i <=> n <= i * s
<1> DEFINE d == (n + s - 1) \div s
<1>1. n + s - 1 \in Nat
  OBVIOUS
<1>2. d \in Nat /\ d * s <= n + s - 1 /\ n + s - 1 < d * s + s
  BY <1>1, BlockOf
<1> HIDE DEF d
<1>3. i * s \in Nat /\ d * s \in Nat
  BY <1>2
<1>4. ASSUME d <= i PROVE n <= i * s
  <2>1. d * s <= i * s
    BY <1>2, <1>4, Grows
  <2> QED
    BY <1>2, <1>3, <2>1
<1>5. ASSUME i < d PROVE ~(n <= i * s)
  <2>1. i * s + s <= d * s
    BY <1>2, <1>5, Grows
  <2> QED
    BY <1>2, <1>3, <2>1
<1>6. d <= i <=> n <= i * s
  BY <1>2, <1>4, <1>5
<1> QED
  BY <1>2, <1>6 DEF d

LEMMA BlocksIs ==
    ASSUME Unit \in Nat \ {0}, NEW c \in Nat, NEW i \in Nat
    PROVE  Blocks(c) \in Nat /\ (Blocks(c) <= i <=> c <= i * Unit)
  BY Ceiling DEF Blocks

LEMMA BlocksGrow ==
    ASSUME Unit \in Nat \ {0}, NEW a \in Nat, NEW b \in Nat, a <= b PROVE Blocks(a) <= Blocks(b)
<1> DEFINE i == Blocks(b)
<1>1. i \in Nat
  BY BlocksIs
<1> HIDE DEF i
<1>2. i <= i
  BY <1>1
<1>3. b <= i * Unit
  BY <1>1, <1>2, BlocksIs DEF i
<1>4. i * Unit \in Nat
  BY <1>1
<1>5. a <= i * Unit
  BY <1>3, <1>4
<1> QED
  BY <1>1, <1>5, BlocksIs DEF i

\* A write of something ends in a block after the one before which it begins.
LEMMA WriteSpans ==
    ASSUME Unit \in Nat \ {0}, NEW at \in Nat, NEW length \in Nat \ {0}
    PROVE  at \div Unit \in Nat /\ at \div Unit < Blocks(at + length)
<1> DEFINE q == at \div Unit
           b == Blocks(at + length)
<1>1. q \in Nat /\ q * Unit <= at
  BY BlockOf
<1>2. at + length \in Nat
  OBVIOUS
<1>3. b \in Nat /\ (b <= q <=> at + length <= q * Unit)
  <2> HIDE DEF q
  <2> QED
    BY <1>1, <1>2, BlocksIs
<1> HIDE DEF q, b
<1>4. q * Unit \in Nat
  BY <1>1
<1>5. ~(at + length <= q * Unit)
  BY <1>1, <1>4
<1>6. q < b
  BY <1>1, <1>3, <1>5
<1> QED
  BY <1>1, <1>6 DEF q, b

\* Files by some index: no block of the volume is in two places of them, and none
\* is beyond the file's end or the volume's.
Stored(f) ==
    /\ \A n \in DOMAIN f : Ordered(f[n].extents)
    /\ \A n \in DOMAIN f, l, p \in Nat : Owns(f[n].extents, l, p) => l < Blocks(f[n].size) /\ p < limits.end
    /\ \A n, m \in DOMAIN f, l, k, p \in Nat :
          Owns(f[n].extents, l, p) /\ Owns(f[m].extents, k, p) => n = m /\ l = k

LEMMA NothingOwned == \A l, p : ~Owns(<<>>, l, p)
  BY DEF Owns

\* Files by another index, with the same maps or none.
LEMMA StoredAs ==
    ASSUME Unit \in Nat \ {0}, NEW f, Stored(f), NEW g, NEW h,
           \A n \in DOMAIN g : \/ g[n].extents = <<>>
                               \/ /\ h[n] \in DOMAIN f /\ g[n].extents = f[h[n]].extents
                                  /\ f[h[n]].size \in Nat /\ g[n].size \in Nat /\ f[h[n]].size <= g[n].size,
           \A n, m \in DOMAIN g : h[n] = h[m] => n = m
    PROVE  Stored(g)
<1>1. ASSUME NEW n \in DOMAIN g PROVE Ordered(g[n].extents)
  BY DEF Stored, Ordered
<1>2. ASSUME NEW n \in DOMAIN g, NEW l \in Nat, NEW p \in Nat, Owns(g[n].extents, l, p)
      PROVE  l < Blocks(g[n].size) /\ p < limits.end /\ h[n] \in DOMAIN f /\ Owns(f[h[n]].extents, l, p)
  <2>1. h[n] \in DOMAIN f /\ g[n].extents = f[h[n]].extents /\ f[h[n]].size \in Nat /\ g[n].size \in Nat /\ f[h[n]].size <= g[n].size
    BY <1>2, NothingOwned
  <2>2. Owns(f[h[n]].extents, l, p)
    BY <1>2, <2>1
  <2>3. l < Blocks(f[h[n]].size) /\ p < limits.end
    BY <2>1, <2>2 DEF Stored
  <2>4. Blocks(f[h[n]].size) <= Blocks(g[n].size)
    BY <2>1, BlocksGrow
  <2> DEFINE a == Blocks(f[h[n]].size)
             b == Blocks(g[n].size)
  <2>5. a \in Nat /\ b \in Nat /\ a <= b /\ l < a
    BY <2>1, <2>3, <2>4, BlocksIs
  <2> HIDE DEF a, b
  <2>6. l < b
    BY <2>5
  <2> QED
    BY <2>1, <2>2, <2>3, <2>6 DEF b
<1>3. ASSUME NEW n \in DOMAIN g, NEW m \in DOMAIN g, NEW l \in Nat, NEW k \in Nat, NEW p \in Nat,
             Owns(g[n].extents, l, p), Owns(g[m].extents, k, p)
      PROVE  n = m /\ l = k
  <2>1. h[n] \in DOMAIN f /\ Owns(f[h[n]].extents, l, p) /\ h[m] \in DOMAIN f /\ Owns(f[h[m]].extents, k, p)
    BY <1>2, <1>3
  <2>2. h[n] = h[m] /\ l = k
    BY <2>1 DEF Stored
  <2> QED
    BY <2>2
<1>4. \A n \in DOMAIN g, l, p \in Nat : Owns(g[n].extents, l, p) => l < Blocks(g[n].size) /\ p < limits.end
  BY <1>2
<1>5. \A n, m \in DOMAIN g, l, k, p \in Nat :
         Owns(g[n].extents, l, p) /\ Owns(g[m].extents, k, p) => n = m /\ l = k
  BY <1>3
<1> QED
  BY <1>1, <1>4, <1>5 DEF Stored

\* One file after a write into blocks that no file had.
LEMMA StoredWrite ==
    ASSUME Unit \in Nat \ {0}, limits.end \in Nat, NEW f, Stored(f), NEW g, DOMAIN g = DOMAIN f, NEW n \in DOMAIN f,
           f[n].extents \in Seq(Extent), f[n].size \in Nat, g[n].size \in Nat, f[n].size <= g[n].size,
           NEW first \in Nat, NEW end \in Nat, first < end, end <= Blocks(g[n].size),
           NEW at \in Nat, at + (end - first) <= limits.end,
           \A m \in DOMAIN f, l, p \in Nat : Owns(f[m].extents, l, p) => ~(at <= p /\ p < at + (end - first)),
           g[n].extents = Remapped(f[n].extents, first, end, at),
           \A m \in DOMAIN f : m # n => g[m].extents = f[m].extents /\ g[m].size = f[m].size
    PROVE  Stored(g) /\ g[n].extents \in Seq(Extent)
<1>1. Ordered(f[n].extents)
  BY DEF Stored
<1> DEFINE old == f[n].extents
           new == g[n].extents
           Fresh0(l, p) == first <= l /\ l < end /\ p = at + (l - first)
           b == Blocks(g[n].size)
<1>0. old \in Seq(Extent) /\ Ordered(old) /\ new = Remapped(old, first, end, at)
  BY <1>1
<1>2. new \in Seq(Extent) /\ Ordered(new)
      /\ \A l, p \in Nat : Owns(new, l, p) => Owns(f[n].extents, l, p) \/ Fresh0(l, p)
  <2> HIDE DEF old, new
  <2>1. new \in Seq(Extent) /\ Ordered(new)
    BY <1>0, RemappedIs
  <2>2. ASSUME NEW l \in Nat, NEW p \in Nat, Owns(new, l, p)
        PROVE  Owns(old, l, p) \/ Fresh0(l, p)
    <3>1. Owns(Remapped(old, first, end, at), l, p)
      BY <1>0, <2>2
    <3>2. CASE first <= l /\ l < end
      <4>1. p = at + (l - first)
        BY <1>0, <3>1, <3>2, RemappedIs
      <4> QED
        BY <3>2, <4>1
    <3>3. CASE ~(first <= l /\ l < end)
      BY <1>0, <3>1, <3>3, RemappedIs
    <3> QED
      BY <3>2, <3>3
  <2> QED
    BY <2>1, <2>2 DEF old
<1>3. b \in Nat /\ Blocks(f[n].size) \in Nat /\ Blocks(f[n].size) <= b
  BY BlocksIs, BlocksGrow
<1>4. ASSUME NEW l \in Nat, NEW p \in Nat, Fresh0(l, p) PROVE at <= p /\ p < at + (end - first) /\ l < b /\ p < limits.end
  <2>1. end <= b
    OBVIOUS
  <2> HIDE DEF b
  <2> QED
    BY <1>3, <1>4, <2>1
<1> HIDE DEF new, Fresh0, b
<1>5. \A m \in DOMAIN g : Ordered(g[m].extents)
  BY <1>2 DEF Stored, new
<1>6. ASSUME NEW m \in DOMAIN g, NEW l \in Nat, NEW p \in Nat, Owns(g[m].extents, l, p)
      PROVE  l < Blocks(g[m].size) /\ p < limits.end
  <2>1. CASE m # n
    BY <1>6, <2>1 DEF Stored
  <2>2. CASE m = n
    <3>1. CASE Owns(f[n].extents, l, p)
      <4>1. l < Blocks(f[n].size) /\ p < limits.end
        BY <3>1 DEF Stored
      <4>2. l < b
        BY <1>3, <4>1
      <4> QED
        BY <2>2, <4>1, <4>2 DEF b
    <3>2. CASE Fresh0(l, p)
      <4>1. l < b /\ p < limits.end
        BY <1>4, <3>2
      <4> QED
        BY <2>2, <4>1 DEF b
    <3> QED
      BY <1>2, <1>6, <2>2, <3>1, <3>2 DEF new
  <2> QED
    BY <2>1, <2>2
<1>7. ASSUME NEW m \in DOMAIN g, NEW l \in Nat, NEW p \in Nat, Owns(g[m].extents, l, p)
      PROVE  Owns(f[m].extents, l, p) \/ (m = n /\ Fresh0(l, p))
  BY <1>2, <1>7 DEF new
<1>8. ASSUME NEW a \in DOMAIN g, NEW c \in DOMAIN g, NEW l \in Nat, NEW k \in Nat, NEW p \in Nat,
             Owns(g[a].extents, l, p), Owns(g[c].extents, k, p)
      PROVE  a = c /\ l = k
  <2>1. CASE Owns(f[a].extents, l, p) /\ Owns(f[c].extents, k, p)
    BY <2>1 DEF Stored
  <2>2. CASE Fresh0(l, p) \/ Fresh0(k, p)
    <3>1. at <= p /\ p < at + (end - first)
      BY <1>4, <2>2
    <3>2. ~Owns(f[a].extents, l, p) /\ ~Owns(f[c].extents, k, p)
      BY <3>1
    <3>3. a = n /\ Fresh0(l, p) /\ c = n /\ Fresh0(k, p)
      BY <1>7, <1>8, <3>2
    <3>4. l = k
      BY <3>3 DEF Fresh0
    <3> QED
      BY <3>3, <3>4
  <2> QED
    BY <1>7, <1>8, <2>1, <2>2
<1> QED
  BY <1>2, <1>5, <1>6, <1>8 DEF Stored, new

\* What holds of a number when it holds of all greater ones, up to a limit, holds of all.
LEMMA Downward ==
    ASSUME NEW N \in Nat, NEW S, \A k \in 0 .. N : (\A j \in 0 .. N : j > k => j \in S) => k \in S
    PROVE  \A k \in 0 .. N : k \in S
<1> SUFFICES ASSUME NEW k \in 0 .. N, k \notin S PROVE FALSE
  OBVIOUS
<1> DEFINE Rest == {j \in 0 .. N : j \notin S}
<1>1. Most(Rest) \in Rest /\ \A y \in Rest : Most(Rest) >= y
  BY MostIs
<1> DEFINE m == Most(Rest)
<1> HIDE DEF m
<1>2. m \in 0 .. N /\ m \notin S /\ \A y \in 0 .. N : y \notin S => m >= y
  BY <1>1 DEF m
<1>3. \A j \in 0 .. N : j > m => j \in S
  BY <1>2
<1> QED
  BY <1>2, <1>3

-----------------------------------------------------------------------------
(***************************************************************************)
(* The search for free blocks                                              *)
(***************************************************************************)
\* Runs inside the data area; n blocks at at are in none of those taken.
Bounded(T) == T \subseteq Extent /\ \A e \in T : e.physical + e.blocks <= limits.end
NoneTaken(at, n) == \A e \in Taken : ~Meets(e, at, n)

LEMMA SkipIs ==
    ASSUME limits.end \in Nat, Bounded(Taken), NEW n \in Nat \ {0}, NEW at \in 0 .. limits.end
    PROVE  /\ Skip(at, n) \in 0 .. limits.end /\ Skip(at, n) >= at
           /\ Skip(at, n) = at <=> NoneTaken(at, n)
           /\ \A x \in 0 .. limits.end : at <= x /\ x < Skip(at, n) => ~NoneTaken(x, n)
<1> DEFINE M == {x \in Taken : Meets(x, at, n)}
           S == {at} \cup {e.physical + e.blocks : e \in M}
           s == Most(S)
<1>1. ASSUME NEW e \in Taken
      PROVE  /\ e.physical \in Nat /\ e.blocks \in Nat /\ e.physical + e.blocks \in 0 .. limits.end
             /\ Meets(e, at, n) => e.physical + e.blocks > at
             /\ \A x \in 0 .. limits.end : at <= x /\ x < e.physical + e.blocks /\ Meets(e, at, n) => Meets(e, x, n)
  <2>1. e \in Extent /\ e.physical + e.blocks <= limits.end
    BY DEF Bounded
  <2> QED
    BY <2>1 DEF Extent, Meets
<1>2. S \in SUBSET (0 .. limits.end) /\ S # {} /\ at \in S
  BY <1>1
<1>3. s \in S /\ \A y \in S : s >= y
  <2> HIDE DEF S
  <2> QED
    BY <1>2, MostIs
<1>4. s = Skip(at, n)
  BY DEF Skip
<1> HIDE DEF s
<1>5. s \in 0 .. limits.end /\ s >= at
  BY <1>2, <1>3
<1>6. s = at <=> M = {}
  <2>1. CASE M = {}
    BY <1>3, <2>1
  <2>2. ASSUME NEW e \in M PROVE s # at
    <3>1. e.physical + e.blocks \in S /\ e.physical + e.blocks > at /\ e.physical + e.blocks \in 0 .. limits.end
      BY <1>1
    <3>2. s >= e.physical + e.blocks
      BY <1>3, <3>1
    <3> QED
      BY <1>5, <3>1, <3>2
  <2> QED
    BY <2>1, <2>2
<1>7. ASSUME NEW x \in 0 .. limits.end, at <= x, x < s PROVE ~NoneTaken(x, n)
  <2>1. s # at
    BY <1>7
  <2>2. PICK e \in M : s = e.physical + e.blocks
    BY <1>3, <2>1
  <2>3. Meets(e, x, n)
    BY <1>1, <1>7, <2>2
  <2> QED
    BY <2>3 DEF NoneTaken
<1>8. M = {} <=> NoneTaken(at, n)
  BY DEF NoneTaken
<1> HIDE DEF M, S
<1> QED
  BY <1>4, <1>5, <1>6, <1>7, <1>8

\* The recursion of Search defines a function: every step of it goes on behind
\* where it was.
LEMMA SearchSteps ==
    ASSUME limits.end \in Nat, Bounded(Taken), NEW n \in Nat \ {0}, NEW at \in 0 .. limits.end
    PROVE  Search(at, n) = IF n > limits.end - at THEN NoSpace
                           ELSE IF Skip(at, n) = at THEN at ELSE Search(Skip(at, n), n)
<1> DEFINE N == limits.end
           Now(f, x) == IF n > N - x THEN NoSpace ELSE IF Skip(x, n) = x THEN x ELSE f[Skip(x, n)]
           Step(f, k) == [x \in N - k .. N |-> Now(f, x)]
           Built == {k \in 0 .. N : \E f : f = Step(f, k)}
<1>1. N \in Nat
  OBVIOUS
<1>2. \A x \in 0 .. N : Skip(x, n) \in 0 .. N /\ Skip(x, n) >= x
  BY SkipIs
<1> HIDE DEF N
<1>3. 0 \in Built
  <2> DEFINE f == [x \in N - 0 .. N |-> NoSpace]
  <2>1. ASSUME NEW x \in N - 0 .. N PROVE Now(f, x) = NoSpace
    BY <1>1
  <2> HIDE DEF Now
  <2>2. f = Step(f, 0)
    BY <2>1
  <2> HIDE DEF f, Step
  <2>3. 0 \in 0 .. N
    BY <1>1
  <2> QED
    BY <2>2, <2>3
<1>4. ASSUME NEW k \in 0 .. N, k \in Built, k # N PROVE k + 1 \in Built
  <2>1. PICK f : f = Step(f, k)
    BY <1>4
  <2> DEFINE g == [x \in N - (k + 1) .. N |-> IF x = N - (k + 1) THEN Now(f, x) ELSE f[x]]
  <2>2. \A x \in N - k .. N : f[x] = Now(f, x)
    <3> HIDE DEF Now
    <3> QED
      BY <2>1
  <2>3. \A x \in N - k .. N : g[x] = f[x]
    <3>1. \A x \in N - k .. N : x \in N - (k + 1) .. N /\ x # N - (k + 1)
      BY <1>1
    <3> HIDE DEF Now
    <3> QED
      BY <3>1
  <2>4. ASSUME NEW x \in N - (k + 1) .. N PROVE Now(g, x) = Now(f, x)
    <3>1. CASE Skip(x, n) = x
      BY <3>1
    <3>2. CASE Skip(x, n) # x
      <4>1. x \in 0 .. N
        BY <1>1, <1>4
      <4>2. Skip(x, n) \in 0 .. N /\ Skip(x, n) >= x
        BY <1>2, <4>1
      <4> DEFINE s == Skip(x, n)
      <4> HIDE DEF s
      <4>3. s \in 0 .. N /\ s >= x /\ s # x
        BY <3>2, <4>2 DEF s
      <4>4. s \in N - k .. N
        BY <1>1, <4>1, <4>3
      <4>5. g[s] = f[s]
        BY <2>3, <4>4
      <4> HIDE DEF g
      <4> QED
        BY <4>5 DEF s
    <3> QED
      BY <3>1, <3>2
  <2>5. ASSUME NEW x \in N - (k + 1) .. N PROVE g[x] = Now(f, x)
    <3>1. CASE x = N - (k + 1)
      <4> HIDE DEF Now
      <4> QED
        BY <3>1
    <3>2. CASE x # N - (k + 1)
      <4>1. x \in N - k .. N
        BY <1>1, <3>2
      <4> HIDE DEF Now, g
      <4> QED
        BY <2>2, <2>3, <4>1
    <3> QED
      BY <3>1, <3>2
  <2>6. g = Step(g, k + 1)
    <3>1. g = [x \in N - (k + 1) .. N |-> g[x]]
      OBVIOUS
    <3> HIDE DEF g, Now
    <3>2. \A x \in N - (k + 1) .. N : g[x] = Now(g, x)
      BY <2>4, <2>5
    <3> QED
      BY <3>1, <3>2
  <2>7. k + 1 \in 0 .. N
    BY <1>1, <1>4
  <2> HIDE DEF g, Step
  <2> QED
    BY <2>6, <2>7
<1>5. N \in Built
  <2> HIDE DEF Built
  <2>1. N \in 0 .. N
    BY <1>1
  <2> QED
    BY <1>1, <1>3, <1>4, <2>1, UpTo
<1>6. \E f : f = Step(f, N)
  BY <1>5
<1> DEFINE Found == CHOOSE f : f = [x \in 0 .. N |-> Now(f, x)]
<1>7. \E f : f = [x \in 0 .. N |-> Now(f, x)]
  <2>1. N - N = 0
    BY <1>1
  <2> QED
    BY <1>6, <2>1
<1>8. \A x : Search(x, n) = Found[x]
  BY DEF Search, N
<1>9. Found = [x \in 0 .. N |-> Now(Found, x)]
  <2> HIDE DEF Now
  <2> QED
    BY <1>7
<1>10. at \in 0 .. N
  BY DEF N
<1>11. Found[at] = Now(Found, at)
  <2> HIDE DEF Now, Found
  <2> QED
    BY <1>9, <1>10
<1> HIDE DEF Found
<1> QED
  BY <1>8, <1>11 DEF N

\* What a search from a block on finds is free, and if it finds nothing there is nothing.
LEMMA SearchIs ==
    ASSUME limits.end \in Nat, Bounded(Taken), NEW n \in Nat \ {0}, NEW from \in 0 .. limits.end
    PROVE  \/ Search(from, n) \in 0 .. limits.end - n /\ NoneTaken(Search(from, n), n)
           \/ /\ Search(from, n) = NoSpace
              /\ \A x \in 0 .. limits.end - n : from <= x => ~NoneTaken(x, n)
<1> DEFINE N == limits.end
           Right(at) == \/ Search(at, n) \in 0 .. N - n /\ NoneTaken(Search(at, n), n)
                        \/ /\ Search(at, n) = NoSpace
                           /\ \A x \in 0 .. N - n : at <= x => ~NoneTaken(x, n)
           S == {at \in 0 .. N : Right(at)}
<1>1. N \in Nat
  OBVIOUS
<1>2. ASSUME NEW k \in 0 .. N, \A j \in 0 .. N : j > k => j \in S PROVE k \in S
  <2> DEFINE s == Skip(k, n)
  <2>1. /\ s \in 0 .. N /\ s >= k
        /\ s = k <=> NoneTaken(k, n)
        /\ \A x \in 0 .. N : k <= x /\ x < s => ~NoneTaken(x, n)
    BY SkipIs
  <2>2. Search(k, n) = IF n > N - k THEN NoSpace ELSE IF s = k THEN k ELSE Search(s, n)
    BY SearchSteps
  <2> HIDE DEF N, s
  <2>3. CASE n > N - k
    <3>1. Search(k, n) = NoSpace
      BY <2>2, <2>3
    <3>2. \A x \in 0 .. N - n : ~(k <= x)
      BY <1>1, <2>3
    <3> QED
      BY <3>1, <3>2
  <2>4. CASE ~(n > N - k) /\ s = k
    <3>1. k \in 0 .. N - n
      BY <1>1, <2>4
    <3>2. Search(k, n) = k /\ NoneTaken(k, n)
      BY <2>1, <2>2, <2>4
    <3> QED
      BY <3>1, <3>2
  <2>5. CASE ~(n > N - k) /\ s # k
    <3>1. Search(k, n) = Search(s, n)
      BY <2>2, <2>5
    <3>2. s > k
      BY <1>1, <2>1, <2>5
    <3>3. s \in S
      BY <1>2, <2>1, <3>2
    <3>4. CASE Search(s, n) \in 0 .. N - n /\ NoneTaken(Search(s, n), n)
      BY <3>1, <3>4
    <3>5. CASE Search(s, n) = NoSpace /\ \A x \in 0 .. N - n : s <= x => ~NoneTaken(x, n)
      <4>1. ASSUME NEW x \in 0 .. N - n, k <= x PROVE ~NoneTaken(x, n)
        <5>1. x \in 0 .. N /\ (s <= x \/ x < s)
          BY <1>1, <2>1
        <5> QED
          BY <2>1, <3>5, <4>1, <5>1
      <4> QED
        BY <3>1, <3>5, <4>1
    <3> QED
      BY <3>3, <3>4, <3>5
  <2> QED
    BY <2>3, <2>4, <2>5
<1>3. \A k \in 0 .. N : k \in S
  <2> HIDE DEF S
  <2> QED
    BY <1>1, <1>2, Downward
<1> QED
  BY <1>3

LEMMA AllocateIs ==
    ASSUME limits.end \in Nat, Bounded(Taken), hint \in 0 .. limits.end, NEW n \in Nat \ {0}
    PROVE  \/ Allocate(n) \in 0 .. limits.end - n /\ NoneTaken(Allocate(n), n)
           \/ Allocate(n) = NoSpace /\ \A x \in 0 .. limits.end - n : ~NoneTaken(x, n)
<1>1. CASE Search(hint, n) # NoSpace
  <2>1. Search(hint, n) \in 0 .. limits.end - n /\ NoneTaken(Search(hint, n), n)
    BY <1>1, SearchIs
  <2> QED
    BY <1>1, <2>1 DEF Allocate
<1>2. CASE Search(hint, n) = NoSpace
  <2> DEFINE z == 0
  <2>1. z \in 0 .. limits.end /\ \A x \in 0 .. limits.end - n : z <= x
    OBVIOUS
  <2>2. Allocate(n) = Search(z, n)
    BY <1>2 DEF Allocate
  <2> HIDE DEF z
  <2>3. \/ Search(z, n) \in 0 .. limits.end - n /\ NoneTaken(Search(z, n), n)
        \/ Search(z, n) = NoSpace /\ \A x \in 0 .. limits.end - n : z <= x => ~NoneTaken(x, n)
    BY <2>1, SearchIs
  <2> QED
    BY <2>1, <2>2, <2>3
<1> QED
  BY <1>1, <1>2
LEMMA FoundRuns ==
    ASSUME limits.end \in Nat, Bounded(Taken), hint \in 0 .. limits.end PROVE RunsAreFound
<1> SUFFICES ASSUME NEW n \in 1 .. limits.end
             PROVE  LET free == {at \in 0 .. limits.end - n : \A e \in Taken : ~Meets(e, at, n)}
                    IN  Allocate(n) \in free \/ (free = {} /\ Allocate(n) = NoSpace)
  BY DEF RunsAreFound
<1>1. n \in Nat \ {0}
  OBVIOUS
<1>2. \/ Allocate(n) \in 0 .. limits.end - n /\ NoneTaken(Allocate(n), n)
      \/ Allocate(n) = NoSpace /\ \A x \in 0 .. limits.end - n : ~NoneTaken(x, n)
  BY <1>1, AllocateIs
<1> QED
  BY <1>2 DEF NoneTaken

-----------------------------------------------------------------------------
(***************************************************************************)
(* Metadata                                                                *)
(***************************************************************************)
Entry == [path : Seq(NodeName), kind : {"file", "dir"}, size : 0 .. limits.size, extents : Seq(Extent)]
\* What a save may write.
Good(st) ==
    /\ st \in Seq(Entry) /\ Len(st) + 2 <= limits.nodes
    /\ \A i \in DOMAIN st :
          /\ Len(st[i].path) - 1 \in 1 .. limits.depth /\ st[i].path[1] = "home"
          /\ \A j \in 1 .. i - 1 : st[j].path # st[i].path
          /\ Len(st[i].path) > 2 => \E j \in 1 .. i - 1 : st[j].kind = "dir" /\ st[j].path = Front(st[i].path)
          /\ st[i].kind = "dir" => st[i].size = 0 /\ st[i].extents = <<>>
    /\ Stored(st)

\* Runs that meet share a block.
LEMMA MeetShare ==
    ASSUME NEW e \in Extent, NEW d \in Extent, Meets(e, d.physical, d.blocks)
    PROVE  \E l, k, p \in Nat : Has(e, l, p) /\ Has(d, k, p)
<1> DEFINE p == IF e.physical < d.physical THEN d.physical ELSE e.physical
           l == e.logical + (p - e.physical)
           k == d.logical + (p - d.physical)
<1>1. l \in Nat /\ k \in Nat /\ p \in Nat /\ Has(e, l, p) /\ Has(d, k, p)
  BY DEF Extent, Meets, Has, End
<1> QED
  BY <1>1

\* A run lies in its file and in the volume.
LEMMA StoredIn ==
    ASSUME Unit \in Nat \ {0}, limits.end \in Nat, NEW f, Stored(f), NEW n \in DOMAIN f, f[n].extents \in Seq(Extent),
           f[n].size \in Nat, NEW i \in DOMAIN f[n].extents
    PROVE  /\ f[n].extents[i] \in Extent
           /\ f[n].extents[i].logical + f[n].extents[i].blocks <= Blocks(f[n].size)
           /\ f[n].extents[i].physical + f[n].extents[i].blocks <= limits.end
<1> DEFINE e == f[n].extents[i]
           l == e.logical + (e.blocks - 1)
           p == e.physical + (e.blocks - 1)
           b == Blocks(f[n].size)
<1>1. e \in Extent
  OBVIOUS
<1>2. b \in Nat
  BY BlocksIs
<1>3. l \in Nat /\ p \in Nat /\ Has(e, l, p)
  <2> HIDE DEF e
  <2>1. e.logical \in Nat /\ e.physical \in Nat /\ e.blocks \in Nat /\ e.blocks > 0
    BY <1>1 DEF Extent
  <2>2. l \in Nat /\ p \in Nat /\ e.logical <= l /\ l < e.logical + e.blocks /\ p = e.physical + (l - e.logical)
    BY <2>1
  <2> QED
    BY <2>2 DEF Has, End
<1>4. Owns(f[n].extents, l, p)
  <2> HIDE DEF l, p
  <2> QED
    BY <1>3 DEF Owns
<1>5. l < b /\ p < limits.end
  <2> HIDE DEF l, p
  <2> QED
    BY <1>3, <1>4 DEF Stored
<1> HIDE DEF e, b
<1>6. e.logical + e.blocks <= b /\ e.physical + e.blocks <= limits.end
  <2>1. e.logical \in Nat /\ e.physical \in Nat /\ e.blocks \in Nat
    BY <1>1 DEF Extent
  <2> QED
    BY <1>2, <1>5, <2>1
<1> QED
  BY <1>1, <1>6 DEF e, b

\* Runs in two places do not meet.
LEMMA StoredApart ==
    ASSUME NEW f, Stored(f), NEW n \in DOMAIN f, NEW m \in DOMAIN f,
           f[n].extents \in Seq(Extent), f[m].extents \in Seq(Extent),
           NEW i \in DOMAIN f[n].extents, NEW j \in DOMAIN f[m].extents,
           n # m \/ i < j
    PROVE  ~Meets(f[n].extents[i], f[m].extents[j].physical, f[m].extents[j].blocks)
<1> DEFINE e == f[n].extents[i]
           d == f[m].extents[j]
<1>1. e \in Extent /\ d \in Extent
  OBVIOUS
<1>2. ASSUME Meets(e, d.physical, d.blocks) PROVE FALSE
  <2>1. PICK l \in Nat, k \in Nat, p \in Nat : Has(e, l, p) /\ Has(d, k, p)
    <3> HIDE DEF e, d
    <3> QED
      BY <1>1, <1>2, MeetShare
  <2>2. Owns(f[n].extents, l, p) /\ Owns(f[m].extents, k, p)
    BY <2>1 DEF Owns
  <2>3. n = m /\ l = k
    BY <2>2 DEF Stored
  <2>4. i < j
    BY <2>3
  <2>5. End(e) <= d.logical
    BY <2>3, <2>4 DEF Stored, Ordered
  <2> HIDE DEF e, d
  <2>6. l < End(e) /\ d.logical <= k /\ End(e) \in Nat /\ d.logical \in Nat
    <3>1. e.logical \in Nat /\ e.blocks \in Nat /\ d.logical \in Nat
      BY <1>1 DEF Extent
    <3>2. l < e.logical + e.blocks /\ d.logical <= k
      BY <2>1 DEF Has, End
    <3>3. e.logical + e.blocks \in Nat
      BY <3>1
    <3> QED
      BY <3>1, <3>2, <3>3 DEF End
  <2> QED
    BY <2>3, <2>5, <2>6
<1> QED
  BY <1>2

LEMMA GoodAccepted ==
    ASSUME Unit \in Nat \ {0}, Sized, NEW st, Good(st) PROVE Accepts(st)
<1>0. limits.end \in Nat /\ limits.nodes \in Nat /\ limits.depth \in Nat /\ limits.size \in Nat
  BY DEF Sized
<1>1. st \in Seq(Entry) /\ Len(st) \in Nat /\ DOMAIN st = 1 .. Len(st) /\ Len(st) + 2 <= limits.nodes /\ Stored(st)
  BY DEF Good
<1>2. ASSUME NEW i \in DOMAIN st
      PROVE  st[i] \in Entry /\ st[i].extents \in Seq(Extent) /\ st[i].size \in Nat /\ st[i].size <= limits.size
  <2>1. st[i] \in Entry
    BY <1>1
  <2> QED
    BY <1>0, <2>1 DEF Entry
<1>3. Len(st) < limits.nodes
  BY <1>0, <1>1
<1>4. ASSUME NEW i \in DOMAIN st PROVE AcceptsExtents(st, i)
  <2> DEFINE map == st[i].extents
             fileBlocks == Blocks(st[i].size)
             EndOf(j) == IF j = 0 THEN 0 ELSE map[j].logical + map[j].blocks
             Earlier(j) == {map[k] : k \in 1 .. j - 1}
                           \cup UNION {ToSet(st[k].extents) : k \in 1 .. i - 1}
  <2>0. map \in Seq(Extent) /\ DOMAIN map = 1 .. Len(map) /\ Len(map) \in Nat
    BY <1>2
  <2>1. ASSUME NEW j \in DOMAIN map
        PROVE  /\ map[j] \in Extent
               /\ map[j].logical + map[j].blocks <= fileBlocks
               /\ map[j].physical + map[j].blocks <= limits.end
    BY <1>0, <1>1, <1>2, StoredIn
  <2>2. ASSUME NEW j \in DOMAIN map PROVE map[j].logical >= EndOf(j - 1)
    <3>1. CASE j = 1
      BY <2>1, <3>1 DEF Extent
    <3>2. CASE j # 1
      <4>1. j - 1 \in DOMAIN map /\ j - 1 < j /\ j - 1 # 0
        BY <2>0, <3>2
      <4>2. End(map[j - 1]) <= map[j].logical
        BY <1>1, <4>1 DEF Stored, Ordered
      <4>3. EndOf(j - 1) = End(map[j - 1])
        BY <4>1 DEF End
      <4>4. map[j - 1] \in Extent /\ map[j] \in Extent
        BY <2>1, <4>1
      <4> HIDE DEF map
      <4> QED
        BY <4>2, <4>3, <4>4 DEF End, Extent
    <3> QED
      BY <3>1, <3>2
  <2>3. ASSUME NEW j \in DOMAIN map, NEW e \in Earlier(j) PROVE ~Meets(e, map[j].physical, map[j].blocks)
    <3>1. CASE \E k \in 1 .. j - 1 : e = map[k]
      <4>1. PICK k \in 1 .. j - 1 : e = map[k]
        BY <3>1
      <4>2. k \in DOMAIN map /\ k < j
        BY <2>0
      <4> QED
        BY <1>1, <2>0, <4>1, <4>2, StoredApart
    <3>2. CASE \E k \in 1 .. i - 1 : e \in ToSet(st[k].extents)
      <4>1. PICK k \in 1 .. i - 1 : e \in ToSet(st[k].extents)
        BY <3>2
      <4>2. k \in DOMAIN st /\ k # i
        BY <1>1
      <4>3. PICK a \in DOMAIN st[k].extents : e = st[k].extents[a]
        BY <4>1 DEF ToSet
      <4>4. st[k].extents \in Seq(Extent)
        BY <1>2, <4>2
      <4> QED
        BY <1>1, <2>0, <4>2, <4>3, <4>4, StoredApart
    <3> QED
      BY <3>1, <3>2
  <2>4. ASSUME NEW j \in DOMAIN map
        PROVE /\ map[j].blocks > 0 /\ map[j].logical >= EndOf(j - 1)
              /\ map[j].logical + map[j].blocks <= fileBlocks
              /\ map[j].physical \in 0 .. limits.end - 1
              /\ map[j].physical + map[j].blocks <= limits.end
              /\ \A e \in Earlier(j) : ~Meets(e, map[j].physical, map[j].blocks)
    <3>1. map[j].blocks > 0 /\ map[j].physical \in 0 .. limits.end - 1
      <4> DEFINE e == map[j]
      <4>1. e \in Extent /\ e.physical + e.blocks <= limits.end
        BY <2>1
      <4> HIDE DEF e
      <4>2. e.blocks > 0 /\ e.physical \in 0 .. limits.end - 1
        BY <1>0, <4>1 DEF Extent
      <4> QED
        BY <4>2 DEF e
    <3> HIDE DEF map, fileBlocks, EndOf, Earlier
    <3> QED
      BY <2>1, <2>2, <2>3, <3>1
  <2> QED
    BY <2>4 DEF AcceptsExtents
<1>5. ASSUME NEW i \in DOMAIN st
      PROVE  LET e == st[i] IN
             /\ e.size <= limits.size
             /\ e.kind = "dir" => e.size = 0 /\ e.extents = <<>>
             /\ Len(e.path) - 1 \in 1 .. limits.depth /\ e.path[1] = "home"
             /\ \A j \in 1 .. i - 1 : st[j].path # e.path
             /\ Len(e.path) > 2 =>
                   \E j \in 1 .. i - 1 : st[j].kind = "dir" /\ st[j].path = Front(e.path)
             /\ AcceptsExtents(st, i)
  BY <1>2, <1>4 DEF Good
<1> QED
  BY <1>3, <1>5 DEF Accepts

\* What a save writes of a node, and the step of its loop.
EntryOf(t, n) == [path |-> Path(t, n), kind |-> t[n].kind, size |-> t[n].size, extents |-> t[n].extents]
Without(t, S) == S \ {Foremost(t, S)}

\* The recursion of Exported defines a function.
LEMMA ExportSteps ==
    ASSUME NEW t, Cardinality(Inside(t)) \in Nat
    PROVE  \E left : /\ left[0] = Inside(t)
                     /\ \A i \in 1 .. Cardinality(Inside(t)) : left[i] = Without(t, left[i - 1])
                     /\ Exported(t) = [i \in 1 .. Cardinality(Inside(t)) |-> EntryOf(t, Foremost(t, left[i - 1]))]
<1> DEFINE N == Cardinality(Inside(t))
           Step(f, N0) == [i \in 0 .. N0 |-> IF i = 0 THEN Inside(t) ELSE Without(t, f[i - 1])]
           Built == {k \in 0 .. N : \E f : f = Step(f, k)}
<1>1. N \in Nat
  OBVIOUS
<1> HIDE DEF N
<1>2. 0 \in Built
  <2> DEFINE f == [i \in 0 .. 0 |-> Inside(t)]
  <2>1. f = Step(f, 0)
    OBVIOUS
  <2> HIDE DEF f, Step
  <2> QED
    BY <1>1, <2>1
<1>3. ASSUME NEW k \in 0 .. N, k \in Built, k # N PROVE k + 1 \in Built
  <2>1. PICK f : f = Step(f, k)
    BY <1>3
  <2> DEFINE g == [j \in 0 .. k + 1 |-> IF j = k + 1 THEN Without(t, f[k]) ELSE f[j]]
  <2>2. \A j \in 0 .. k : f[j] = IF j = 0 THEN Inside(t) ELSE Without(t, f[j - 1])
    BY <2>1
  <2>3. ASSUME NEW j \in 0 .. k + 1 PROVE g[j] = IF j = 0 THEN Inside(t) ELSE Without(t, g[j - 1])
    <3>1. CASE j = k + 1
      <4>1. k \in 0 .. k + 1 /\ k # k + 1 /\ j - 1 = k /\ j # 0
        BY <1>1, <3>1
      <4> QED
        BY <3>1, <4>1
    <3>2. CASE j # k + 1
      <4>1. j \in 0 .. k /\ (j # 0 => j - 1 \in 0 .. k + 1 /\ j - 1 # k + 1)
        BY <1>1, <3>2
      <4> QED
        BY <2>2, <3>2, <4>1
    <3> QED
      BY <3>1, <3>2
  <2>4. g = Step(g, k + 1)
    <3>1. g = [j \in 0 .. k + 1 |-> g[j]]
      OBVIOUS
    <3> HIDE DEF g
    <3> QED
      BY <2>3, <3>1
  <2>5. k + 1 \in 0 .. N
    BY <1>1, <1>3
  <2> HIDE DEF g, Step
  <2> QED
    BY <2>4, <2>5
<1>4. N \in Built
  <2> HIDE DEF Built
  <2>1. N \in 0 .. N
    BY <1>1
  <2> QED
    BY <1>1, <1>2, <1>3, <2>1, UpTo
<1>5. \E f : f = Step(f, N)
  BY <1>4
<1> DEFINE left == CHOOSE f : f = Step(f, N)
<1>6. left = Step(left, N)
  <2> HIDE DEF Step
  <2> QED
    BY <1>5
<1>7. Exported(t) = [i \in 1 .. N |-> EntryOf(t, Foremost(t, left[i - 1]))]
  BY DEF Exported, EntryOf, Without, N
<1> HIDE DEF left
<1>8. \A i \in 0 .. N : left[i] = IF i = 0 THEN Inside(t) ELSE Without(t, left[i - 1])
  BY <1>6
<1>9. left[0] = Inside(t) /\ \A i \in 1 .. N : left[i] = Without(t, left[i - 1])
  <2>1. 0 \in 0 .. N /\ \A i \in 1 .. N : i \in 0 .. N /\ i # 0
    BY <1>1
  <2> QED
    BY <1>8, <2>1
<1> QED
  BY <1>7, <1>9 DEF N

\* Of some nodes there is one before all others: no deeper than any.
LEMMA ForemostIs ==
    ASSUME Sized, NEW t, Shaped(t), NEW S \in SUBSET Used(t), S # {}
    PROVE  Foremost(t, S) \in S /\ \A m \in S : Depth(t, Foremost(t, S)) <= Depth(t, m)
<1>1. \A n \in S : Depth(t, n) \in Nat /\ n \in Nat
  <2>1. \A n \in S : n \in Used(t) /\ n \in Nat /\ limits.depth \in Nat
    BY UsedAre, SlotsAre DEF Sized
  <2>2. \A n \in S : Depth(t, n) \in 0 .. limits.depth
    BY <2>1, DepthIs
  <2> QED
    BY <2>1, <2>2
<1> DEFINE Depths == {Depth(t, n) : n \in S}
<1>2. Depths \in SUBSET Nat /\ Depths # {}
  BY <1>1
<1>3. PICK d \in Depths : \A e \in Depths : d <= e
  <2> HIDE DEF Depths
  <2> QED
    BY <1>2, LeastNumber
<1> DEFINE First == {n \in S : Depth(t, n) = d}
<1>4. First \in SUBSET Nat /\ First # {}
  BY <1>1
<1>5. PICK n \in First : \A m \in First : n <= m
  <2> HIDE DEF First
  <2> QED
    BY <1>4, LeastNumber
<1>6. \A m \in S : Depth(t, n) < Depth(t, m) \/ (Depth(t, n) = Depth(t, m) /\ n <= m)
  <2> SUFFICES ASSUME NEW m \in S PROVE Depth(t, n) < Depth(t, m) \/ (Depth(t, n) = Depth(t, m) /\ n <= m)
    OBVIOUS
  <2>1. d <= Depth(t, m) /\ Depth(t, n) = d /\ d \in Nat /\ Depth(t, m) \in Nat
    BY <1>1, <1>2, <1>3
  <2>2. CASE Depth(t, m) = d
    BY <1>5, <2>1, <2>2
  <2>3. CASE Depth(t, m) # d
    BY <2>1, <2>3
  <2> QED
    BY <2>2, <2>3
<1> DEFINE Before0(a) == \A m \in S : Depth(t, a) < Depth(t, m) \/ (Depth(t, a) = Depth(t, m) /\ a <= m)
<1>7. Foremost(t, S) = CHOOSE a \in S : Before0(a)
  BY DEF Foremost
<1>8. Foremost(t, S) \in S /\ Before0(Foremost(t, S))
  <2>1. n \in S /\ Before0(n)
    BY <1>6
  <2> HIDE DEF Before0
  <2> QED
    BY <1>7, <2>1
<1> DEFINE f == Foremost(t, S)
<1> HIDE DEF f
<1>9. f \in S /\ Before0(f)
  BY <1>8 DEF f
<1>10. \A m \in S : Depth(t, f) <= Depth(t, m)
  BY <1>1, <1>9
<1> QED
  BY <1>9, <1>10 DEF f

\* What the metadata lists is below the root of the volume.
LEMMA InsideIs ==
    ASSUME Sized, NEW t, Shaped(t), NEW n \in Inside(t)
    PROVE  /\ n \in Used(t) \ Root
           /\ Depth(t, n) \in 1 .. limits.depth /\ Above(t, n)[Depth(t, n)] = Home
           /\ Path(t, n)[1] = "home"
           /\ t[n].parent \in Used(t) /\ t[t[n].parent].kind = "dir"
           /\ Depth(t, n) > 1 => t[n].parent \in Inside(t)
<1>1. n \in Used(t) /\ n # Home /\ Descendant(t, n, Home) /\ limits.depth \in Nat
  BY DEF Inside, Sized
<1>2. PICK k \in 0 .. limits.depth : Above(t, n)[k] = Home
  BY <1>1 DEF Descendant
<1>3. Home \in Root /\ k \in 0 .. limits.depth + 1
  BY <1>1 DEF Root
<1>4. Depth(t, n) = k
  BY <1>1, <1>2, <1>3, DepthOnly
<1>5. n \notin Root
  <2> SUFFICES ASSUME n \in Root PROVE FALSE
    OBVIOUS
  <2>1. k = 0
    BY <1>4, DepthRoot
  <2>2. Above(t, n)[0] = n
    BY <1>1, AboveSteps
  <2> QED
    BY <1>1, <1>2, <2>1, <2>2
<1>6. k # 0
  <2>1. Above(t, n)[0] = n
    BY <1>1, AboveSteps
  <2> QED
    BY <1>1, <1>2, <2>1
<1>7. Path(t, n)[1] = "home"
  <2>1. Path(t, n)[1] = t[Above(t, n)[Depth(t, n) + 1 - 1]].name
    <3>1. 1 \in 1 .. Depth(t, n) + 1
      BY <1>4
    <3> QED
      BY <1>1, <3>1, PathIs
  <2>2. Depth(t, n) + 1 - 1 = k
    BY <1>4
  <2>3. t[Home].name = "home"
    BY <1>3 DEF Shaped
  <2> QED
    BY <1>2, <2>1, <2>2, <2>3
<1>8. t[n].parent \in Used(t) /\ t[t[n].parent].kind = "dir"
  BY <1>1, <1>5 DEF Shaped
<1>9. ASSUME k > 1 PROVE t[n].parent \in Inside(t)
  <2>1. k - 1 \in 0 .. limits.depth /\ (k - 1) + 1 = k
    BY <1>1, <1>9
  <2>2. n # 0
    BY <1>1, UsedAre
  <2>3. Above(t, t[n].parent)[k - 1] = Home
    BY <1>2, <2>1, <2>2, AboveParent
  <2>4. t[n].parent # Home
    <3> SUFFICES ASSUME t[n].parent = Home PROVE FALSE
      OBVIOUS
    <3>1. Depth(t, Home) = 0 /\ Depth(t, n) = Depth(t, t[n].parent) + 1
      BY <1>1, <1>3, <1>5, DepthRoot, DepthParent
    <3>2. Depth(t, n) = 0 + 1
      BY <3>1
    <3> QED
      BY <1>4, <1>9, <3>2
  <2> QED
    BY <1>8, <2>1, <2>3, <2>4 DEF Inside, Descendant
<1>10. k \in 1 .. limits.depth
  BY <1>1, <1>6
<1> QED
  BY <1>1, <1>2, <1>4, <1>5, <1>7, <1>8, <1>9, <1>10

LEMMA InsideCount ==
    ASSUME Sized, NEW t, Shaped(t)
    PROVE  IsFiniteSet(Inside(t)) /\ Cardinality(Inside(t)) \in Nat /\ Cardinality(Inside(t)) + 2 <= limits.nodes
<1>1. limits.nodes \in Nat /\ limits.nodes >= 2
  BY DEF Sized
<1>2. IsFiniteSet(Slots) /\ Cardinality(Slots) = limits.nodes
  <2> DEFINE N == limits.nodes
  <2>1. 1 \in Int /\ N \in Int /\ ~(1 > N) /\ N - 1 + 1 = N
    BY <1>1
  <2> HIDE DEF N
  <2>2. IsFiniteSet(1 .. N) /\ Cardinality(1 .. N) = N
    <3>1. IsFiniteSet(1 .. N) /\ Cardinality(1 .. N) = IF 1 > N THEN 0 ELSE N - 1 + 1
      BY <2>1, FS_Interval, Zenon
    <3> QED
      BY <2>1, <3>1
  <2> QED
    BY <2>2 DEF Slots, N
<1> DEFINE I == Inside(t)
           One == I \cup {Home}
           Two == One \cup {Tmp}
<1>3. I \in SUBSET Slots /\ Home \notin I /\ Tmp \notin One /\ Two \in SUBSET Slots
  <2>1. \A n \in I : n \in Used(t) \ Root
    BY InsideIs
  <2>2. Used(t) \subseteq Slots /\ Root \subseteq Used(t)
    BY UsedAre
  <2> HIDE DEF I
  <2> QED
    BY <2>1, <2>2 DEF Root, Home, Tmp
<1>4. IsFiniteSet(I) /\ Cardinality(I) \in Nat
  <2> HIDE DEF I
  <2> QED
    BY <1>2, <1>3, FS_Subset, FS_CardinalityType
<1> HIDE DEF I
<1>5. IsFiniteSet(One) /\ Cardinality(One) = Cardinality(I) + 1
  BY <1>3, <1>4, FS_AddElement
<1> HIDE DEF One
<1>6. IsFiniteSet(Two) /\ Cardinality(Two) = Cardinality(One) + 1
  BY <1>3, <1>5, FS_AddElement
<1>7. Cardinality(Two) <= limits.nodes
  <2> HIDE DEF Two
  <2> QED
    BY <1>2, <1>3, FS_Subset
<1>8. Cardinality(I) + 2 <= limits.nodes
  BY <1>1, <1>4, <1>5, <1>6, <1>7
<1> QED
  BY <1>4, <1>8 DEF I

\* The metadata lists every node below the root of the volume once, and its
\* directory before it.
LEMMA ExportOrder ==
    ASSUME Sized, NEW t, Shaped(t)
    PROVE  \E order \in [1 .. Cardinality(Inside(t)) -> Inside(t)] :
              /\ Exported(t) = [i \in 1 .. Cardinality(Inside(t)) |-> EntryOf(t, order[i])]
              /\ \A i, j \in 1 .. Cardinality(Inside(t)) : i < j => order[i] # order[j]
              /\ \A i \in 1 .. Cardinality(Inside(t)) :
                    t[order[i]].parent \in Inside(t) => \E j \in 1 .. i - 1 : order[j] = t[order[i]].parent
              /\ \A n \in Inside(t) : \E i \in 1 .. Cardinality(Inside(t)) : order[i] = n
<1> DEFINE I == Inside(t)
           c == Cardinality(I)
<1>1. IsFiniteSet(I) /\ c \in Nat
  BY InsideCount
<1>2. I \in SUBSET Used(t)
  BY DEF Inside
<1>3. PICK left : /\ left[0] = I
                  /\ \A i \in 1 .. c : left[i] = Without(t, left[i - 1])
                  /\ Exported(t) = [i \in 1 .. c |-> EntryOf(t, Foremost(t, left[i - 1]))]
  BY <1>1, ExportSteps
<1> HIDE DEF I, c
<1> DEFINE order == [i \in 1 .. c |-> Foremost(t, left[i - 1])]
           Listed(i) == /\ left[i] \in SUBSET I /\ IsFiniteSet(left[i]) /\ Cardinality(left[i]) = c - i
                        /\ \A j \in 1 .. i : order[j] \in I \ left[i]
                        /\ \A n \in I \ left[i] : \E j \in 1 .. i : order[j] = n
           S == {i \in 0 .. c : Listed(i)}
<1>4. 0 \in S
  BY <1>1, <1>3 DEF c
<1>5. ASSUME NEW i \in 0 .. c, i # c, Listed(i)
      PROVE  /\ i + 1 \in 1 .. c /\ order[i + 1] \in left[i] /\ left[i + 1] = left[i] \ {order[i + 1]}
             /\ \A m \in left[i] : Depth(t, order[i + 1]) <= Depth(t, m)
  <2>1. i + 1 \in 1 .. c /\ (i + 1) - 1 = i /\ Cardinality(left[i]) # 0
    BY <1>1, <1>5
  <2>2. left[i] # {}
    BY <2>1, FS_EmptySet
  <2>3. left[i] \in SUBSET Used(t)
    BY <1>2, <1>5
  <2>4. Foremost(t, left[i]) \in left[i] /\ \A m \in left[i] : Depth(t, Foremost(t, left[i])) <= Depth(t, m)
    BY <2>2, <2>3, ForemostIs
  <2>5. order[i + 1] = Foremost(t, left[i]) /\ left[i + 1] = left[i] \ {Foremost(t, left[i])}
    BY <1>3, <2>1 DEF Without
  <2> HIDE DEF order
  <2> QED
    BY <2>1, <2>4, <2>5
<1> HIDE DEF order
<1>6. ASSUME NEW i \in 0 .. c, i \in S, i # c PROVE i + 1 \in S
  <2>1. Listed(i)
    BY <1>6
  <2>2. i + 1 \in 1 .. c /\ order[i + 1] \in left[i] /\ left[i + 1] = left[i] \ {order[i + 1]}
    BY <1>5, <1>6, <2>1
  <2>3. IsFiniteSet(left[i + 1]) /\ Cardinality(left[i + 1]) = Cardinality(left[i]) - 1
    BY <2>1, <2>2, FS_RemoveElement
  <2>4. Cardinality(left[i + 1]) = c - (i + 1) /\ i + 1 \in 0 .. c
    BY <1>1, <2>1, <2>2, <2>3
  <2>5. ASSUME NEW j \in 1 .. i + 1 PROVE order[j] \in I \ left[i + 1]
    <3>1. CASE j = i + 1
      BY <2>1, <2>2, <3>1
    <3>2. CASE j # i + 1
      <4>1. j \in 1 .. i
        BY <1>1, <3>2
      <4> QED
        BY <2>1, <2>2, <4>1
    <3> QED
      BY <3>1, <3>2
  <2>6. ASSUME NEW n \in I \ left[i + 1] PROVE \E j \in 1 .. i + 1 : order[j] = n
    <3>1. i + 1 \in 1 .. i + 1 /\ 1 .. i \subseteq 1 .. i + 1
      BY <1>1
    <3>2. n = order[i + 1] \/ n \in I \ left[i]
      BY <2>2
    <3> QED
      BY <2>1, <3>1, <3>2
  <2> QED
    BY <2>1, <2>2, <2>3, <2>4, <2>5, <2>6
<1>7. \A i \in 0 .. c : Listed(i)
  <2>1. \A i \in 0 .. c : i \in S
    <3> HIDE DEF S
    <3> QED
      BY <1>1, <1>4, <1>6, UpTo
  <2> QED
    BY <2>1
<1>8. ASSUME NEW i \in 1 .. c
      PROVE  /\ i - 1 \in 0 .. c /\ order[i] \in left[i - 1] /\ order[i] \in I
             /\ \A m \in left[i - 1] : Depth(t, order[i]) <= Depth(t, m)
  <2>1. i - 1 \in 0 .. c /\ i - 1 # c /\ (i - 1) + 1 = i
    BY <1>1
  <2>2. Listed(i - 1)
    BY <1>7, <2>1
  <2> HIDE DEF Listed
  <2>3. order[(i - 1) + 1] \in left[i - 1] /\ \A m \in left[i - 1] : Depth(t, order[(i - 1) + 1]) <= Depth(t, m)
    BY <1>5, <2>1, <2>2
  <2> QED
    BY <2>1, <2>2, <2>3 DEF Listed
<1>9. ASSUME NEW i \in 1 .. c, NEW j \in 1 .. c, i < j PROVE order[i] # order[j]
  <2>1. Listed(j - 1) /\ i \in 1 .. j - 1
    <3>1. j - 1 \in 0 .. c /\ i \in 1 .. j - 1
      BY <1>1, <1>9
    <3> HIDE DEF Listed
    <3> QED
      BY <1>7, <3>1
  <2>2. order[i] \notin left[j - 1]
    BY <2>1
  <2> QED
    BY <1>8, <2>2
<1>10. ASSUME NEW i \in 1 .. c, t[order[i]].parent \in I PROVE \E j \in 1 .. i - 1 : order[j] = t[order[i]].parent
  <2> DEFINE n == order[i]
             p == t[n].parent
  <2>1. n \in I /\ i - 1 \in 0 .. c
    BY <1>8
  <2>2. n \in Used(t) \ Root /\ Depth(t, n) = Depth(t, p) + 1 /\ Depth(t, p) \in Nat
    <3>1. n \in Used(t) \ Root
      BY <2>1, InsideIs DEF I
    <3>2. Depth(t, n) = Depth(t, p) + 1
      BY <3>1, DepthParent
    <3>3. p \in Used(t) /\ limits.depth \in Nat
      BY <1>2, <1>10 DEF Sized
    <3>4. Depth(t, p) \in 0 .. limits.depth
      BY <3>3, DepthIs
    <3> QED
      BY <3>1, <3>2, <3>3, <3>4
  <2>3. p \notin left[i - 1]
    <3> SUFFICES ASSUME p \in left[i - 1] PROVE FALSE
      OBVIOUS
    <3>1. Depth(t, n) <= Depth(t, p)
      BY <1>8
    <3> HIDE DEF n, p
    <3> QED
      BY <2>2, <3>1
  <2>4. Listed(i - 1)
    <3> HIDE DEF Listed
    <3> QED
      BY <1>7, <2>1
  <2> QED
    BY <1>10, <2>3, <2>4
<1>11. order \in [1 .. c -> I]
  <2>1. order = [i \in 1 .. c |-> order[i]]
    BY DEF order
  <2> QED
    BY <1>8, <2>1
<1>12. Exported(t) = [i \in 1 .. c |-> EntryOf(t, order[i])]
  BY <1>3 DEF order
<1>13. \A n \in I : \E i \in 1 .. c : order[i] = n
  <2>1. c \in 0 .. c /\ c - c = 0
    BY <1>1
  <2>2. Listed(c)
    <3> HIDE DEF Listed
    <3> QED
      BY <1>7, <2>1
  <2>3. left[c] = {}
    BY <2>1, <2>2, FS_EmptySet
  <2> QED
    BY <2>2, <2>3
<1> QED
  BY <1>9, <1>10, <1>11, <1>12, <1>13 DEF I, c

LEMMA NodeIs ==
    ASSUME Sized, NEW t, Shaped(t), NEW n \in Used(t)
    PROVE  /\ t[n].kind \in {"file", "dir"} /\ t[n].size \in 0 .. limits.size /\ t[n].size \in Nat
           /\ t[n].extents \in Seq(Extent) /\ t[n].name \in NodeName
           /\ t[n].kind = "dir" => t[n].size = 0 /\ t[n].extents = <<>>
<1>1. t[n] \in Node /\ t[n].kind # "free" /\ limits.size \in Nat
  BY DEF Shaped, Used, Sized
<1>2. t[n].kind = "dir" => t[n].size = 0 /\ t[n].extents = <<>>
  BY DEF Shaped
<1> QED
  BY <1>1, <1>2 DEF Node

LEMMA ExportedGood ==
    ASSUME Unit \in Nat \ {0}, Sized, NEW t, Shaped(t), Stored(t)
    PROVE  Good(Exported(t))
<1> DEFINE I == Inside(t)
           c == Cardinality(I)
           st == Exported(t)
<1>1. c \in Nat /\ c + 2 <= limits.nodes
  BY InsideCount
<1>2. PICK order \in [1 .. c -> I] :
          /\ st = [i \in 1 .. c |-> EntryOf(t, order[i])]
          /\ \A i, j \in 1 .. c : i < j => order[i] # order[j]
          /\ \A i \in 1 .. c : t[order[i]].parent \in I => \E j \in 1 .. i - 1 : order[j] = t[order[i]].parent
  BY ExportOrder
<1>3. \A n \in I : n \in Used(t)
  BY DEF Inside
<1> HIDE DEF I, c, st
<1>4. DOMAIN st = 1 .. c /\ \A i \in 1 .. c : st[i] = EntryOf(t, order[i]) /\ order[i] \in I /\ order[i] \in Used(t)
  BY <1>2, <1>3
<1>5. ASSUME NEW n \in I
      PROVE  /\ EntryOf(t, n) \in Entry
             /\ Len(Path(t, n)) - 1 \in 1 .. limits.depth /\ Path(t, n)[1] = "home"
             /\ Len(Path(t, n)) > 2 => t[n].parent \in I
             /\ t[t[n].parent].kind = "dir" /\ Front(Path(t, n)) = Path(t, t[n].parent)
             /\ t[n].kind = "dir" => t[n].size = 0 /\ t[n].extents = <<>>
  <2>1. /\ n \in Used(t) \ Root /\ Depth(t, n) \in 1 .. limits.depth /\ Path(t, n)[1] = "home"
        /\ t[t[n].parent].kind = "dir" /\ (Depth(t, n) > 1 => t[n].parent \in I)
    BY InsideIs DEF I
  <2>2. Path(t, n) \in Seq(NodeName) /\ Len(Path(t, n)) = Depth(t, n) + 1
    BY <2>1, PathIs
  <2>3. Front(Path(t, n)) = Path(t, t[n].parent)
    BY <2>1, PathParts
  <2>4. /\ t[n].kind \in {"file", "dir"} /\ t[n].size \in 0 .. limits.size /\ t[n].extents \in Seq(Extent)
        /\ t[n].kind = "dir" => t[n].size = 0 /\ t[n].extents = <<>>
    BY <2>1, NodeIs
  <2>5. EntryOf(t, n) \in Entry
    BY <2>2, <2>4 DEF EntryOf, Entry
  <2>6. Len(Path(t, n)) - 1 = Depth(t, n) /\ (Len(Path(t, n)) > 2 => Depth(t, n) > 1)
    <3>1. limits.depth \in Nat
      BY DEF Sized
    <3> QED
      BY <2>1, <2>2, <3>1
  <2> QED
    BY <2>1, <2>3, <2>4, <2>5, <2>6
<1>6. st \in Seq(Entry) /\ Len(st) = c
  <2>1. st \in [1 .. c -> Entry]
    <3>1. st = [i \in 1 .. c |-> EntryOf(t, order[i])]
      BY <1>2
    <3> QED
      BY <1>4, <1>5, <3>1
  <2> QED
    BY <1>1, <2>1
<1>7. ASSUME NEW i \in DOMAIN st
      PROVE  /\ Len(st[i].path) - 1 \in 1 .. limits.depth /\ st[i].path[1] = "home"
             /\ \A j \in 1 .. i - 1 : st[j].path # st[i].path
             /\ Len(st[i].path) > 2 => \E j \in 1 .. i - 1 : st[j].kind = "dir" /\ st[j].path = Front(st[i].path)
             /\ st[i].kind = "dir" => st[i].size = 0 /\ st[i].extents = <<>>
  <2> DEFINE n == order[i]
  <2>1. i \in 1 .. c /\ n \in I /\ n \in Used(t) /\ st[i] = EntryOf(t, n)
    BY <1>4
  <2>2. st[i].path = Path(t, n) /\ st[i].kind = t[n].kind /\ st[i].size = t[n].size /\ st[i].extents = t[n].extents
    BY <2>1 DEF EntryOf
  <2>3. ASSUME NEW j \in 1 .. i - 1 PROVE st[j].path # st[i].path
    <3>1. j \in 1 .. c /\ j < i
      BY <1>1, <2>1
    <3>2. order[j] # n /\ order[j] \in Used(t) /\ st[j].path = Path(t, order[j])
      BY <1>2, <1>4, <2>1, <3>1 DEF EntryOf
    <3> QED
      BY <2>1, <2>2, <3>2, PathsDiffer
  <2>4. ASSUME Len(st[i].path) > 2
        PROVE  \E j \in 1 .. i - 1 : st[j].kind = "dir" /\ st[j].path = Front(st[i].path)
    <3>1. t[n].parent \in I
      BY <1>5, <2>1, <2>2, <2>4
    <3>2. PICK j \in 1 .. i - 1 : order[j] = t[n].parent
      BY <1>2, <2>1, <3>1
    <3>3. j \in 1 .. c
      BY <1>1, <2>1
    <3>4. st[j].kind = t[t[n].parent].kind /\ st[j].path = Path(t, t[n].parent)
      BY <1>4, <3>2, <3>3 DEF EntryOf
    <3> QED
      BY <1>5, <2>1, <2>2, <3>4
  <2>5. /\ Len(Path(t, n)) - 1 \in 1 .. limits.depth /\ Path(t, n)[1] = "home"
        /\ t[n].kind = "dir" => t[n].size = 0 /\ t[n].extents = <<>>
    BY <1>5, <2>1
  <2> HIDE DEF n
  <2> QED
    BY <2>2, <2>3, <2>4, <2>5
<1>8. Stored(st)
  <2>1. \A i \in DOMAIN st : /\ order[i] \in DOMAIN t /\ st[i].extents = t[order[i]].extents
                             /\ t[order[i]].size \in Nat /\ st[i].size \in Nat /\ t[order[i]].size <= st[i].size
    <3> SUFFICES ASSUME NEW i \in DOMAIN st
                 PROVE  /\ order[i] \in DOMAIN t /\ st[i].extents = t[order[i]].extents
                        /\ t[order[i]].size \in Nat /\ st[i].size \in Nat /\ t[order[i]].size <= st[i].size
      OBVIOUS
    <3>1. order[i] \in Used(t) /\ st[i] = EntryOf(t, order[i])
      BY <1>4
    <3>2. order[i] \in DOMAIN t
      BY <3>1, UsedAre DEF Shaped
    <3>3. t[order[i]].size \in Nat
      BY <3>1, NodeIs
    <3>4. st[i].extents = t[order[i]].extents /\ st[i].size = t[order[i]].size
      BY <3>1 DEF EntryOf
    <3> QED
      BY <3>2, <3>3, <3>4
  <2>2. \A i, j \in DOMAIN st : order[i] = order[j] => i = j
    <3> SUFFICES ASSUME NEW i \in 1 .. c, NEW j \in 1 .. c, order[i] = order[j] PROVE i = j
      BY <1>4
    <3>1. i < j \/ j < i \/ i = j
      OBVIOUS
    <3> QED
      BY <1>2, <3>1
  <2> QED
    BY <2>1, <2>2, StoredAs
<1>9. Good(st)
  BY <1>1, <1>6, <1>7, <1>8 DEF Good
<1> QED
  BY <1>9 DEF st

\* The runs that metadata pins lie in the volume.
LEMMA GoodPins ==
    ASSUME Unit \in Nat \ {0}, Sized, NEW st, Good(st) PROVE Bounded(PinsOf(st))
<1> SUFFICES ASSUME NEW e \in PinsOf(st) PROVE e \in Extent /\ e.physical + e.blocks <= limits.end
  BY DEF Bounded
<1>1. PICK i \in DOMAIN st : e \in ToSet(st[i].extents)
  BY DEF PinsOf
<1>2. PICK j \in DOMAIN st[i].extents : e = st[i].extents[j]
  BY <1>1 DEF ToSet
<1>3. st[i] \in Entry /\ limits.size \in Nat /\ limits.end \in Nat /\ Stored(st)
  BY DEF Good, Sized
<1>4. st[i].extents \in Seq(Extent) /\ st[i].size \in Nat
  BY <1>3 DEF Entry
<1> QED
  BY <1>2, <1>3, <1>4, StoredIn

LEMMA NoNodeIs ==
    ASSUME Sized PROVE NoNode \in Node /\ NoNode.kind = "free" /\ NoNode.refs = 0 /\ NoNode.extents = <<>>
<1>1. limits.depth \in Nat /\ limits.size \in Nat /\ Cardinality(Handle) \in Nat
  BY FS_CardinalityType DEF Sized
<1> QED
  BY <1>1 DEF NoNode, Node, NodeName

LEMMA FreshIs ==
    ASSUME Sized, NEW kind \in {"file", "dir"}, NEW parent \in Slots \cup {0}, NEW name \in NodeName
    PROVE  LET e == Fresh(kind, parent, name)
           IN  /\ e \in Node /\ e.kind = kind /\ e.parent = parent /\ e.name = name
               /\ e.size = 0 /\ e.extents = <<>> /\ e.data = <<>> /\ e.refs = 0
<1>2. NoNode \in Node
  BY NoNodeIs
<1>3. NoNode.size = 0 /\ NoNode.extents = <<>> /\ NoNode.data = <<>> /\ NoNode.refs = 0
  BY DEF NoNode
<1> QED
  BY <1>2, <1>3 DEF Fresh, Node

LEMMA EmptyIs ==
    ASSUME Sized
    PROVE  /\ Shaped(Empty) /\ Used(Empty) = Root
           /\ \A n \in Slots : Empty[n].refs = 0 /\ Empty[n].extents = <<>>
<1>0. limits.depth \in Nat /\ limits.size \in Nat /\ Cardinality(Handle) \in Nat
  BY FS_CardinalityType DEF Sized
<1>1. Slots \subseteq Nat \ {0} /\ 0 \notin Slots /\ Root \subseteq Slots /\ 0 \notin Root
  BY SlotsAre
<1>2. NoNode \in Node /\ NoNode.kind = "free" /\ NoNode.refs = 0 /\ NoNode.extents = <<>>
  BY NoNodeIs
<1> DEFINE home == Fresh("dir", 0, "home")
           tmp  == Fresh("dir", 0, "tmp")
<1>3. home \in Node /\ home.kind = "dir" /\ home.parent = 0 /\ home.name = "home" /\ home.refs = 0 /\ home.extents = <<>> /\ home.size = 0
  <2>1. "dir" \in {"file", "dir"} /\ 0 \in Slots \cup {0} /\ "home" \in NodeName
    BY DEF NodeName
  <2> QED
    BY <2>1, FreshIs
<1>4. tmp \in Node /\ tmp.kind = "dir" /\ tmp.parent = 0 /\ tmp.name = "tmp" /\ tmp.refs = 0 /\ tmp.extents = <<>> /\ tmp.size = 0
  <2>1. "dir" \in {"file", "dir"} /\ 0 \in Slots \cup {0} /\ "tmp" \in NodeName
    BY DEF NodeName
  <2> QED
    BY <2>1, FreshIs
<1> HIDE DEF home, tmp
<1>5. Empty = [n \in Slots |-> IF n = Home THEN home ELSE IF n = Tmp THEN tmp ELSE NoNode]
  BY DEF Empty, home, tmp
<1>6. Home # Tmp /\ Root = {Home, Tmp}
  BY DEF Home, Tmp, Root
<1>7. Empty \in [Slots -> Node] /\ \A n \in Slots : Empty[n].refs = 0 /\ Empty[n].extents = <<>>
  BY <1>2, <1>3, <1>4, <1>5
<1>8. Used(Empty) = Root
  <2>1. \A n \in Slots : Empty[n].kind # "free" <=> n \in Root
    BY <1>2, <1>3, <1>4, <1>5, <1>6
  <2> QED
    BY <1>1, <2>1 DEF Used
<1>9. \A r \in Root : Empty[r].kind = "dir" /\ Empty[r].parent = 0 /\ Empty[r].name = IF r = Home THEN "home" ELSE "tmp"
  BY <1>1, <1>3, <1>4, <1>5, <1>6
<1>10. \A n \in Used(Empty) : \E d \in 0 .. limits.depth : Above(Empty, n)[d] \in Root
  <2> SUFFICES ASSUME NEW n \in Root PROVE \E d \in 0 .. limits.depth : Above(Empty, n)[d] \in Root
    BY <1>8
  <2>1. 0 \in 0 .. limits.depth /\ Above(Empty, n)[0] = n
    BY <1>0, AboveSteps
  <2> QED
    BY <2>1
<1>11. \A n \in Slots \ Used(Empty) : Empty[n] = NoNode
  BY <1>5, <1>6, <1>8
<1>12. \A n \in Used(Empty) : Empty[n].kind = "dir" => Empty[n].size = 0 /\ Empty[n].extents = <<>>
  BY <1>1, <1>3, <1>4, <1>5, <1>6, <1>8
<1> QED
  BY <1>7, <1>8, <1>9, <1>10, <1>11, <1>12 DEF Shaped

LEMMA StoredEmpty == ASSUME Sized PROVE Stored(Empty)
<1>1. DOMAIN Empty = Slots /\ \A n \in Slots : Empty[n].extents = <<>>
  BY EmptyIs DEF Empty
<1>2. \A n \in DOMAIN Empty : Ordered(Empty[n].extents)
  BY <1>1 DEF Ordered
<1>3. \A n \in DOMAIN Empty, l, p \in Nat : ~Owns(Empty[n].extents, l, p)
  BY <1>1, NothingOwned
<1> QED
  BY <1>2, <1>3 DEF Stored

-----------------------------------------------------------------------------
\* What a mount makes of an entry, and where it puts it.
NodeOf(t, e) ==
    [Fresh(e.kind, NodeAt(t, Front(e.path)), Last(e.path)) EXCEPT !.size = e.size, !.extents = e.extents]
Listed(t, e) == [t EXCEPT ![FreeSlot(t)] = NodeOf(t, e)]

\* The recursion of Imported defines a function.
LEMMA ImportSteps ==
    ASSUME NEW S, NEW st \in Seq(S)
    PROVE  \E built : /\ built[0] = Empty /\ Imported(st) = built[Len(st)]
                      /\ \A i \in 1 .. Len(st) : built[i] = Listed(built[i - 1], st[i])
<1> DEFINE N == Len(st)
           Step(f, N0) == [i \in 0 .. N0 |-> IF i = 0 THEN Empty ELSE Listed(f[i - 1], st[i])]
           Built == {k \in 0 .. N : \E f : f = Step(f, k)}
<1>1. N \in Nat
  OBVIOUS
<1> HIDE DEF N
<1>2. 0 \in Built
  <2> DEFINE f == [i \in 0 .. 0 |-> Empty]
  <2>1. f = Step(f, 0)
    OBVIOUS
  <2> HIDE DEF f, Step
  <2> QED
    BY <1>1, <2>1
<1>3. ASSUME NEW k \in 0 .. N, k \in Built, k # N PROVE k + 1 \in Built
  <2>1. PICK f : f = Step(f, k)
    BY <1>3
  <2> DEFINE g == [j \in 0 .. k + 1 |-> IF j = k + 1 THEN Listed(f[k], st[k + 1]) ELSE f[j]]
  <2>2. \A j \in 0 .. k : f[j] = IF j = 0 THEN Empty ELSE Listed(f[j - 1], st[j])
    BY <2>1
  <2>3. ASSUME NEW j \in 0 .. k + 1 PROVE g[j] = IF j = 0 THEN Empty ELSE Listed(g[j - 1], st[j])
    <3>1. CASE j = k + 1
      <4>1. k \in 0 .. k + 1 /\ k # k + 1 /\ j - 1 = k /\ j # 0
        BY <1>1, <3>1
      <4> QED
        BY <3>1, <4>1
    <3>2. CASE j # k + 1
      <4>1. j \in 0 .. k /\ (j # 0 => j - 1 \in 0 .. k + 1 /\ j - 1 # k + 1)
        BY <1>1, <3>2
      <4> QED
        BY <2>2, <3>2, <4>1
    <3> QED
      BY <3>1, <3>2
  <2>4. g = Step(g, k + 1)
    <3>1. g = [j \in 0 .. k + 1 |-> g[j]]
      OBVIOUS
    <3> HIDE DEF g
    <3> QED
      BY <2>3, <3>1
  <2>5. k + 1 \in 0 .. N
    BY <1>1, <1>3
  <2> HIDE DEF g, Step
  <2> QED
    BY <2>4, <2>5
<1>4. N \in Built
  <2> HIDE DEF Built
  <2>1. N \in 0 .. N
    BY <1>1
  <2> QED
    BY <1>1, <1>2, <1>3, <2>1, UpTo
<1>5. \E f : f = Step(f, N)
  BY <1>4
<1> DEFINE built == CHOOSE f : f = Step(f, N)
<1>6. built = Step(built, N)
  <2> HIDE DEF Step
  <2> QED
    BY <1>5
<1>7. Imported(st) = built[N]
  BY DEF Imported, Listed, NodeOf, N
<1> HIDE DEF built
<1>8. \A i \in 0 .. N : built[i] = IF i = 0 THEN Empty ELSE Listed(built[i - 1], st[i])
  BY <1>6
<1>9. built[0] = Empty /\ \A i \in 1 .. N : built[i] = Listed(built[i - 1], st[i])
  <2>1. 0 \in 0 .. N /\ \A i \in 1 .. N : i \in 0 .. N /\ i # 0
    BY <1>1
  <2> QED
    BY <1>8, <2>1
<1> QED
  BY <1>7, <1>9 DEF N

LEMMA WholePath ==
    ASSUME NEW S, NEW s \in Seq(S), Len(s) > 1
    PROVE  /\ s = Append(Front(s), Last(s)) /\ Last(s) \in S /\ Front(s) \in Seq(S)
           /\ Len(Front(s)) = Len(s) - 1 /\ \A i \in 1 .. Len(s) - 1 : Front(s)[i] = s[i]
<1>1. Front(s) = [i \in 1 .. Len(s) - 1 |-> s[i]]
  BY DEF Front
<1>2. Len(s) \in Nat /\ \A i \in 1 .. Len(s) : s[i] \in S
  OBVIOUS
<1>3. Front(s) \in Seq(S) /\ Len(Front(s)) = Len(s) - 1
  BY <1>1, <1>2
<1>4. s = Append(Front(s), Last(s))
  BY <1>1, <1>2, <1>3 DEF Last
<1> QED
  BY <1>1, <1>2, <1>3, <1>4 DEF Last

\* A list of n nodes, and the two roots before them.
Holds(t, st, n) ==
    /\ Shaped(t) /\ Used(t) = 1 .. n + 2
    /\ \A m \in Slots : t[m].refs = 0
    /\ \A r \in Root : t[r].extents = <<>>
    /\ \A j \in 1 .. n : /\ Path(t, j + 2) = st[j].path /\ t[j + 2].kind = st[j].kind
                         /\ t[j + 2].size = st[j].size /\ t[j + 2].extents = st[j].extents

\* The directory of the next node of a list is there, and is no too deep.
LEMMA Placeable ==
    ASSUME Sized, NEW st, Good(st), NEW i \in DOMAIN st, NEW t, Holds(t, st, i - 1)
    PROVE  LET p == NodeAt(t, Front(st[i].path))
           IN  /\ p \in Used(t) /\ t[p].kind = "dir" /\ Path(t, p) = Front(st[i].path)
               /\ Above(t, p)[limits.depth] = 0 /\ Child(t, p, Last(st[i].path)) = {}
<1> DEFINE path == st[i].path
           p == NodeAt(t, Front(path))
<1>1. i \in 1 .. Len(st) /\ Len(st) \in Nat /\ limits.depth \in Nat /\ limits.nodes \in Nat /\ Len(st) + 2 <= limits.nodes
  BY DEF Good, Sized
<1>2. path \in Seq(NodeName) /\ Len(path) - 1 \in 1 .. limits.depth /\ path[1] = "home"
  <2>1. st[i] \in Entry /\ Len(st[i].path) - 1 \in 1 .. limits.depth /\ st[i].path[1] = "home"
    BY DEF Good
  <2> QED
    BY <2>1 DEF Entry
<1>3. Len(path) \in Nat /\ Len(path) > 1
  BY <1>2
<1>4. /\ path = Append(Front(path), Last(path)) /\ Last(path) \in NodeName /\ Front(path) \in Seq(NodeName)
      /\ Len(Front(path)) = Len(path) - 1 /\ \A j \in 1 .. Len(path) - 1 : Front(path)[j] = path[j]
  BY <1>2, <1>3, WholePath
<1>5. Shaped(t) /\ Used(t) = 1 .. (i - 1) + 2 /\ Root \subseteq Used(t)
  BY UsedAre DEF Holds
<1>6. \E n \in Used(t) : t[n].kind = "dir" /\ Path(t, n) = Front(path)
  <2>1. CASE Len(path) = 2
    <3>1. Home \in Root /\ Home \in Used(t)
      BY <1>5 DEF Root
    <3>2. t[Home].kind = "dir" /\ Path(t, Home) = <<"home">>
      BY <1>5, <3>1, PathRoot DEF Shaped
    <3>3. Front(path) = <<"home">>
      <4> DEFINE f == Front(path)
      <4>1. f \in Seq(NodeName) /\ Len(f) = 1 /\ f[1] = "home"
        BY <1>2, <1>4, <2>1
      <4> HIDE DEF f
      <4>2. f = <<"home">>
        BY <4>1
      <4> QED
        BY <4>2 DEF f
    <3> QED
      BY <3>1, <3>2, <3>3
  <2>2. CASE Len(path) # 2
    <3>1. Len(path) > 2
      <4> DEFINE l == Len(path)
      <4>1. l \in Nat /\ l > 1 /\ l # 2
        BY <1>3, <2>2
      <4> HIDE DEF l
      <4>2. l > 2
        BY <4>1
      <4> QED
        BY <4>2 DEF l
    <3>2. PICK j \in 1 .. i - 1 : st[j].kind = "dir" /\ st[j].path = Front(path)
      BY <3>1 DEF Good
    <3>3. j + 2 \in Used(t)
      BY <1>1, <1>5
    <3>4. Path(t, j + 2) = st[j].path /\ t[j + 2].kind = st[j].kind
      BY DEF Holds
    <3> QED
      BY <3>2, <3>3, <3>4
  <2> QED
    BY <2>1, <2>2
<1>7. p \in Used(t) /\ Path(t, p) = Front(path)
  BY <1>6 DEF NodeAt
<1> HIDE DEF path, p
<1>8. t[p].kind = "dir"
  <2>1. PICK n \in Used(t) : t[n].kind = "dir" /\ Path(t, n) = Front(path)
    BY <1>6
  <2>2. n = p
    BY <1>5, <1>7, <2>1, PathsDiffer
  <2> QED
    BY <2>1, <2>2
<1>9. Above(t, p)[limits.depth] = 0
  <2>1. Len(Path(t, p)) = Depth(t, p) + 1 /\ Depth(t, p) \in 0 .. limits.depth
    BY <1>5, <1>7, PathIs, DepthIs
  <2>2. limits.depth > Depth(t, p) /\ limits.depth \in 0 .. limits.depth + 1
    BY <1>1, <1>2, <1>4, <1>7, <2>1
  <2> QED
    BY <1>5, <1>7, <2>2, DepthIs
<1>10. Child(t, p, Last(path)) = {}
  <2> SUFFICES ASSUME NEW m \in Used(t), t[m].parent = p, t[m].name = Last(path) PROVE FALSE
    BY DEF Child
  <2>1. p # 0
    BY <1>5, <1>7, UsedAre
  <2>2. m \notin Root
    BY <1>5, <2>1 DEF Shaped
  <2>3. Path(t, m) = path
    <3>1. Path(t, m) = Append(Path(t, t[m].parent), t[m].name)
      BY <1>5, <2>2, PathStep
    <3> QED
      BY <1>4, <1>7, <3>1
  <2>4. m \in 1 .. (i - 1) + 2 /\ m # 1 /\ m # 2
    BY <1>5, <2>2 DEF Root, Home, Tmp
  <2>5. m - 2 \in 1 .. i - 1 /\ (m - 2) + 2 = m
    BY <1>1, <2>4
  <2>6. st[m - 2].path # path
    BY <2>5 DEF Good, path
  <2>7. Path(t, (m - 2) + 2) = st[m - 2].path
    BY <2>5 DEF Holds
  <2> QED
    BY <2>3, <2>5, <2>6, <2>7
<1> QED
  BY <1>7, <1>8, <1>9, <1>10 DEF p, path

\* One node after the other, each behind the one before.
LEMMA ListedIs ==
    ASSUME Sized, NEW st, Good(st), NEW i \in DOMAIN st, NEW t, Holds(t, st, i - 1)
    PROVE  Holds(Listed(t, st[i]), st, i)
<1> DEFINE e == st[i]
           p == NodeAt(t, Front(e.path))
           new == NodeOf(t, e)
           n == i + 2
           u == Put(t, n, new)
<1>1. i \in 1 .. Len(st) /\ Len(st) \in Nat /\ limits.nodes \in Nat /\ Len(st) + 2 <= limits.nodes
  BY DEF Good, Sized
<1>2. e \in Entry /\ (e.kind = "dir" => e.size = 0 /\ e.extents = <<>>)
  BY DEF Good
<1>3. Shaped(t) /\ Used(t) = 1 .. i + 1 /\ t \in [Slots -> Node]
  <2>1. (i - 1) + 2 = i + 1
    BY <1>1
  <2> QED
    BY <2>1 DEF Holds, Shaped
<1>4. /\ p \in Used(t) /\ t[p].kind = "dir" /\ Path(t, p) = Front(e.path)
      /\ Above(t, p)[limits.depth] = 0 /\ Child(t, p, Last(e.path)) = {}
  BY Placeable
<1>5. n \in Slots \ Used(t) /\ n \in Nat /\ FreeSlot(t) = n
  <2> DEFINE Free == Slots \ Used(t)
  <2>1. n \in Free /\ n \in Nat /\ Free \in SUBSET Nat /\ \A y \in Free : n <= y
    BY <1>1, <1>3 DEF Slots
  <2>2. Least(Free) \in Free /\ \A y \in Free : Least(Free) <= y
    <3> HIDE DEF Free
    <3> QED
      BY <2>1, LeastIs
  <2>3. Least(Free) \in Nat /\ Least(Free) <= n /\ n <= Least(Free)
    BY <2>1, <2>2
  <2>4. Least(Free) = n
    <3> DEFINE l == Least(Free)
    <3> HIDE DEF l
    <3>1. l \in Nat /\ l <= n /\ n <= l
      BY <2>3 DEF l
    <3>2. l = n
      BY <2>1, <3>1
    <3> QED
      BY <3>2 DEF l
  <2> QED
    BY <2>1, <2>4 DEF FreeSlot
<1>6. e.path \in Seq(NodeName) /\ Len(e.path) > 1
  BY <1>2 DEF Good, Entry
<1>7. e.path = Append(Front(e.path), Last(e.path)) /\ Last(e.path) \in NodeName
  BY <1>6, WholePath
<1>8. /\ new \in Node /\ new.parent = p /\ new.name = Last(e.path) /\ new.kind = e.kind
      /\ new.size = e.size /\ new.extents = e.extents /\ new.refs = 0
  <2> DEFINE base == Fresh(e.kind, p, Last(e.path))
  <2>1. e.kind \in {"file", "dir"} /\ e.size \in 0 .. limits.size /\ e.extents \in Seq(Extent) /\ p \in Slots \cup {0}
    BY <1>2, <1>3, <1>4, UsedAre DEF Entry
  <2>2. /\ base \in Node /\ base.kind = e.kind /\ base.parent = p /\ base.name = Last(e.path) /\ base.refs = 0
    <3> HIDE DEF e, p
    <3> QED
      BY <1>7, <2>1, FreshIs
  <2>3. new = [base EXCEPT !.size = e.size, !.extents = e.extents]
    BY DEF NodeOf
  <2> HIDE DEF base, e, p, new
  <2> QED
    BY <2>1, <2>2, <2>3 DEF Node
<1>9. Listed(t, e) = u
  BY <1>5 DEF Listed, Put
<1>10. e.kind # "free"
  BY <1>2 DEF Entry
<1>11. /\ Shaped(u) /\ Used(u) = Used(t) \cup {n}
       /\ \A m \in Used(t) : Path(u, m) = Path(t, m)
       /\ Path(u, n) = Append(Path(t, p), new.name)
  <2>1. /\ new.kind # "free" /\ Child(t, p, new.name) = {}
        /\ new.kind = "dir" => new.size = 0 /\ new.extents = <<>>
    <3> HIDE DEF e, p, new, n
    <3> QED
      BY <1>2, <1>4, <1>8, <1>10
  <2> HIDE DEF e, p, new, n
  <2>2. new \in Node /\ new.parent = p /\ n \in Slots \ Used(t)
    BY <1>5, <1>8
  <2>3. Shaped(t)
    BY <1>3
  <2>4. Shaped(Put(t, n, new)) /\ Used(Put(t, n, new)) = Used(t) \cup {n}
    BY <1>4, <2>1, <2>2, <2>3, Grown
  <2>5. \A m \in Used(t) : Path(Put(t, n, new), m) = Path(t, m)
    BY <1>4, <2>1, <2>2, <2>3, Grown
  <2>6. Path(Put(t, n, new), n) = Append(Path(t, p), new.name)
    BY <1>4, <2>1, <2>2, <2>3, Grown
  <2> QED
    BY <2>4, <2>5, <2>6
<1>12. \A m \in Slots : m # n => u[m] = t[m]
  BY <1>3 DEF Put
<1>13. u[n] = new
  BY <1>3, <1>5 DEF Put
<1> HIDE DEF e, p, new, u
<1>14. Used(u) = 1 .. i + 2
  BY <1>1, <1>3, <1>11
<1>15. \A m \in Slots : u[m].refs = 0
  BY <1>8, <1>12, <1>13 DEF Holds
<1>16. \A r \in Root : u[r].extents = <<>>
  <2>1. \A r \in Root : r \in Slots /\ r # n
    BY <1>3, <1>5, UsedAre
  <2> QED
    BY <1>12, <2>1 DEF Holds
<1>17. ASSUME NEW j \in 1 .. i
       PROVE  /\ Path(u, j + 2) = st[j].path /\ u[j + 2].kind = st[j].kind
              /\ u[j + 2].size = st[j].size /\ u[j + 2].extents = st[j].extents
  <2>1. CASE j = i
    <3>1. Path(u, n) = e.path
      BY <1>4, <1>7, <1>8, <1>11
    <3>2. st[j] = e /\ j + 2 = n
      BY <2>1 DEF e
    <3> QED
      BY <1>8, <1>13, <3>1, <3>2
  <2>2. CASE j # i
    <3>1. j \in 1 .. i - 1 /\ j + 2 \in Used(t) /\ j + 2 # n
      BY <1>1, <1>3, <2>2
    <3>2. /\ Path(t, j + 2) = st[j].path /\ t[j + 2].kind = st[j].kind
          /\ t[j + 2].size = st[j].size /\ t[j + 2].extents = st[j].extents
      BY <3>1 DEF Holds
    <3>3. Path(u, j + 2) = Path(t, j + 2) /\ j + 2 \in Slots
      BY <1>3, <1>11, <3>1, UsedAre
    <3> QED
      BY <1>12, <3>1, <3>2, <3>3
  <2> QED
    BY <2>1, <2>2
<1>18. Holds(u, st, i)
  BY <1>11, <1>14, <1>15, <1>16, <1>17 DEF Holds
<1> QED
  BY <1>9, <1>18 DEF e

\* A mount of good metadata gives every entry its node, in the order of the list.
LEMMA ImportHolds ==
    ASSUME Sized, NEW st, Good(st) PROVE Holds(Imported(st), st, Len(st))
<1>1. st \in Seq(Entry) /\ Len(st) \in Nat /\ DOMAIN st = 1 .. Len(st)
  BY DEF Good
<1>2. PICK built : /\ built[0] = Empty /\ Imported(st) = built[Len(st)]
                   /\ \A i \in 1 .. Len(st) : built[i] = Listed(built[i - 1], st[i])
  BY <1>1, ImportSteps
<1> DEFINE N == Len(st)
           S == {i \in 0 .. N : Holds(built[i], st, i)}
<1>3. 0 \in S
  <2>1. Used(Empty) = 1 .. 0 + 2 /\ Root \subseteq Slots
    BY EmptyIs, SlotsAre DEF Root, Home, Tmp
  <2>2. Holds(Empty, st, 0)
    BY <2>1, EmptyIs DEF Holds
  <2> QED
    BY <1>1, <1>2, <2>2
<1>4. ASSUME NEW k \in 0 .. N, k \in S, k # N PROVE k + 1 \in S
  <2>0. N \in Nat
    BY <1>1
  <2>1. k + 1 \in 1 .. N /\ (k + 1) - 1 = k
    <3> HIDE DEF N, S
    <3> QED
      BY <1>4, <2>0
  <2>2. Holds(built[k], st, (k + 1) - 1)
    BY <1>4, <2>1
  <2>3. Holds(Listed(built[k], st[k + 1]), st, k + 1)
    BY <1>1, <2>1, <2>2, ListedIs
  <2>4. built[k + 1] = Listed(built[k], st[k + 1])
    BY <1>2, <2>1
  <2> QED
    BY <2>1, <2>3, <2>4
<1>5. \A k \in 0 .. N : k \in S
  <2> HIDE DEF S
  <2> QED
    BY <1>1, <1>3, <1>4, UpTo
<1>6. N \in 0 .. N
  BY <1>1
<1> QED
  BY <1>2, <1>5, <1>6

\* What a mount builds of good metadata.
LEMMA ImportedIs ==
    ASSUME Unit \in Nat \ {0}, Sized, NEW st, Good(st)
    PROVE  Shaped(Imported(st)) /\ Stored(Imported(st)) /\ \A n \in Slots : Imported(st)[n].refs = 0
<1> DEFINE t == Imported(st)
           N == Len(st)
<1>1. st \in Seq(Entry) /\ N \in Nat /\ DOMAIN st = 1 .. N /\ Stored(st) /\ limits.size \in Nat
  BY DEF Good, Sized
<1>6. Holds(t, st, N)
  BY ImportHolds
<1> HIDE DEF t
<1>7. Shaped(t) /\ Used(t) = 1 .. N + 2 /\ DOMAIN t = Slots
  BY <1>6 DEF Holds, Shaped
<1> DEFINE h == [n \in Slots |-> n - 2]
<1>8. ASSUME NEW n \in Slots
      PROVE  \/ t[n].extents = <<>>
             \/ /\ h[n] \in DOMAIN st /\ t[n].extents = st[h[n]].extents
                /\ st[h[n]].size \in Nat /\ t[n].size \in Nat /\ st[h[n]].size <= t[n].size
  <2>1. CASE n \in Root
    BY <1>6, <2>1 DEF Holds
  <2>2. CASE n \notin Used(t)
    <3>1. t[n] = NoNode
      BY <1>7, <2>2 DEF Shaped
    <3>2. t[n].extents = <<>>
      BY <3>1, NoNodeIs
    <3> QED
      BY <3>2
  <2>3. CASE n \in Used(t) \ Root
    <3>1. n \in 1 .. N + 2 /\ n # 1 /\ n # 2
      BY <1>7, <2>3 DEF Root, Home, Tmp
    <3>2. n - 2 \in 1 .. N /\ (n - 2) + 2 = n
      BY <1>1, <3>1
    <3>3. t[(n - 2) + 2].size = st[n - 2].size /\ t[(n - 2) + 2].extents = st[n - 2].extents
      BY <1>6, <3>2 DEF Holds
    <3>4. st[n - 2] \in Entry
      BY <1>1, <3>2
    <3>5. st[n - 2].size \in Nat
      BY <1>1, <3>4 DEF Entry
    <3>6. h[n] = n - 2
      OBVIOUS
    <3> QED
      BY <1>1, <3>2, <3>3, <3>5, <3>6
  <2> QED
    BY <2>1, <2>2, <2>3
<1>9. \A n, m \in Slots : h[n] = h[m] => n = m
  BY SlotsAre
<1>10. Stored(t)
  <2> HIDE DEF h
  <2> QED
    BY <1>1, <1>7, <1>8, <1>9, StoredAs
<1>11. \A n \in Slots : t[n].refs = 0
  BY <1>6 DEF Holds
<1> QED
  BY <1>7, <1>10, <1>11 DEF t

\* What is called home before everything else is below the volume's root.
LEMMA HomePath ==
    ASSUME Sized, NEW t, Shaped(t), NEW n \in Used(t) \ Root, Path(t, n)[1] = "home" PROVE n \in Inside(t)
<1> DEFINE d == Depth(t, n)
           a == Above(t, n)[d]
<1>1. d \in 0 .. limits.depth /\ a \in Root /\ limits.depth \in Nat
  BY DepthIs DEF Sized
<1> HIDE DEF d
<1>2. 1 \in 1 .. d + 1 /\ d + 1 - 1 = d
  BY <1>1
<1>3. Path(t, n)[1] = t[a].name
  <2>1. \A i \in 1 .. d + 1 : Path(t, n)[i] = t[Above(t, n)[d + 1 - i]].name
    BY PathIs DEF d
  <2> QED
    BY <1>2, <2>1
<1>4. t[a].name = IF a = Home THEN "home" ELSE "tmp"
  BY <1>1 DEF Shaped
<1>5. a = Home
  BY <1>3, <1>4
<1>6. n # Home
  BY DEF Root
<1> QED
  BY <1>1, <1>5, <1>6 DEF Inside, Descendant

\* What the volume holds, without the numbers of the nodes.
Catalog(t) == {EntryOf(t, n) : n \in Inside(t)}

LEMMA RestoredIs ==
    ASSUME Unit \in Nat \ {0}, Sized, NEW t, Shaped(t), Stored(t)
    PROVE  Catalog(Imported(Exported(t))) = Catalog(t)
<1> DEFINE c == Cardinality(Inside(t))
           st == Exported(t)
           u == Imported(st)
<1>1. c \in Nat
  BY InsideCount
<1>2. PICK order \in [1 .. c -> Inside(t)] :
          /\ st = [i \in 1 .. c |-> EntryOf(t, order[i])]
          /\ \A n \in Inside(t) : \E i \in 1 .. c : order[i] = n
  BY ExportOrder
<1>3. Good(st)
  BY ExportedGood
<1>4. Len(st) = c
  <2> HIDE DEF c
  <2> QED
    BY <1>1, <1>2
<1>5. Holds(u, st, c)
  BY <1>3, <1>4, ImportHolds
<1> HIDE DEF c, st, u
<1>6. Shaped(u) /\ Used(u) = 1 .. c + 2
      /\ \A j \in 1 .. c : /\ Path(u, j + 2) = st[j].path /\ u[j + 2].kind = st[j].kind
                           /\ u[j + 2].size = st[j].size /\ u[j + 2].extents = st[j].extents
  BY <1>5 DEF Holds
<1>7. ASSUME NEW j \in 1 .. c PROVE j + 2 \in Inside(u) /\ EntryOf(u, j + 2) = EntryOf(t, order[j])
  <2>1. j + 2 \in 1 .. c + 2 /\ j + 2 \notin Root
    BY <1>1 DEF Root, Home, Tmp
  <2>2. st[j] = EntryOf(t, order[j]) /\ order[j] \in Inside(t)
    BY <1>2
  <2>3. Path(u, j + 2)[1] = "home"
    BY <1>6, <2>2, InsideIs DEF EntryOf
  <2>4. j + 2 \in Inside(u)
    BY <1>6, <2>1, <2>3, HomePath
  <2> QED
    BY <1>6, <2>2, <2>4 DEF EntryOf
<1>8. ASSUME NEW n \in Inside(u) PROVE \E j \in 1 .. c : n = j + 2
  <2>1. n \in 1 .. c + 2 /\ n # 1 /\ n # 2
    BY <1>6, InsideIs DEF Root, Home, Tmp
  <2>2. n - 2 \in 1 .. c /\ n = (n - 2) + 2
    BY <1>1, <2>1
  <2> QED
    BY <2>2
<1>9. Catalog(u) \subseteq Catalog(t)
  BY <1>2, <1>7, <1>8 DEF Catalog
<1>10. Catalog(t) \subseteq Catalog(u)
  BY <1>2, <1>7 DEF Catalog
<1> QED
  BY <1>9, <1>10 DEF u, st

-----------------------------------------------------------------------------
(***************************************************************************)
(* What holds of the file system always                                    *)
(***************************************************************************)
\* A descriptor is on a node in use, and one that writes is on a file; a node
\* counts those on it; the working directory is a directory; what a save pins
\* and what the roots hold is inside the volume and good.
Descriptions == [node : Slots, mode : Mode, offset : 0 .. limits.size]
Described(t, f) ==
    /\ f \in [Handle -> {Closed} \cup Descriptions]
    /\ \A h \in Handle : f[h] # Closed =>
          f[h].node \in Used(t) /\ (f[h].mode # "read" => t[f[h].node].kind = "file")
Count(f, n) == Cardinality({h \in Handle : f[h] # Closed /\ f[h].node = n})
Counted(t, f) == \A n \in Slots : t[n].refs = Count(f, n)
Stands(t, c) == c \in Used(t) /\ t[c].kind = "dir"
Pinned(p) == DOMAIN p = {0, 1} /\ \A s \in {0, 1} : Bounded(p[s])
Rooted(r) == DOMAIN r = {0, 1} /\ \A s \in {0, 1} : r[s] # Blank => Good(r[s])

FilesInv ==
    /\ limits \in Limits /\ disk \in BOOLEAN
    /\ Shaped(nodes) /\ Stored(nodes)
    /\ Described(nodes, fd) /\ Counted(nodes, fd) /\ Stands(nodes, cwd)
    /\ hint \in 0 .. limits.end
    /\ Pinned(pins) /\ Rooted(roots)

-----------------------------------------------------------------------------
LEMMA Sizes ==
    ASSUME FilesInv
    PROVE  /\ Sized /\ Unit \in Nat \ {0} /\ limits.size \in Nat /\ limits.end \in Nat
           /\ limits.depth \in Nat /\ Cardinality(Handle) \in Nat /\ Slots \subseteq Nat
<1>1. limits \in [nodes : Nat \ {0, 1}, depth : Nat, size : Nat, end : Nat] /\ IsFiniteSet(Handle)
  BY FilesAssumption DEF FilesInv, FilesAssumption
<1> QED
  BY <1>1, FilesAssumption, FS_CardinalityType DEF FilesAssumption, Sized, Slots

\* The limits stay as they are, and so does what depends on them.
LEMMA SameUsed == ASSUME limits' = limits, NEW t PROVE Used(t)' = Used(t)
  BY DEF Used, Slots
LEMMA SameShaped == ASSUME limits' = limits, NEW t PROVE Shaped(t)' <=> Shaped(t)
  BY DEF Shaped, Above, Used, Slots, Node
LEMMA SameStored == ASSUME limits' = limits, NEW t PROVE Stored(t)' <=> Stored(t)
  BY DEF Stored
LEMMA SameGood == ASSUME limits' = limits, NEW st PROVE Good(st)' <=> Good(st)
  BY SameStored DEF Good, Entry
LEMMA SameBounded == ASSUME limits' = limits, NEW T PROVE Bounded(T)' <=> Bounded(T)
  BY DEF Bounded
LEMMA SameDescribed == ASSUME limits' = limits, NEW t, NEW f PROVE Described(t, f)' <=> Described(t, f)
  BY SameUsed DEF Described, Descriptions, Slots
LEMMA SameCounted == ASSUME limits' = limits, NEW t, NEW f PROVE Counted(t, f)' <=> Counted(t, f)
  BY DEF Counted, Slots
LEMMA SameStands == ASSUME limits' = limits, NEW t, NEW c PROVE Stands(t, c)' <=> Stands(t, c)
  BY SameUsed DEF Stands
LEMMA SamePinned == ASSUME limits' = limits, NEW p PROVE Pinned(p)' <=> Pinned(p)
  BY SameBounded DEF Pinned
LEMMA SameRooted == ASSUME limits' = limits, NEW r PROVE Rooted(r)' <=> Rooted(r)
  BY SameGood DEF Rooted

LEMMA Again ==
    ASSUME FilesInv, UNCHANGED machine, Shaped(nodes'), Stored(nodes'), Described(nodes', fd'),
           Counted(nodes', fd'), Stands(nodes', cwd'), hint' \in 0 .. limits.end, Pinned(pins'), Rooted(roots')
    PROVE  FilesInv'
<1>1. limits' = limits /\ disk' = disk /\ limits \in Limits /\ disk \in BOOLEAN
  BY DEF machine, FilesInv
<1>2. Shaped(nodes)' /\ Stored(nodes)'
  BY <1>1, SameShaped, SameStored
<1>3. Described(nodes, fd)' /\ Counted(nodes, fd)' /\ Stands(nodes, cwd)'
  BY <1>1, SameDescribed, SameCounted, SameStands
<1>4. Pinned(pins)' /\ Rooted(roots)'
  BY <1>1, SamePinned, SameRooted
<1> QED
  BY <1>1, <1>2, <1>3, <1>4 DEF FilesInv

-----------------------------------------------------------------------------
(***************************************************************************)
(* Descriptors                                                             *)
(***************************************************************************)
LEMMA NotClosed == ASSUME Sized, NEW d \in Descriptions PROVE d # Closed
<1>1. d \in [node : Nat, mode : Mode, offset : Nat]
  BY SlotsAre DEF Descriptions, Sized
<1> QED
  BY <1>1, FilesAssumption DEF FilesAssumption

\* The descriptors when one of them becomes d.
Now(f, h, d) == [f EXCEPT ![h] = d]
On(f, n) == {h \in Handle : f[h] # Closed /\ f[h].node = n}

LEMMA CountIs ==
    ASSUME Sized, NEW f, NEW n
    PROVE  IsFiniteSet(On(f, n)) /\ Count(f, n) = Cardinality(On(f, n)) /\ Count(f, n) \in 0 .. Cardinality(Handle)
<1>1. On(f, n) \in SUBSET Handle /\ IsFiniteSet(Handle) /\ Count(f, n) = Cardinality(On(f, n))
  BY DEF On, Count, Sized
<1>2. IsFiniteSet(On(f, n)) /\ Cardinality(On(f, n)) <= Cardinality(Handle)
  BY <1>1, FS_Subset
<1>3. Cardinality(On(f, n)) \in Nat /\ Cardinality(Handle) \in Nat
  BY <1>1, <1>2, FS_CardinalityType
<1> QED
  BY <1>1, <1>2, <1>3

LEMMA NoneOn ==
    ASSUME Sized, NEW f, NEW n, Count(f, n) = 0, NEW h \in Handle, f[h] # Closed PROVE f[h].node # n
<1>1. On(f, n) = {}
  BY CountIs, FS_EmptySet
<1> QED
  BY <1>1 DEF On

LEMMA CountOpened ==
    ASSUME Sized, NEW f \in [Handle -> {Closed} \cup Descriptions], NEW h \in Handle, f[h] = Closed,
           NEW d \in Descriptions, NEW n
    PROVE  Count(Now(f, h, d), n) = IF n = d.node THEN Count(f, n) + 1 ELSE Count(f, n)
<1>1. d # Closed
  BY NotClosed
<1> DEFINE g == Now(f, h, d)
<1>2. g[h] = d /\ \A i \in Handle : i # h => g[i] = f[i]
  BY DEF Now
<1> HIDE DEF g
<1>3. h \notin On(f, n) /\ IsFiniteSet(On(f, n))
  BY CountIs DEF On
<1>4. CASE n = d.node
  <2>1. On(g, n) = On(f, n) \cup {h}
    BY <1>1, <1>2, <1>4 DEF On
  <2>2. Cardinality(On(g, n)) = Cardinality(On(f, n)) + 1
    BY <1>3, <2>1, FS_AddElement
  <2> QED
    BY <1>4, <2>2, CountIs DEF g
<1>5. CASE n # d.node
  <2>1. On(g, n) = On(f, n)
    BY <1>2, <1>5 DEF On
  <2> QED
    BY <1>5, <2>1, CountIs DEF g
<1> QED
  BY <1>4, <1>5

LEMMA CountClosed ==
    ASSUME Sized, NEW f \in [Handle -> {Closed} \cup Descriptions], NEW h \in Handle, f[h] # Closed, NEW n
    PROVE  Count(Now(f, h, Closed), n) = IF n = f[h].node THEN Count(f, n) - 1 ELSE Count(f, n)
<1> DEFINE g == Now(f, h, Closed)
<1>2. g[h] = Closed /\ \A i \in Handle : i # h => g[i] = f[i]
  BY DEF Now
<1> HIDE DEF g
<1>3. IsFiniteSet(On(f, n))
  BY CountIs
<1>4. CASE n = f[h].node
  <2>1. On(g, n) = On(f, n) \ {h} /\ h \in On(f, n)
    BY <1>2, <1>4 DEF On
  <2>2. Cardinality(On(g, n)) = Cardinality(On(f, n)) - 1
    BY <1>3, <2>1, FS_RemoveElement
  <2> QED
    BY <1>4, <2>2, CountIs DEF g
<1>5. CASE n # f[h].node
  <2>1. On(g, n) = On(f, n)
    BY <1>2, <1>5 DEF On
  <2> QED
    BY <1>5, <2>1, CountIs DEF g
<1> QED
  BY <1>4, <1>5

\* A descriptor stays on its node.
LEMMA CountMoved ==
    ASSUME Sized, NEW f \in [Handle -> {Closed} \cup Descriptions], NEW h \in Handle, f[h] # Closed,
           NEW d \in Descriptions, d.node = f[h].node, NEW n
    PROVE  Count(Now(f, h, d), n) = Count(f, n)
<1>1. d # Closed
  BY NotClosed
<1>2. On(Now(f, h, d), n) = On(f, n)
  BY <1>1 DEF On, Now
<1> QED
  BY <1>2, CountIs

LEMMA DescribedNow ==
    ASSUME Sized, NEW t, NEW f, Described(t, f), NEW h \in Handle, NEW d \in {Closed} \cup Descriptions,
           d # Closed => d.node \in Used(t) /\ (d.mode # "read" => t[d.node].kind = "file")
    PROVE  Described(t, Now(f, h, d))
  BY DEF Described, Now

\* Descriptors do not notice a change of what is in a node.
LEMMA DescribedSame ==
    ASSUME NEW t, NEW u, NEW f, Described(t, f), Used(t) \subseteq Used(u), \A n \in Used(t) : u[n].kind = t[n].kind
    PROVE  Described(u, f)
  BY DEF Described

\* Every file keeps its map, and does not get shorter, or has none.
LEMMA StoredKeeps ==
    ASSUME Unit \in Nat \ {0}, Sized, NEW t, Shaped(t), Stored(t), NEW u, DOMAIN u = Slots,
           \A n \in Slots : \/ u[n].extents = <<>>
                            \/ u[n].extents = t[n].extents /\ u[n].size \in Nat /\ t[n].size <= u[n].size
    PROVE  Stored(u)
<1> DEFINE h == [n \in Slots |-> n]
<1>1. t \in [Slots -> Node] /\ limits.size \in Nat
  BY DEF Shaped, Sized
<1>2. \A n \in Slots : t[n].size \in Nat
  BY <1>1 DEF Node
<1>3. \A n \in Slots : h[n] = n
  OBVIOUS
<1>4. \A n, m \in Slots : h[n] = h[m] => n = m
  BY <1>3
<1> HIDE DEF h
<1>5. \A n \in DOMAIN u : \/ u[n].extents = <<>>
                          \/ /\ h[n] \in DOMAIN t /\ u[n].extents = t[h[n]].extents
                             /\ t[h[n]].size \in Nat /\ u[n].size \in Nat /\ t[h[n]].size <= u[n].size
  BY <1>1, <1>2, <1>3
<1> QED
  BY <1>4, <1>5, StoredAs

\* A node keeps its place, and its map unless it loses it.
LEMMA Attributes ==
    ASSUME FilesInv, NEW n \in Used(nodes), NEW e \in Node,
           e.kind = nodes[n].kind, e.parent = nodes[n].parent, e.name = nodes[n].name,
           e.kind = "dir" => e.size = 0 /\ e.extents = <<>>
    PROVE  /\ Shaped(Put(nodes, n, e)) /\ Used(Put(nodes, n, e)) = Used(nodes)
           /\ \A m \in Used(nodes) : Put(nodes, n, e)[m].kind = nodes[m].kind
           /\ \A m \in Slots : Put(nodes, n, e)[m] = IF m = n THEN e ELSE nodes[m]
           /\ e.extents = <<>> \/ (e.extents = nodes[n].extents /\ nodes[n].size <= e.size) => Stored(Put(nodes, n, e))
<1> DEFINE u == Put(nodes, n, e)
<1>1. Sized /\ Unit \in Nat \ {0} /\ limits.size \in Nat /\ Shaped(nodes) /\ Stored(nodes) /\ n \in Slots
  BY Sizes DEF FilesInv, Used
<1>2. nodes \in [Slots -> Node]
  BY <1>1 DEF Shaped
<1>3. u \in [Slots -> Node] /\ \A m \in Slots : u[m] = IF m = n THEN e ELSE nodes[m]
  BY <1>1, <1>2 DEF Put
<1> HIDE DEF u
<1>4. \A m \in Slots : u[m].kind = nodes[m].kind /\ u[m].parent = nodes[m].parent /\ u[m].name = nodes[m].name
  BY <1>3
<1>5. \A m \in Slots \ Used(nodes) : u[m] = nodes[m]
  BY <1>3
<1>6. \A m \in Used(nodes) : nodes[m].kind = "dir" => u[m].size = 0 /\ u[m].extents = <<>>
  BY <1>1, <1>3 DEF Shaped, Used
<1>7. Shaped(u) /\ Used(u) = Used(nodes)
  BY <1>1, <1>3, <1>4, <1>5, <1>6, Altered
<1>8. ASSUME e.extents = <<>> \/ (e.extents = nodes[n].extents /\ nodes[n].size <= e.size) PROVE Stored(u)
  <2>1. \A m \in Slots : nodes[m].size \in Nat /\ nodes[m].size <= nodes[m].size
    BY <1>1, <1>2 DEF Node
  <2>2. e.size \in Nat
    BY <1>1 DEF Node
  <2>3. \A m \in Slots : \/ u[m].extents = <<>>
                         \/ u[m].extents = nodes[m].extents /\ u[m].size \in Nat /\ nodes[m].size <= u[m].size
    BY <1>3, <1>8, <2>1, <2>2
  <2>4. DOMAIN u = Slots
    BY <1>3
  <2> QED
    BY <1>1, <2>3, <2>4, StoredKeeps
<1>9. \A m \in Used(nodes) : u[m].kind = nodes[m].kind
  BY <1>4 DEF Used
<1> QED
  BY <1>3, <1>7, <1>8, <1>9 DEF u

\* A node is opened, and perhaps emptied.
LEMMA Opens ==
    ASSUME FilesInv, NEW h \in Handle, fd[h] = Closed, NEW n \in Used(nodes), NEW d \in Descriptions, d.node = n,
           d.mode # "read" => nodes[n].kind = "file",
           NEW e, e = [nodes[n] EXCEPT !.refs = @ + 1] \/ (nodes[n].kind = "file"
                  /\ e = [nodes[n] EXCEPT !.extents = <<>>, !.data = <<>>, !.size = 0, !.refs = @ + 1]),
           nodes' = Put(nodes, n, e), fd' = Now(fd, h, d), UNCHANGED <<machine, cwd, hint, pins, roots>>
    PROVE  FilesInv'
<1>1. /\ Sized /\ limits.size \in Nat /\ Shaped(nodes) /\ Stored(nodes) /\ Described(nodes, fd) /\ Counted(nodes, fd)
      /\ Stands(nodes, cwd) /\ n \in Slots /\ nodes \in [Slots -> Node]
  BY Sizes DEF FilesInv, Used, Shaped
<1>2. fd \in [Handle -> {Closed} \cup Descriptions]
  BY <1>1 DEF Described
<1>3. \A m : Count(fd', m) = IF m = n THEN Count(fd, m) + 1 ELSE Count(fd, m)
  BY <1>1, <1>2, CountOpened
<1>4. nodes[n].refs + 1 = Count(fd', n) /\ Count(fd', n) \in 0 .. Cardinality(Handle)
  BY <1>1, <1>3, CountIs DEF Counted
<1>5. /\ nodes[n] \in Node /\ nodes[n].refs + 1 \in 0 .. Cardinality(Handle)
      /\ nodes[n].kind = "dir" => nodes[n].size = 0 /\ nodes[n].extents = <<>>
  BY <1>1, <1>4 DEF Shaped
<1>6. /\ e \in Node /\ e.kind = nodes[n].kind /\ e.parent = nodes[n].parent /\ e.name = nodes[n].name
      /\ e.refs = nodes[n].refs + 1 /\ (e.kind = "dir" => e.size = 0 /\ e.extents = <<>>)
      /\ e.extents = <<>> \/ (e.extents = nodes[n].extents /\ nodes[n].size <= e.size)
  <2>1. 0 \in 0 .. limits.size /\ <<>> \in Seq(Extent) /\ <<>> \in Seq(Value \cup {0}) /\ nodes[n].size \in Nat
    BY <1>1, <1>5 DEF Node
  <2>2. CASE e = [nodes[n] EXCEPT !.refs = @ + 1]
    BY <1>5, <2>1, <2>2 DEF Node
  <2>3. CASE nodes[n].kind = "file"
             /\ e = [nodes[n] EXCEPT !.extents = <<>>, !.data = <<>>, !.size = 0, !.refs = @ + 1]
    BY <1>5, <2>1, <2>3 DEF Node
  <2> QED
    BY <2>2, <2>3
<1>7. /\ Shaped(nodes') /\ Used(nodes') = Used(nodes) /\ Stored(nodes')
      /\ \A m \in Used(nodes) : nodes'[m].kind = nodes[m].kind
      /\ \A m \in Slots : nodes'[m] = IF m = n THEN e ELSE nodes[m]
  BY <1>6, Attributes
<1>8. Described(nodes', fd')
  <2>1. Described(nodes, fd')
    BY <1>1, DescribedNow
  <2> QED
    BY <1>7, <2>1, DescribedSame
<1>9. Counted(nodes', fd')
  BY <1>1, <1>3, <1>6, <1>7 DEF Counted
<1>10. Stands(nodes', cwd') /\ hint' \in 0 .. limits.end /\ Pinned(pins') /\ Rooted(roots')
  BY <1>1, <1>7 DEF Stands, FilesInv
<1> QED
  BY <1>7, <1>8, <1>9, <1>10, Again

\* A descriptor that is open, on its node; the table may change in it.
LEMMA Holder ==
    ASSUME FilesInv, NEW h \in Handle, fd[h] # Closed
    PROVE  /\ fd[h] \in Descriptions /\ fd[h].node \in Used(nodes) /\ fd[h].node \in Slots /\ nodes[fd[h].node] \in Node
           /\ fd[h].mode # "read" => nodes[fd[h].node].kind = "file"
  BY Sizes DEF FilesInv, Described, Shaped, Used

\* What a descriptor is on changes, and where in it the descriptor stands.
LEMMA Shifts ==
    ASSUME FilesInv, NEW h \in Handle, fd[h] # Closed, NEW at \in 0 .. limits.size, fd' = [fd EXCEPT ![h].offset = at],
           Shaped(nodes'), Stored(nodes'), Used(nodes') = Used(nodes),
           \A n \in Used(nodes) : nodes'[n].kind = nodes[n].kind, \A n \in Slots : nodes'[n].refs = nodes[n].refs,
           UNCHANGED <<machine, cwd, pins, roots>>, hint' \in 0 .. limits.end
    PROVE  FilesInv'
<1> DEFINE d == [fd[h] EXCEPT !.offset = at]
<1>1. /\ Sized /\ Described(nodes, fd) /\ Counted(nodes, fd) /\ Stands(nodes, cwd)
      /\ fd \in [Handle -> {Closed} \cup Descriptions]
  BY Sizes DEF FilesInv, Described
<1>2. fd[h] \in Descriptions /\ fd[h].node \in Used(nodes) /\ (fd[h].mode # "read" => nodes[fd[h].node].kind = "file")
  BY Holder
<1>3. d \in Descriptions /\ d.node = fd[h].node /\ d.mode = fd[h].mode
  BY <1>2 DEF Descriptions
<1>4. fd' = Now(fd, h, d)
  BY <1>1 DEF Now
<1> HIDE DEF d
<1>5. Described(nodes', fd')
  <2>1. Described(nodes, fd')
    <3>1. d.node \in Used(nodes) /\ (d.mode # "read" => nodes[d.node].kind = "file") /\ d \in {Closed} \cup Descriptions
      BY <1>2, <1>3
    <3>2. Described(nodes, Now(fd, h, d))
      BY <1>1, <3>1, DescribedNow
    <3> QED
      BY <1>4, <3>2
  <2> QED
    BY <2>1, DescribedSame
<1>6. Counted(nodes', fd')
  <2>1. \A n : Count(fd', n) = Count(fd, n)
    <3>1. \A n : Count(Now(fd, h, d), n) = Count(fd, n)
      BY <1>1, <1>2, <1>3, CountMoved
    <3> QED
      BY <1>4, <3>1
  <2> QED
    BY <1>1, <2>1 DEF Counted
<1>7. Stands(nodes', cwd') /\ Pinned(pins') /\ Rooted(roots')
  BY <1>1 DEF Stands, FilesInv
<1> QED
  BY <1>5, <1>6, <1>7, Again

LEMMA DescriptorIs ==
    ASSUME Sized, NEW n \in Slots, NEW mode \in Mode, NEW size \in 0 .. limits.size
    PROVE  Descriptor(n, mode, size) \in Descriptions /\ Descriptor(n, mode, size).node = n
           /\ Descriptor(n, mode, size).mode = mode
  BY DEF Descriptor, Descriptions, Sized

LEMMA OpenStep ==
    ASSUME FilesInv, NEW h \in Handle, NEW n \in Slots, NEW mode \in Mode, NEW trunc \in BOOLEAN, Open(h, n, mode, trunc)
    PROVE  FilesInv'
<1> DEFINE t == IF trunc THEN [nodes EXCEPT ![n].extents = <<>>, ![n].data = <<>>, ![n].size = 0] ELSE nodes
           e == IF trunc THEN [nodes[n] EXCEPT !.extents = <<>>, !.data = <<>>, !.size = 0, !.refs = @ + 1]
                ELSE [nodes[n] EXCEPT !.refs = @ + 1]
           d == Descriptor(n, mode, t[n].size)
<1>1. Sized /\ limits.size \in Nat /\ nodes \in [Slots -> Node] /\ fd \in [Handle -> {Closed} \cup Descriptions]
  BY Sizes DEF FilesInv, Shaped, Described
<1>2. /\ fd[h] = Closed /\ n \in Used(nodes) /\ nodes[n].kind = "file"
      /\ nodes' = Opened(t, n) /\ fd' = [fd EXCEPT ![h] = d]
      /\ UNCHANGED <<machine, cwd, hint, pins, roots>>
  BY DEF Open, volume, medium
<1>3. nodes' = Put(nodes, n, e)
  <2>1. nodes[n] \in Node
    BY <1>1
  <2>2. CASE trunc
    <3> DEFINE u == [nodes EXCEPT ![n].extents = <<>>, ![n].data = <<>>, ![n].size = 0]
               x == [nodes[n] EXCEPT !.extents = <<>>, !.data = <<>>, !.size = 0]
    <3>1. u = [nodes EXCEPT ![n] = x]
      BY <1>1
    <3>2. u[n] = x /\ DOMAIN u = Slots
      BY <1>1, <3>1
    <3>3. [x EXCEPT !.refs = @ + 1] = e
      BY <2>1, <2>2 DEF Node
    <3>4. nodes' = [u EXCEPT ![n].refs = @ + 1]
      BY <1>2, <2>2 DEF Opened
    <3> HIDE DEF u, x, e
    <3>5. nodes' = [u EXCEPT ![n] = e]
      BY <3>2, <3>3, <3>4
    <3> QED
      BY <1>1, <3>1, <3>5 DEF Put
  <2>3. CASE ~trunc
    BY <1>1, <1>2, <2>3 DEF Opened, Put
  <2> QED
    BY <2>2, <2>3
<1>4. d \in Descriptions /\ d.node = n
  <2>1. t[n].size \in 0 .. limits.size
    <3>1. nodes[n].size \in 0 .. limits.size
      BY <1>1 DEF Node
    <3>2. CASE trunc
      <4>1. t[n].size = 0
        BY <1>1, <3>2 DEF Node
      <4> QED
        BY <1>1, <4>1
    <3>3. CASE ~trunc
      BY <3>1, <3>3
    <3> QED
      BY <3>2, <3>3
  <2> HIDE DEF t
  <2> QED
    BY <1>1, <2>1, DescriptorIs
<1>5. fd' = Now(fd, h, d)
  BY <1>2 DEF Now
<1>6. \/ e = [nodes[n] EXCEPT !.refs = @ + 1]
      \/ e = [nodes[n] EXCEPT !.extents = <<>>, !.data = <<>>, !.size = 0, !.refs = @ + 1]
  OBVIOUS
<1> HIDE DEF d, e, t
<1> QED
  BY <1>2, <1>3, <1>4, <1>5, <1>6, Opens

LEMMA OpenDirectoryStep ==
    ASSUME FilesInv, NEW h \in Handle, NEW n \in Slots, OpenDirectory(h, n) PROVE FilesInv'
<1> DEFINE e == [nodes[n] EXCEPT !.refs = @ + 1]
           d == Descriptor(n, "read", 0)
<1>1. Sized /\ 0 \in 0 .. limits.size /\ nodes \in [Slots -> Node]
  BY Sizes DEF FilesInv, Shaped
<1>2. /\ fd[h] = Closed /\ n \in Used(nodes)
      /\ nodes' = Opened(nodes, n) /\ fd' = [fd EXCEPT ![h] = d]
      /\ UNCHANGED <<machine, cwd, hint, pins, roots>>
  BY DEF OpenDirectory, volume, medium
<1>3. nodes' = Put(nodes, n, e) /\ fd' = Now(fd, h, d)
  BY <1>1, <1>2 DEF Opened, Put, Now
<1>4. d \in Descriptions /\ d.node = n /\ d.mode = "read"
  BY <1>1, DescriptorIs DEF Mode
<1> HIDE DEF d, e
<1>5. e = [nodes[n] EXCEPT !.refs = @ + 1]
  BY DEF e
<1> QED
  BY <1>2, <1>3, <1>4, <1>5, Opens

LEMMA CloseStep ==
    ASSUME FilesInv, NEW h \in Handle, Close(h) PROVE FilesInv'
<1> DEFINE n == fd[h].node
           e == [nodes[n] EXCEPT !.refs = @ - 1]
<1>1. /\ Sized /\ Stands(nodes, cwd) /\ Counted(nodes, fd) /\ Described(nodes, fd)
      /\ nodes \in [Slots -> Node] /\ fd \in [Handle -> {Closed} \cup Descriptions] /\ Shaped(nodes)
  BY Sizes DEF FilesInv, Shaped, Described
<1>2. /\ fd[h] # Closed /\ nodes' = [nodes EXCEPT ![n].refs = @ - 1] /\ fd' = [fd EXCEPT ![h] = Closed]
      /\ UNCHANGED <<machine, cwd, hint, pins, roots>>
  BY DEF Close, volume, medium
<1>3. n \in Used(nodes) /\ n \in Slots /\ nodes[n] \in Node
  BY <1>2, Holder
<1>4. nodes' = Put(nodes, n, e) /\ fd' = Now(fd, h, Closed)
  BY <1>1, <1>2, <1>3 DEF Put, Now
<1> HIDE DEF n, e
<1>5. \A m : Count(fd', m) = IF m = n THEN Count(fd, m) - 1 ELSE Count(fd, m)
  <2>1. \A m : Count(Now(fd, h, Closed), m) = IF m = n THEN Count(fd, m) - 1 ELSE Count(fd, m)
    BY <1>1, <1>2, CountClosed DEF n
  <2> QED
    BY <1>4, <2>1
<1>6. nodes[n].refs - 1 = Count(fd', n) /\ Count(fd', n) \in 0 .. Cardinality(Handle)
  BY <1>1, <1>3, <1>5, CountIs DEF Counted
<1>7. /\ e \in Node /\ e.kind = nodes[n].kind /\ e.parent = nodes[n].parent /\ e.name = nodes[n].name
      /\ e.refs = nodes[n].refs - 1 /\ (e.kind = "dir" => e.size = 0 /\ e.extents = <<>>)
      /\ e.extents = nodes[n].extents /\ nodes[n].size <= e.size
  <2>1. /\ nodes[n].refs - 1 \in 0 .. Cardinality(Handle) /\ nodes[n].size \in Nat
        /\ nodes[n].kind = "dir" => nodes[n].size = 0 /\ nodes[n].extents = <<>>
    BY <1>1, <1>3, <1>6, NodeIs
  <2> QED
    BY <1>3, <2>1 DEF e, Node
<1>8. /\ Shaped(nodes') /\ Used(nodes') = Used(nodes) /\ Stored(nodes')
      /\ \A m \in Used(nodes) : nodes'[m].kind = nodes[m].kind
      /\ \A m \in Slots : nodes'[m] = IF m = n THEN e ELSE nodes[m]
  BY <1>3, <1>4, <1>7, Attributes
<1>9. Described(nodes', fd')
  <2>1. Described(nodes, Now(fd, h, Closed))
    BY <1>1, DescribedNow
  <2> QED
    BY <1>4, <1>8, <2>1, DescribedSame
<1>10. Counted(nodes', fd')
  BY <1>1, <1>5, <1>7, <1>8 DEF Counted
<1>11. Stands(nodes', cwd') /\ hint' \in 0 .. limits.end /\ Pinned(pins') /\ Rooted(roots')
  BY <1>1, <1>2, <1>8 DEF Stands, FilesInv
<1> QED
  BY <1>2, <1>8, <1>9, <1>10, <1>11, Again

LEMMA SeekStep ==
    ASSUME FilesInv, NEW h \in Handle, NEW at \in 0 .. limits.size, Seek(h, at) PROVE FilesInv'
<1>1. /\ fd[h] # Closed /\ fd' = [fd EXCEPT ![h].offset = at]
      /\ UNCHANGED <<machine, nodes, cwd, hint, pins, roots>>
  BY DEF Seek, volume, medium
<1>2. Shaped(nodes) /\ Stored(nodes) /\ hint \in 0 .. limits.end
  BY DEF FilesInv
<1> QED
  BY <1>1, <1>2, Shifts

LEMMA ReadStep ==
    ASSUME FilesInv, NEW h \in Handle, NEW length \in 1 .. limits.size, Read(h, length) PROVE FilesInv'
<1> DEFINE left == nodes[fd[h].node].size - fd[h].offset
           at == fd[h].offset + (IF length < left THEN length ELSE left)
<1>1. /\ fd[h] # Closed /\ left > 0 /\ fd' = [fd EXCEPT ![h].offset = @ + (IF length < left THEN length ELSE left)]
      /\ UNCHANGED <<machine, nodes, cwd, hint, pins, roots>>
  BY DEF Read, volume, medium
<1>2. /\ Shaped(nodes) /\ Stored(nodes) /\ hint \in 0 .. limits.end /\ limits.size \in Nat
      /\ fd \in [Handle -> {Closed} \cup Descriptions]
  BY Sizes DEF FilesInv, Described
<1>3. fd[h].offset \in 0 .. limits.size /\ nodes[fd[h].node].size \in 0 .. limits.size
  BY <1>1, Holder DEF Descriptions, Node
<1>4. at \in 0 .. limits.size
  <2> DEFINE o == fd[h].offset
             s == nodes[fd[h].node].size
  <2>1. o \in 0 .. limits.size /\ s \in 0 .. limits.size /\ s - o > 0 /\ at = o + (IF length < s - o THEN length ELSE s - o)
    BY <1>1, <1>3
  <2> HIDE DEF o, s, at
  <2> QED
    BY <1>2, <2>1
<1>5. fd' = [fd EXCEPT ![h].offset = at]
  BY <1>1, <1>2
<1> HIDE DEF at
<1> QED
  BY <1>1, <1>2, <1>4, <1>5, Shifts

LEMMA WriteAtIs ==
    ASSUME FilesInv, NEW h \in Handle, NEW length \in 1 .. limits.size, MayWrite(h, length)
    PROVE  /\ fd[h] # Closed /\ nodes[fd[h].node].kind = "file" /\ WriteAt(h) \in Nat
           /\ WriteAt(h) + length \in 0 .. limits.size
           /\ Longer(nodes[fd[h].node].size, WriteAt(h) + length) \in 0 .. limits.size
           /\ nodes[fd[h].node].size <= Longer(nodes[fd[h].node].size, WriteAt(h) + length)
           /\ WriteAt(h) + length <= Longer(nodes[fd[h].node].size, WriteAt(h) + length)
<1>1. fd[h] # Closed /\ fd[h].mode # "read" /\ WriteAt(h) + length <= limits.size /\ limits.size \in Nat
  BY Sizes DEF MayWrite
<1>2. fd[h] \in Descriptions /\ nodes[fd[h].node] \in Node /\ nodes[fd[h].node].kind = "file"
  BY <1>1, Holder
<1>3. fd[h].offset \in 0 .. limits.size /\ nodes[fd[h].node].size \in 0 .. limits.size
  BY <1>2 DEF Descriptions, Node
<1> DEFINE s == nodes[fd[h].node].size
           at == WriteAt(h)
<1>4. at \in Nat /\ s \in 0 .. limits.size /\ at + length <= limits.size
  BY <1>1, <1>3 DEF WriteAt
<1> HIDE DEF at, s
<1>5. at + length \in 0 .. limits.size /\ Longer(s, at + length) \in 0 .. limits.size
      /\ s <= Longer(s, at + length) /\ at + length <= Longer(s, at + length)
  BY <1>1, <1>4 DEF Longer
<1> QED
  BY <1>1, <1>2, <1>4, <1>5 DEF at, s

LEMMA WriteMemoryStep ==
    ASSUME FilesInv, NEW h \in Handle, NEW length \in 1 .. limits.size, NEW v \in Value, WriteMemory(h, length, v)
    PROVE  FilesInv'
<1> DEFINE n == fd[h].node
           at == WriteAt(h)
           size == Longer(nodes[n].size, at + length)
           data == [i \in 1 .. size |-> IF i \in at + 1 .. at + length THEN v
                                        ELSE IF i \in DOMAIN nodes[n].data THEN nodes[n].data[i] ELSE 0]
           e == [nodes[n] EXCEPT !.size = size, !.data = data]
<1>1. /\ MayWrite(h, length) /\ nodes' = [nodes EXCEPT ![n].size = size, ![n].data = data]
      /\ fd' = [fd EXCEPT ![h].offset = at + length] /\ UNCHANGED <<machine, cwd, hint, pins, roots>>
  BY DEF WriteMemory, volume, medium
<1>2. /\ fd[h] # Closed /\ nodes[n].kind = "file" /\ at \in Nat /\ at + length \in 0 .. limits.size
      /\ size \in 0 .. limits.size /\ nodes[n].size <= size
  BY <1>1, WriteAtIs
<1>3. nodes \in [Slots -> Node] /\ limits.size \in Nat /\ hint \in 0 .. limits.end
  BY Sizes DEF FilesInv, Shaped
<1>4. n \in Used(nodes) /\ n \in Slots /\ nodes[n] \in Node
  BY <1>2, Holder
<1>5. data \in Seq(Value \cup {0})
  <2>1. size \in Nat
    BY <1>2, <1>3
  <2>2. nodes[n].data \in Seq(Value \cup {0})
    BY <1>4 DEF Node
  <2>3. \A i \in DOMAIN nodes[n].data : nodes[n].data[i] \in Value \cup {0}
    BY <2>2
  <2>4. data \in [1 .. size -> Value \cup {0}]
    <3> HIDE DEF n, at, size
    <3> QED
      BY <2>3
  <2> HIDE DEF data, size
  <2> QED
    BY <2>1, <2>4
<1> HIDE DEF n, at, size, data
<1>6. nodes' = Put(nodes, n, e)
  BY <1>1, <1>3, <1>4 DEF Put
<1>7. /\ e \in Node /\ e.kind = nodes[n].kind /\ e.parent = nodes[n].parent /\ e.name = nodes[n].name
      /\ e.extents = nodes[n].extents /\ e.refs = nodes[n].refs /\ e.size = size
  BY <1>2, <1>4, <1>5 DEF Node
<1> HIDE DEF e
<1>8. /\ Shaped(nodes') /\ Used(nodes') = Used(nodes) /\ Stored(nodes')
      /\ \A m \in Used(nodes) : nodes'[m].kind = nodes[m].kind
      /\ \A m \in Slots : nodes'[m] = IF m = n THEN e ELSE nodes[m]
  <2>1. (e.kind = "dir" => e.size = 0 /\ e.extents = <<>>) /\ nodes[n].size <= e.size
    BY <1>2, <1>7
  <2> QED
    BY <1>4, <1>6, <1>7, <2>1, Attributes
<1>9. \A m \in Slots : nodes'[m].refs = nodes[m].refs
  BY <1>7, <1>8
<1> QED
  BY <1>1, <1>2, <1>3, <1>8, <1>9, Shifts

\* What may not be overwritten lies in the volume.
LEMMA TakenIn ==
    ASSUME FilesInv PROVE Bounded(Taken)
<1>1. /\ Sized /\ Unit \in Nat \ {0} /\ limits.end \in Nat /\ limits.size \in Nat /\ Shaped(nodes) /\ Stored(nodes)
      /\ Pinned(pins) /\ nodes \in [Slots -> Node]
  BY Sizes DEF FilesInv, Shaped
<1> SUFFICES ASSUME NEW e \in Taken PROVE e \in Extent /\ e.physical + e.blocks <= limits.end
  BY DEF Bounded
<1>2. CASE e \in pins[0] \cup pins[1]
  BY <1>1, <1>2 DEF Pinned, Bounded
<1>3. CASE e \in UNION {ToSet(nodes[n].extents) : n \in Slots}
  <2>1. PICK n \in Slots : e \in ToSet(nodes[n].extents)
    BY <1>3
  <2>2. PICK i \in DOMAIN nodes[n].extents : e = nodes[n].extents[i]
    BY <2>1 DEF ToSet
  <2>3. nodes[n].extents \in Seq(Extent) /\ nodes[n].size \in Nat /\ n \in DOMAIN nodes
    BY <1>1 DEF Node
  <2> QED
    BY <1>1, <2>2, <2>3, StoredIn
<1> QED
  BY <1>2, <1>3 DEF Taken

\* No file has a block of a run that is free.
LEMMA FreeIsNobodys ==
    ASSUME FilesInv, NEW at \in Nat, NEW length \in Nat, NoneTaken(at, length), NEW m \in Slots, NEW l \in Nat, NEW p \in Nat,
           Owns(nodes[m].extents, l, p)
    PROVE  ~(at <= p /\ p < at + length)
<1>1. PICK i \in DOMAIN nodes[m].extents : Has(nodes[m].extents[i], l, p)
  BY DEF Owns
<1> DEFINE e == nodes[m].extents[i]
<1>2. e \in Taken
  BY DEF Taken, ToSet
<1>3. e \in Extent
  BY <1>2, TakenIn DEF Bounded
<1>4. ~Meets(e, at, length)
  BY <1>2 DEF NoneTaken
<1> HIDE DEF e
<1>5. Has(e, l, p)
  BY <1>1 DEF e
<1>6. e.logical \in Nat /\ e.physical \in Nat /\ e.blocks \in Nat
  BY <1>3 DEF Extent
<1> QED
  BY <1>4, <1>5, <1>6 DEF Meets, Has, End

LEMMA WriteExtentsStep ==
    ASSUME FilesInv, NEW h \in Handle, NEW length \in 1 .. limits.size, NEW v \in Value, NEW taken,
           WriteExtents(h, length, v, taken)
    PROVE  FilesInv'
<1> DEFINE n == fd[h].node
           at == WriteAt(h)
           first == at \div Unit
           end == Blocks(at + length)
           where == Allocate(end - first)
           cells == (end - first) * Unit
           size == Longer(nodes[n].size, at + length)
           map == Remapped(nodes[n].extents, first, end, where)
           e == [nodes[n] EXCEPT !.size = size, !.extents = map]
<1>1. /\ MayWrite(h, length) /\ where # NoSpace /\ hint' = where + end - first
      /\ \/ /\ nodes' = [nodes EXCEPT ![n].size = size, ![n].extents = map]
            /\ fd' = [fd EXCEPT ![h].offset = at + length]
         \/ UNCHANGED <<nodes, fd>>
      /\ UNCHANGED <<machine, cwd, pins, roots>>
  BY DEF WriteExtents
<1>2. /\ fd[h] # Closed /\ nodes[n].kind = "file" /\ at \in Nat /\ at + length \in 0 .. limits.size
      /\ size \in 0 .. limits.size /\ nodes[n].size <= size /\ at + length <= size
  BY <1>1, WriteAtIs
<1>3. /\ nodes \in [Slots -> Node] /\ limits.size \in Nat /\ limits.end \in Nat /\ Unit \in Nat \ {0} /\ Sized
      /\ hint \in 0 .. limits.end /\ Shaped(nodes) /\ Stored(nodes)
  BY Sizes DEF FilesInv, Shaped
<1>4. n \in Used(nodes) /\ n \in Slots /\ nodes[n] \in Node
  BY <1>2, Holder
<1>5. first \in Nat /\ first < end
  BY <1>2, <1>3, WriteSpans
<1>6. end \in Nat
  BY <1>2, <1>3, BlocksIs
<1> HIDE DEF n, at, first, end, where, size, map, e
<1>7. end - first \in Nat \ {0}
  BY <1>5, <1>6
<1>8. where \in 0 .. limits.end - (end - first) /\ NoneTaken(where, end - first)
  BY <1>1, <1>3, <1>7, AllocateIs, TakenIn DEF where
<1>9. where \in Nat /\ where + (end - first) <= limits.end /\ hint' \in 0 .. limits.end
  BY <1>1, <1>3, <1>5, <1>6, <1>8
<1>10. CASE UNCHANGED <<nodes, fd>>
  BY <1>1, <1>9, <1>10, Again DEF FilesInv
<1>11. CASE nodes' = [nodes EXCEPT ![n].size = size, ![n].extents = map] /\ fd' = [fd EXCEPT ![h].offset = at + length]
  <2>1. nodes' = Put(nodes, n, e)
    BY <1>3, <1>4, <1>11 DEF Put, e
  <2>2. size \in Nat /\ nodes[n].size \in Nat /\ nodes[n].extents \in Seq(Extent)
    BY <1>2, <1>3, <1>4, NodeIs
  <2>3. end <= Blocks(size)
    BY <1>2, <1>3, <2>2, BlocksGrow DEF end
  <2> DEFINE g == Put(nodes, n, [nodes[n] EXCEPT !.size = size, !.extents = map])
  <2>4. /\ DOMAIN g = Slots /\ g[n].extents = map /\ g[n].size = size
        /\ \A m \in Slots : m # n => g[m] = nodes[m]
    BY <1>3, <1>4 DEF Put, Node
  <2>5. g = nodes'
    BY <2>1 DEF e
  <2> HIDE DEF g
  <2>6. \A m \in DOMAIN nodes, l, p \in Nat : Owns(nodes[m].extents, l, p) => ~(where <= p /\ p < where + (end - first))
    BY <1>3, <1>7, <1>8, <1>9, FreeIsNobodys
  <2>7. Stored(g) /\ map \in Seq(Extent)
    <3>1. g[n].extents = Remapped(nodes[n].extents, first, end, where)
      BY <2>4 DEF map
    <3>2. DOMAIN g = DOMAIN nodes /\ n \in DOMAIN nodes /\ \A m \in DOMAIN nodes : m # n => g[m].extents = nodes[m].extents /\ g[m].size = nodes[m].size
      BY <1>3, <1>4, <2>4
    <3>3. g[n].size \in Nat /\ nodes[n].size <= g[n].size /\ end <= Blocks(g[n].size)
      BY <1>2, <2>2, <2>3, <2>4
    <3>4. Stored(g) /\ g[n].extents \in Seq(Extent)
      BY <1>3, <1>5, <1>6, <1>9, <2>2, <2>6, <3>1, <3>2, <3>3, StoredWrite
    <3> QED
      BY <2>4, <3>4
  <2>8. /\ e \in Node /\ e.kind = nodes[n].kind /\ e.parent = nodes[n].parent /\ e.name = nodes[n].name
        /\ e.refs = nodes[n].refs
    BY <1>2, <1>4, <2>7 DEF Node, e
  <2>9. /\ Shaped(nodes') /\ Used(nodes') = Used(nodes)
        /\ \A m \in Used(nodes) : nodes'[m].kind = nodes[m].kind
        /\ \A m \in Slots : nodes'[m] = IF m = n THEN e ELSE nodes[m]
    <3>1. e.kind = "dir" => e.size = 0 /\ e.extents = <<>>
      BY <1>2, <2>8
    <3> QED
      BY <1>4, <2>1, <2>8, <3>1, Attributes
  <2>10. \A m \in Slots : nodes'[m].refs = nodes[m].refs
    BY <2>8, <2>9
  <2>11. Stored(nodes')
    BY <2>5, <2>7
  <2> QED
    BY <1>1, <1>2, <1>9, <1>11, <2>9, <2>10, <2>11, Shifts
<1> QED
  BY <1>1, <1>10, <1>11

\* Descriptors and the place somebody is in stay when the table changes around them.
LEMMA Rests ==
    ASSUME FilesInv, UNCHANGED <<machine, fd, cwd, hint, pins, roots>>, Shaped(nodes'),
           \A n \in Slots : \/ nodes'[n].extents = <<>>
                            \/ nodes'[n].extents = nodes[n].extents /\ nodes'[n].size = nodes[n].size,
           \A n \in Slots : nodes'[n].refs = nodes[n].refs,
           \A n \in Used(nodes) : (nodes'[n].kind = nodes[n].kind \/ (nodes[n].refs = 0 /\ n # cwd))
    PROVE  FilesInv'
<1>1. /\ Sized /\ Unit \in Nat \ {0} /\ limits.size \in Nat /\ Shaped(nodes) /\ Stored(nodes)
      /\ Described(nodes, fd) /\ Counted(nodes, fd) /\ Stands(nodes, cwd)
  BY Sizes DEF FilesInv
<1>2. DOMAIN nodes' = Slots
  BY DEF Shaped
<1>3. Stored(nodes')
  <2>1. \A n \in Slots : nodes[n].size \in Nat
    BY <1>1 DEF Shaped, Node
  <2>2. \A n \in Slots : \/ nodes'[n].extents = <<>>
                         \/ nodes'[n].extents = nodes[n].extents /\ nodes'[n].size \in Nat /\ nodes[n].size <= nodes'[n].size
    BY <2>1
  <2> QED
    BY <1>1, <1>2, <2>2, StoredKeeps
<1>4. \A n \in Used(nodes) : nodes'[n].kind = nodes[n].kind => n \in Used(nodes')
  BY DEF Used
<1>5. Described(nodes', fd')
  <2>1. ASSUME NEW h \in Handle, fd[h] # Closed
        PROVE  fd[h].node \in Used(nodes') /\ (fd[h].mode # "read" => nodes'[fd[h].node].kind = "file")
    <3>1. fd[h].node \in Used(nodes) /\ fd[h].node \in Slots /\ (fd[h].mode # "read" => nodes[fd[h].node].kind = "file")
      BY <2>1, Holder
    <3>2. nodes[fd[h].node].refs # 0
      <4>1. nodes[fd[h].node].refs = Count(fd, fd[h].node)
        BY <1>1, <3>1 DEF Counted
      <4> QED
        BY <1>1, <2>1, <4>1, NoneOn
    <3>3. nodes'[fd[h].node].kind = nodes[fd[h].node].kind
      BY <3>1, <3>2
    <3> QED
      BY <1>4, <3>1, <3>3
  <2> QED
    BY <1>1, <2>1 DEF Described
<1>6. Counted(nodes', fd')
  BY <1>1 DEF Counted
<1>7. Stands(nodes', cwd')
  BY <1>1, <1>4 DEF Stands
<1>8. hint' \in 0 .. limits.end /\ Pinned(pins') /\ Rooted(roots')
  BY DEF FilesInv
<1> QED
  BY <1>3, <1>5, <1>6, <1>7, <1>8, Again

LEMMA FreeSlotIs ==
    ASSUME Sized, NEW t, Used(t) # Slots PROVE FreeSlot(t) \in Slots \ Used(t)
<1> DEFINE Free == Slots \ Used(t)
<1>1. Free \in SUBSET Nat /\ Free # {}
  BY SlotsAre DEF Used
<1>2. Least(Free) \in Free
  <2> HIDE DEF Free
  <2> QED
    BY <1>1, LeastIs
<1> QED
  BY <1>2 DEF FreeSlot

Born(kind, p, x, refs) == [Fresh(kind, p, x) EXCEPT !.refs = refs]
\* A new node, with so many descriptors on it.
LEMMA BornIs ==
    ASSUME Sized, NEW kind \in {"file", "dir"}, NEW p \in Slots, NEW x \in Name, NEW refs \in 0 .. Cardinality(Handle)
    PROVE  LET e == Born(kind, p, x, refs)
           IN  /\ e \in Node /\ e.kind = kind /\ e.parent = p /\ e.name = x /\ e.refs = refs
               /\ e.extents = <<>> /\ e.size = 0
<1> DEFINE f == Fresh(kind, p, x)
<1>1. p \in Slots \cup {0} /\ x \in NodeName
  BY DEF NodeName
<1>2. /\ f \in Node /\ f.kind = kind /\ f.parent = p /\ f.name = x /\ f.size = 0 /\ f.extents = <<>>
  BY <1>1, FreshIs
<1>3. Born(kind, p, x, refs) = [f EXCEPT !.refs = refs]
  BY DEF Born
<1> HIDE DEF f
<1>4. f \in [kind : {"free", "file", "dir"}, parent : Slots \cup {0}, name : NodeName,
             size : 0 .. limits.size, extents : Seq(Extent), data : Seq(Value \cup {0}),
             refs : 0 .. Cardinality(Handle)]
  BY <1>2 DEF Node
<1> DEFINE R == 0 .. Cardinality(Handle)
<1>5. refs \in R
  OBVIOUS
<1> HIDE DEF R
<1>6. f \in [kind : {"free", "file", "dir"}, parent : Slots \cup {0}, name : NodeName,
             size : 0 .. limits.size, extents : Seq(Extent), data : Seq(Value \cup {0}), refs : R]
  BY <1>4 DEF R
<1>7. [f EXCEPT !.refs = refs] \in [kind : {"free", "file", "dir"}, parent : Slots \cup {0}, name : NodeName,
             size : 0 .. limits.size, extents : Seq(Extent), data : Seq(Value \cup {0}), refs : R]
  BY <1>5, <1>6
<1>8. Born(kind, p, x, refs) \in Node
  BY <1>3, <1>7 DEF Node, R
<1> QED
  BY <1>2, <1>3, <1>4, <1>8

LEMMA NewNode ==
    ASSUME FilesInv, NEW kind \in {"file", "dir"}, NEW p \in Used(nodes), NEW x \in Name, MayCreate(nodes, p, x),
           NEW refs \in 0 .. Cardinality(Handle), NEW n, n = FreeSlot(nodes), NEW e, e = Born(kind, p, x, refs)
    PROVE  /\ n \in Slots \ Used(nodes) /\ nodes[n].refs = 0
           /\ e.kind = kind /\ e.refs = refs /\ e.extents = <<>> /\ e.size = 0
           /\ Shaped(Put(nodes, n, e)) /\ Used(Put(nodes, n, e)) = Used(nodes) \cup {n}
           /\ \A m \in Slots : Put(nodes, n, e)[m] = IF m = n THEN e ELSE nodes[m]
<1>1. Sized /\ Shaped(nodes) /\ nodes \in [Slots -> Node] /\ p \in Slots
  BY Sizes DEF FilesInv, Shaped, Used
<1>2. nodes[p].kind = "dir" /\ Above(nodes, p)[limits.depth] = 0 /\ Child(nodes, p, x) = {} /\ Used(nodes) # Slots
  BY DEF MayCreate
<1>3. n \in Slots \ Used(nodes)
  BY <1>1, <1>2, FreeSlotIs
<1>4. nodes[n].refs = 0
  <2>1. nodes[n] = NoNode
    BY <1>1, <1>3 DEF Shaped
  <2> QED
    BY <1>1, <2>1, NoNodeIs
<1>5. /\ e \in Node /\ e.kind = kind /\ e.parent = p /\ e.name = x /\ e.refs = refs /\ e.extents = <<>> /\ e.size = 0
  BY <1>1, BornIs
<1>6. e.kind # "free" /\ Child(nodes, p, e.name) = {} /\ (e.kind = "dir" => e.size = 0 /\ e.extents = <<>>)
  BY <1>2, <1>5
<1>7. Shaped(Put(nodes, n, e)) /\ Used(Put(nodes, n, e)) = Used(nodes) \cup {n}
  BY <1>1, <1>2, <1>3, <1>5, <1>6, Grown
<1>8. \A m \in Slots : Put(nodes, n, e)[m] = IF m = n THEN e ELSE nodes[m]
  BY <1>1, <1>3 DEF Put
<1> QED
  BY <1>3, <1>4, <1>5, <1>7, <1>8

LEMMA MakeDirectoryStep ==
    ASSUME FilesInv, NEW p \in Slots, NEW x \in Name, MakeDirectory(p, x) PROVE FilesInv'
<1> DEFINE n == FreeSlot(nodes)
           e == Born("dir", p, x, 0)
<1>1. /\ p \in Used(nodes) /\ MayCreate(nodes, p, x) /\ nodes' = [nodes EXCEPT ![n] = Fresh("dir", p, x)]
      /\ UNCHANGED <<machine, fd, cwd, hint, pins, roots>>
  BY DEF MakeDirectory, volume, medium
<1>2. Sized /\ 0 \in 0 .. Cardinality(Handle)
  BY Sizes
<1>3. Fresh("dir", p, x) = e
  <2> DEFINE f == Fresh("dir", p, x)
  <2>1. p \in Slots \cup {0} /\ x \in NodeName
    BY DEF NodeName
  <2>2. f \in Node /\ f.refs = 0
    BY <1>2, <2>1, FreshIs
  <2> HIDE DEF f
  <2>3. f = [f EXCEPT !.refs = 0]
    BY <2>2 DEF Node
  <2> QED
    BY <2>3 DEF f, Born
<1>4. nodes' = Put(nodes, n, e)
  BY <1>1, <1>3 DEF Put
<1>5. /\ n \in Slots \ Used(nodes) /\ nodes[n].refs = 0 /\ e.refs = 0 /\ e.extents = <<>>
      /\ Shaped(nodes') /\ \A m \in Slots : nodes'[m] = IF m = n THEN e ELSE nodes[m]
  <2>1. n = FreeSlot(nodes) /\ e = Born("dir", p, x, 0)
    OBVIOUS
  <2> HIDE DEF n, e
  <2>2. "dir" \in {"file", "dir"} /\ 0 \in 0 .. Cardinality(Handle)
    BY <1>2
  <2>3. /\ n \in Slots \ Used(nodes) /\ nodes[n].refs = 0
        /\ e.kind = "dir" /\ e.refs = 0 /\ e.extents = <<>> /\ e.size = 0
        /\ Shaped(Put(nodes, n, e)) /\ Used(Put(nodes, n, e)) = Used(nodes) \cup {n}
        /\ \A m \in Slots : Put(nodes, n, e)[m] = IF m = n THEN e ELSE nodes[m]
    BY <1>1, <2>1, <2>2, NewNode
  <2> QED
    BY <1>4, <2>3
<1> HIDE DEF n, e
<1>6. \A m \in Slots : \/ nodes'[m].extents = <<>>
                       \/ nodes'[m].extents = nodes[m].extents /\ nodes'[m].size = nodes[m].size
  BY <1>5
<1>7. \A m \in Slots : nodes'[m].refs = nodes[m].refs
  BY <1>5
<1>8. \A m \in Used(nodes) : nodes'[m].kind = nodes[m].kind
  BY <1>5 DEF Used
<1> QED
  BY <1>1, <1>5, <1>6, <1>7, <1>8, Rests

LEMMA OpenNewStep ==
    ASSUME FilesInv, NEW h \in Handle, NEW p \in Slots, NEW x \in Name, NEW mode \in Mode, OpenNew(h, p, x, mode)
    PROVE  FilesInv'
<1> DEFINE n == FreeSlot(nodes)
           f == Fresh("file", p, x)
           e == Born("file", p, x, 1)
           d == Descriptor(n, mode, 0)
<1>1. /\ fd[h] = Closed /\ p \in Used(nodes) /\ MayCreate(nodes, p, x)
      /\ nodes' = Opened([nodes EXCEPT ![n] = f], n) /\ fd' = [fd EXCEPT ![h] = d]
      /\ UNCHANGED <<machine, cwd, hint, pins, roots>>
  BY DEF OpenNew, volume, medium
<1>2. /\ Sized /\ nodes \in [Slots -> Node] /\ fd \in [Handle -> {Closed} \cup Descriptions] /\ 0 \in 0 .. limits.size
      /\ Unit \in Nat \ {0} /\ Shaped(nodes) /\ Stored(nodes) /\ Described(nodes, fd) /\ Counted(nodes, fd)
      /\ Stands(nodes, cwd) /\ Used(nodes) # Slots
  BY <1>1, Sizes DEF FilesInv, Shaped, Described, MayCreate
<1>3. n \in Slots \ Used(nodes)
  BY <1>2, FreeSlotIs
<1>4. d \in Descriptions /\ d.node = n
  BY <1>2, <1>3, DescriptorIs
<1>5. fd' = Now(fd, h, d)
  BY <1>1 DEF Now
<1>6. \A m : Count(Now(fd, h, d), m) = IF m = n THEN Count(fd, m) + 1 ELSE Count(fd, m)
  BY <1>1, <1>2, <1>4, CountOpened
<1>7. Count(fd, n) = 0
  <2>1. nodes[n] = NoNode
    BY <1>2, <1>3 DEF Shaped
  <2>2. nodes[n].refs = 0
    BY <1>2, <2>1, NoNodeIs
  <2> QED
    BY <1>2, <1>3, <2>2 DEF Counted
<1>8. 1 \in 0 .. Cardinality(Handle)
  <2>1. Count(Now(fd, h, d), n) = 1
    BY <1>6, <1>7
  <2> QED
    BY <1>2, <2>1, CountIs
<1>9. f \in Node /\ f.refs = 0
  <2>1. p \in Slots \cup {0} /\ x \in NodeName
    BY DEF NodeName
  <2> QED
    BY <1>2, <2>1, FreshIs
<1>10. nodes' = Put(nodes, n, e)
  <2>0. e = [f EXCEPT !.refs = 1]
    BY DEF Born
  <2> HIDE DEF n, f, e
  <2>1. [f EXCEPT !.refs = @ + 1] = e
    BY <1>9, <2>0 DEF Node
  <2> DEFINE u == [nodes EXCEPT ![n] = f]
  <2>2. u[n] = f /\ nodes' = [u EXCEPT ![n].refs = @ + 1]
    BY <1>1, <1>2, <1>3 DEF Opened
  <2> HIDE DEF u
  <2>3. nodes' = [u EXCEPT ![n] = e]
    BY <2>1, <2>2
  <2> QED
    BY <1>2, <2>3 DEF Put, u
<1>11. /\ e.kind = "file" /\ e.refs = 1 /\ e.extents = <<>> /\ e.size = 0
       /\ Shaped(nodes') /\ Used(nodes') = Used(nodes) \cup {n}
       /\ \A m \in Slots : nodes'[m] = IF m = n THEN e ELSE nodes[m]
  <2>1. n = FreeSlot(nodes) /\ e = Born("file", p, x, 1)
    OBVIOUS
  <2> HIDE DEF n, e
  <2>2. "file" \in {"file", "dir"} /\ 1 \in 0 .. Cardinality(Handle)
    BY <1>8
  <2>3. /\ n \in Slots \ Used(nodes) /\ nodes[n].refs = 0
        /\ e.kind = "file" /\ e.refs = 1 /\ e.extents = <<>> /\ e.size = 0
        /\ Shaped(Put(nodes, n, e)) /\ Used(Put(nodes, n, e)) = Used(nodes) \cup {n}
        /\ \A m \in Slots : Put(nodes, n, e)[m] = IF m = n THEN e ELSE nodes[m]
    BY <1>1, <2>1, <2>2, NewNode
  <2> QED
    BY <1>10, <2>3
<1> HIDE DEF n, e, d, f
<1>12. Described(nodes', fd')
  <2>1. \A m \in Used(nodes) : nodes'[m].kind = nodes[m].kind
    BY <1>3, <1>11 DEF Used
  <2>2. Described(nodes', fd)
    BY <1>2, <1>11, <2>1, DescribedSame
  <2>3. d.node \in Used(nodes') /\ nodes'[d.node].kind = "file"
    BY <1>3, <1>4, <1>11
  <2>4. Described(nodes', Now(fd, h, d))
    BY <1>2, <1>4, <2>2, <2>3, DescribedNow
  <2> QED
    BY <1>5, <2>4
<1>13. Counted(nodes', fd')
  <2>1. \A m \in Slots : nodes'[m].refs = Count(Now(fd, h, d), m)
    BY <1>2, <1>6, <1>7, <1>11 DEF Counted
  <2> QED
    BY <1>5, <2>1 DEF Counted
<1>14. Stored(nodes')
  <2>1. \A m \in Slots : nodes[m].size \in Nat
    <3>1. limits.size \in Nat
      BY Sizes
    <3> QED
      BY <1>2, <3>1 DEF Node
  <2>2. \A m \in Slots : \/ nodes'[m].extents = <<>>
                         \/ nodes'[m].extents = nodes[m].extents /\ nodes'[m].size \in Nat /\ nodes[m].size <= nodes'[m].size
    BY <1>11, <2>1
  <2>3. DOMAIN nodes' = Slots
    BY <1>11 DEF Shaped
  <2> QED
    BY <1>2, <2>2, <2>3, StoredKeeps
<1>15. Stands(nodes', cwd') /\ hint' \in 0 .. limits.end /\ Pinned(pins') /\ Rooted(roots')
  <2>1. cwd \in Slots /\ cwd # n /\ nodes[cwd].kind = "dir"
    BY <1>2, <1>3 DEF Stands, Used
  <2>2. Stands(nodes', cwd')
    BY <1>1, <1>2, <1>11, <2>1 DEF Stands
  <2> QED
    BY <1>1, <2>2 DEF FilesInv
<1> QED
  BY <1>1, <1>11, <1>12, <1>13, <1>14, <1>15, Again

LEMMA ChdirStep ==
    ASSUME FilesInv, NEW n \in Slots, Chdir(n) PROVE FilesInv'
<1>1. /\ n \in Used(nodes) /\ nodes[n].kind = "dir" /\ cwd' = n
      /\ UNCHANGED <<machine, nodes, fd, hint, pins, roots>>
  BY DEF Chdir, volume, medium
<1> QED
  BY <1>1, Again DEF FilesInv, Stands

LEMMA RemoveNodeStep ==
    ASSUME FilesInv, NEW n \in Slots, RemoveNode(n) PROVE FilesInv'
<1>1. /\ n \in Used(nodes) \ Root /\ nodes[n].refs = 0 /\ n # cwd /\ Children(nodes, n) = {}
      /\ nodes' = Put(nodes, n, NoNode) /\ UNCHANGED <<machine, fd, cwd, hint, pins, roots>>
  BY DEF RemoveNode, InUse, Put, volume, medium
<1>2. Sized /\ Shaped(nodes) /\ nodes \in [Slots -> Node]
  BY Sizes DEF FilesInv, Shaped
<1>3. Shaped(nodes')
  BY <1>1, <1>2, Shrunk
<1>4. \A m \in Slots : nodes'[m] = IF m = n THEN NoNode ELSE nodes[m]
  BY <1>1, <1>2 DEF Put
<1>5. NoNode.refs = 0 /\ NoNode.extents = <<>>
  BY <1>2, NoNodeIs
<1>6. \A m \in Used(nodes) : (nodes'[m].kind = nodes[m].kind \/ (nodes[m].refs = 0 /\ m # cwd))
  BY <1>1, <1>4 DEF Used
<1> QED
  BY <1>1, <1>3, <1>4, <1>5, <1>6, Rests

LEMMA PlacedIs ==
    ASSUME Sized, NEW t \in [Slots -> Node], NEW n \in Slots, NEW p \in Slots, NEW x \in Name
    PROVE  /\ \A m \in Slots \ {n} : Placed(t, n, p, x)[m] = t[m]
           /\ Placed(t, n, p, x)[n].parent = p /\ Placed(t, n, p, x)[n].name = x
           /\ Placed(t, n, p, x)[n].kind = t[n].kind /\ Placed(t, n, p, x)[n].size = t[n].size
           /\ Placed(t, n, p, x)[n].extents = t[n].extents /\ Placed(t, n, p, x)[n].refs = t[n].refs
           /\ DOMAIN Placed(t, n, p, x) = Slots
<1> DEFINE v == [t[n] EXCEPT !.parent = p, !.name = x]
           u == [t EXCEPT ![n] = v]
<1>1. t[n] \in Node
  OBVIOUS
<1>2. v.parent = p /\ v.name = x /\ v.kind = t[n].kind /\ v.size = t[n].size /\ v.extents = t[n].extents
      /\ v.refs = t[n].refs
  BY <1>1 DEF Node
<1>3. Placed(t, n, p, x) = u
  BY DEF Placed
<1> HIDE DEF v
<1>4. u[n] = v /\ (\A m \in Slots \ {n} : u[m] = t[m]) /\ DOMAIN u = Slots
  OBVIOUS
<1> HIDE DEF u
<1> QED
  BY <1>2, <1>3, <1>4

LEMMA MoveStep ==
    ASSUME FilesInv, NEW n \in Slots, NEW p \in Slots, NEW x \in Name, Move(n, p, x) PROVE FilesInv'
<1>1. /\ n \in Used(nodes) \ Root /\ p \in Used(nodes) /\ nodes[p].kind = "dir" /\ ~Descendant(nodes, p, n)
      /\ Child(nodes, p, x) = {} /\ nodes' = Placed(nodes, n, p, x)
      /\ \A i \in Used(nodes) : Descendant(nodes, i, n) => ~TooLong(Placed(nodes, n, p, x), i)
      /\ UNCHANGED <<machine, fd, cwd, hint, pins, roots>>
  BY DEF Move, Renamed, Placed, volume, medium
<1>2. Sized /\ Shaped(nodes) /\ nodes \in [Slots -> Node]
  BY Sizes DEF FilesInv, Shaped
<1>3. Shaped(nodes')
  <2>1. Shaped(Placed(nodes, n, p, x))
    BY <1>1, <1>2, Moved
  <2> QED
    BY <1>1, <2>1
<1>4. \A m \in Slots : /\ nodes'[m].kind = nodes[m].kind /\ nodes'[m].refs = nodes[m].refs
                       /\ nodes'[m].extents = nodes[m].extents /\ nodes'[m].size = nodes[m].size
  <2> DEFINE u == Placed(nodes, n, p, x)
  <2>1. (\A m \in Slots \ {n} : u[m] = nodes[m]) /\ u[n].kind = nodes[n].kind /\ u[n].refs = nodes[n].refs
        /\ u[n].extents = nodes[n].extents /\ u[n].size = nodes[n].size
    BY <1>2, PlacedIs
  <2> HIDE DEF u
  <2>2. \A m \in Slots : /\ u[m].kind = nodes[m].kind /\ u[m].refs = nodes[m].refs
                         /\ u[m].extents = nodes[m].extents /\ u[m].size = nodes[m].size
    BY <2>1
  <2> QED
    BY <1>1, <2>2 DEF u
<1>5. Used(nodes) \subseteq Slots
  BY DEF Used
<1> QED
  BY <1>1, <1>3, <1>4, <1>5, Rests

\* Nothing is below a file but the file.
LEMMA FileBelow ==
    ASSUME Sized, NEW t, Shaped(t), NEW n \in Used(t), t[n].kind = "file", NEW m \in Used(t), Descendant(t, m, n)
    PROVE  m = n
<1> SUFFICES ASSUME m # n PROVE FALSE
  OBVIOUS
<1>1. PICK k \in 0 .. limits.depth : Above(t, m)[k] = n
  BY DEF Descendant
<1>2. limits.depth \in Nat /\ Above(t, m)[0] = m
  BY AboveSteps DEF Sized
<1> DEFINE j == k - 1
<1>3. j \in 0 .. limits.depth /\ j \in 0 .. limits.depth + 1 /\ j + 1 = k
  BY <1>1, <1>2
<1> HIDE DEF j
<1> DEFINE b == Above(t, m)[j]
<1>4. Up(t, b) = n /\ b \in Used(t) \cup {0}
  BY <1>1, <1>2, <1>3, AboveSteps, WayUsed
<1> HIDE DEF b
<1>5. n # 0 /\ n \in Slots /\ 0 \notin Used(t)
  BY UsedAre
<1>6. b \in Used(t) /\ t[b].parent = n
  BY <1>4, <1>5 DEF Up
<1>7. b \notin Root
  BY <1>5, <1>6 DEF Shaped
<1> QED
  BY <1>6, <1>7 DEF Shaped

\* A file goes into a directory that is not too deep.
LEMMA FileMoved ==
    ASSUME Sized, NEW t, Shaped(t), NEW n \in Used(t), t[n].kind = "file", NEW p \in Used(t), t[p].kind = "dir",
           NEW x \in Name, Child(t, p, x) = {}, Above(t, p)[limits.depth] = 0
    PROVE  Shaped(Placed(t, n, p, x))
<1> DEFINE u == Placed(t, n, p, x)
<1>1. n \notin Root /\ p # n
  BY DEF Shaped
<1>2. ~Descendant(t, p, n)
  BY <1>1, FileBelow
<1>3. n # 0 /\ 0 \notin Used(t) /\ Used(t) \subseteq Slots /\ limits.depth \in Nat /\ t \in [Slots -> Node]
  BY UsedAre DEF Sized, Shaped
<1>4. (\A m \in Slots \ {n} : u[m] = t[m]) /\ u[n].parent = p
  BY <1>3, PlacedIs
<1> HIDE DEF u
<1> DEFINE S == Used(t) \ {n}
<1>5. \A m \in S : u[m].parent = t[m].parent /\ t[m].parent \in S \cup {0}
  <2> SUFFICES ASSUME NEW m \in S PROVE u[m].parent = t[m].parent /\ t[m].parent \in S \cup {0}
    OBVIOUS
  <2>1. u[m] = t[m]
    BY <1>3, <1>4
  <2>2. t[m].parent \in Used(t) \cup {0}
    BY ParentUsed
  <2>3. t[m].parent # n
    <3>1. m \in Root => t[m].parent = 0
      BY DEF Shaped
    <3>2. m \notin Root => t[t[m].parent].kind = "dir"
      BY DEF Shaped
    <3> QED
      BY <1>3, <3>1, <3>2
  <2> QED
    BY <2>1, <2>2, <2>3
<1>6. p \in S /\ 0 \notin S
  BY <1>1, <1>3
<1> HIDE DEF S
<1>7. Above(u, p) = Above(t, p)
  BY <1>3, <1>5, <1>6, AboveSame
<1>8. Above(u, n)[limits.depth + 1] = 0
  <2>1. limits.depth \in 0 .. limits.depth
    BY <1>3
  <2>2. Above(u, n)[limits.depth + 1] = Above(u, u[n].parent)[limits.depth]
    BY <1>3, <2>1, AboveParent
  <2> QED
    BY <1>4, <1>7, <2>2
<1>9. \A m \in Used(t) : Descendant(t, m, n) => ~TooLong(u, m)
  BY <1>8, FileBelow DEF TooLong
<1> QED
  BY <1>1, <1>2, <1>9, Moved DEF u

LEMMA ReplaceStep ==
    ASSUME FilesInv, NEW n \in Slots, NEW p \in Slots, NEW x \in Name, Replace(n, p, x) PROVE FilesInv'
<1> DEFINE C == Child(nodes, p, x)
           w == Placed(nodes, n, p, x)
<1>1. /\ n \in Used(nodes) /\ p \in Used(nodes) /\ nodes[n].kind = "file" /\ nodes[p].kind = "dir"
      /\ n \notin C /\ (\A o \in C : nodes[o].kind = "file" /\ nodes[o].refs = 0)
      /\ Above(nodes, p)[limits.depth] = 0
      /\ nodes' = [i \in Slots |-> IF i \in C THEN NoNode ELSE w[i]]
      /\ UNCHANGED <<machine, fd, cwd, hint, pins, roots>>
  BY DEF Replace, Renamed, Placed, volume, medium
<1>2. Sized /\ Shaped(nodes) /\ nodes \in [Slots -> Node] /\ Stands(nodes, cwd) /\ C \subseteq Used(nodes)
  BY Sizes DEF FilesInv, Shaped, Child
<1>3. NoNode.refs = 0 /\ NoNode.extents = <<>> /\ NoNode.kind = "free"
  BY <1>2, NoNodeIs DEF NoNode
<1>4. /\ \A m \in Slots \ {n} : w[m] = nodes[m]
      /\ w[n].kind = nodes[n].kind /\ w[n].refs = nodes[n].refs
      /\ w[n].extents = nodes[n].extents /\ w[n].size = nodes[n].size
  BY <1>2, PlacedIs
<1>5. p # 0 /\ Used(nodes) \subseteq Slots
  BY <1>1, <1>2, UsedAre
<1>6. \A a, b \in C : a = b
  <2>1. \A a \in C : a \notin Root /\ nodes[a].parent = p /\ nodes[a].name = x
    BY <1>2, <1>5 DEF Shaped, Child
  <2> QED
    BY <1>2, <2>1 DEF Shaped
<1> HIDE DEF w
<1>7. Shaped(nodes')
  <2>1. CASE C = {}
    <3>1. Shaped(w)
      BY <1>1, <1>2, <2>1, FileMoved DEF w
    <3>2. nodes' = w
      <4>1. w = [i \in Slots |-> w[i]]
        BY <3>1 DEF Shaped
      <4>2. nodes' = [i \in Slots |-> w[i]]
        BY <1>1, <2>1
      <4> QED
        BY <4>1, <4>2
    <3> QED
      BY <3>1, <3>2
  <2>2. CASE C # {}
    <3>1. PICK o \in C : TRUE
      BY <2>2
    <3>2. C = {o} /\ o \in Slots /\ o # n /\ o # p /\ nodes[o].kind = "file"
      BY <1>1, <1>2, <1>5, <1>6, <3>1
    <3>3. o \in Used(nodes) \ Root
      BY <1>2, <3>1, <3>2 DEF Shaped
    <3>4. Children(nodes, o) = {}
      <4> SUFFICES ASSUME NEW m \in Used(nodes), nodes[m].parent = o PROVE FALSE
        BY DEF Children
      <4>1. o # 0
        BY <1>2, <3>3, UsedAre
      <4>2. m \notin Root
        BY <1>2, <4>1 DEF Shaped
      <4> QED
        BY <1>2, <3>2, <4>2 DEF Shaped
    <3> HIDE DEF C
    <3> DEFINE t == Put(nodes, o, NoNode)
    <3>5. Shaped(t) /\ Used(t) = Used(nodes) \ {o} /\ \A m \in Used(t) : Above(t, m) = Above(nodes, m)
      BY <1>2, <3>3, <3>4, Shrunk
    <3>6. t \in [Slots -> Node] /\ t[o] = NoNode /\ \A m \in Slots \ {o} : t[m] = nodes[m]
      BY <1>2, <3>2, <3>5 DEF Put, Shaped
    <3> HIDE DEF t
    <3>7. n \in Used(t) /\ p \in Used(t) /\ t[n].kind = "file" /\ t[p].kind = "dir" /\ Above(t, p)[limits.depth] = 0
      BY <1>1, <3>2, <3>5, <3>6
    <3>8. Child(t, p, x) = {}
      <4> SUFFICES ASSUME NEW m \in Used(t), t[m].parent = p, t[m].name = x PROVE FALSE
        BY DEF Child
      <4>1. m \in Used(nodes) /\ m # o /\ t[m] = nodes[m]
        BY <1>5, <3>5, <3>6
      <4>2. m \in C
        BY <4>1 DEF C, Child
      <4> QED
        BY <3>2, <4>1, <4>2
    <3> DEFINE v == Placed(t, n, p, x)
    <3>9. Shaped(v)
      BY <1>2, <3>5, <3>7, <3>8, FileMoved
    <3>10. v = [m \in Slots |-> v[m]]
      BY <3>9 DEF Shaped
    <3>11. \A m \in Slots : v[m] = IF m \in C THEN NoNode ELSE w[m]
      <4>1. v = [t EXCEPT ![n].parent = p, ![n].name = x]
        BY DEF Placed
      <4>2. w = [nodes EXCEPT ![n].parent = p, ![n].name = x]
        BY DEF w, Placed
      <4> HIDE DEF v
      <4>3. \A m \in Slots : v[m] = IF m = n THEN [t[n] EXCEPT !.parent = p, !.name = x] ELSE t[m]
        BY <3>6, <4>1
      <4>4. \A m \in Slots : w[m] = IF m = n THEN [nodes[n] EXCEPT !.parent = p, !.name = x] ELSE nodes[m]
        BY <1>2, <4>2
      <4>5. t[n] = nodes[n]
        BY <3>2, <3>6
      <4> QED
        BY <3>2, <3>6, <4>3, <4>4, <4>5
    <3> HIDE DEF v
    <3>12. nodes' = v
      <4>1. [m \in Slots |-> v[m]] = [m \in Slots |-> IF m \in C THEN NoNode ELSE w[m]]
        BY <3>11
      <4> QED
        BY <1>1, <3>10, <4>1
    <3> QED
      BY <3>9, <3>12
  <2> QED
    BY <2>1, <2>2
<1>8. \A m \in Slots : nodes'[m] = IF m \in C THEN NoNode ELSE w[m]
  BY <1>1
<1>9. \A m \in Slots : nodes'[m].refs = nodes[m].refs
  <2>1. ASSUME NEW m \in C PROVE nodes'[m].refs = nodes[m].refs
    BY <1>1, <1>2, <1>3, <1>5, <1>8
  <2>2. ASSUME NEW m \in Slots \ C PROVE nodes'[m].refs = nodes[m].refs
    BY <1>4, <1>8
  <2> QED
    BY <2>1, <2>2
<1>10. \A m \in Slots : \/ nodes'[m].extents = <<>>
                        \/ nodes'[m].extents = nodes[m].extents /\ nodes'[m].size = nodes[m].size
  <2> HIDE DEF C
  <2> QED
    BY <1>3, <1>4, <1>8
<1>11. \A m \in Used(nodes) : (nodes'[m].kind = nodes[m].kind \/ (nodes[m].refs = 0 /\ m # cwd))
  <2>1. \A m \in C : nodes[m].refs = 0 /\ m # cwd
    BY <1>1, <1>2 DEF Stands
  <2> HIDE DEF C
  <2>2. \A m \in Slots \ C : nodes'[m].kind = nodes[m].kind
    BY <1>4, <1>8
  <2> QED
    BY <1>5, <2>1, <2>2
<1> HIDE DEF C
<1> QED
  BY <1>1, <1>2, <1>7, <1>9, <1>10, <1>11, Rests

-----------------------------------------------------------------------------
(***************************************************************************)
(* Saves and restarts                                                      *)
(***************************************************************************)
\* The table stays, and what is saved of it is good.
LEMMA Saving ==
    ASSUME FilesInv, UNCHANGED <<machine, nodes, fd, cwd, hint>>, Pinned(pins'),
           NEW root \in {Blank, Exported(nodes)}, roots' = [roots EXCEPT ![Spare] = root]
    PROVE  FilesInv'
<1>1. /\ Sized /\ Unit \in Nat \ {0} /\ Shaped(nodes) /\ Stored(nodes) /\ Described(nodes, fd) /\ Counted(nodes, fd)
      /\ Stands(nodes, cwd) /\ hint \in 0 .. limits.end /\ Rooted(roots)
  BY Sizes DEF FilesInv
<1>2. Good(Exported(nodes))
  BY <1>1, ExportedGood
<1>3. DOMAIN roots' = {0, 1} /\ \A s \in {0, 1} : roots'[s] = roots[s] \/ roots'[s] = root
  BY <1>1 DEF Rooted
<1>4. Rooted(roots')
  BY <1>1, <1>2, <1>3 DEF Rooted
<1> QED
  BY <1>1, <1>4, Again

LEMMA SaveStep == ASSUME FilesInv, Save PROVE FilesInv'
<1> DEFINE e == Exported(nodes)
<1>1. /\ roots' = [roots EXCEPT ![Spare] = e] /\ pins' = [pins EXCEPT ![Spare] = PinsOf(e)]
      /\ UNCHANGED <<machine, nodes, fd, cwd, hint>>
  BY DEF Save
<1>2. Sized /\ Unit \in Nat \ {0} /\ Shaped(nodes) /\ Stored(nodes) /\ Pinned(pins)
  BY Sizes DEF FilesInv
<1>3. Bounded(PinsOf(e))
  <2>1. Good(e)
    BY <1>2, ExportedGood
  <2> QED
    BY <1>2, <2>1, GoodPins
<1>4. e \in {Blank, Exported(nodes)}
  OBVIOUS
<1> HIDE DEF e
<1>5. DOMAIN pins' = {0, 1} /\ \A s \in {0, 1} : pins'[s] = pins[s] \/ pins'[s] = PinsOf(e)
  BY <1>1, <1>2 DEF Pinned
<1>6. Pinned(pins')
  BY <1>2, <1>3, <1>5 DEF Pinned
<1> QED
  BY <1>1, <1>4, <1>6, Saving

LEMMA SaveFailsStep == ASSUME FilesInv, SaveFails PROVE FilesInv'
<1>1. roots' = [roots EXCEPT ![Spare] = Blank] /\ UNCHANGED <<machine, nodes, fd, cwd, hint, pins>>
  BY DEF SaveFails, volume
<1>2. Pinned(pins') /\ Blank \in {Blank, Exported(nodes)}
  BY <1>1 DEF FilesInv
<1> QED
  BY <1>1, <1>2, Saving

LEMMA SaveUnsettledStep == ASSUME FilesInv, SaveUnsettled PROVE FilesInv'
<1>1. PICK root \in {Blank, Exported(nodes)} : roots' = [roots EXCEPT ![Spare] = root]
  BY DEF SaveUnsettled
<1>2. UNCHANGED <<machine, nodes, fd, cwd, hint, pins>>
  BY DEF SaveUnsettled
<1>3. Pinned(pins')
  BY <1>2 DEF FilesInv
<1> QED
  BY <1>1, <1>2, <1>3, Saving

LEMMA AllClosed ==
    ASSUME Sized, NEW t, Shaped(t), \A n \in Slots : t[n].refs = 0, NEW f, f = [h \in Handle |-> Closed]
    PROVE  Described(t, f) /\ Counted(t, f) /\ Stands(t, Home)
<1>1. \A n : Count(f, n) = 0
  <2> SUFFICES ASSUME NEW n PROVE Count(f, n) = 0
    OBVIOUS
  <2>1. {h \in Handle : f[h] # Closed /\ f[h].node = n} = {}
    OBVIOUS
  <2> QED
    BY <2>1, FS_EmptySet DEF Count
<1>2. Home \in Root /\ Root \subseteq Used(t)
  BY UsedAre DEF Root
<1>3. f \in [Handle -> {Closed} \cup Descriptions] /\ \A h \in Handle : f[h] = Closed
  OBVIOUS
<1>4. Described(t, f)
  BY <1>3 DEF Described
<1>5. Counted(t, f)
  BY <1>1 DEF Counted
<1>6. Stands(t, Home)
  BY <1>2 DEF Stands, Shaped
<1> QED
  BY <1>4, <1>5, <1>6

LEMMA RestartStep == ASSUME FilesInv, Restart PROVE FilesInv'
<1> DEFINE a == Activated(roots, later)
<1>1. /\ nodes' = MountedTree(roots, later) /\ hint' = 0 /\ fd' = [h \in Handle |-> Closed] /\ cwd' = Home
      /\ pins' = [s \in {0, 1} |-> IF s \in Valid(roots) THEN PinsOf(roots[s]) ELSE {}]
      /\ UNCHANGED <<machine, roots>>
  BY DEF Restart, medium
<1>2. Sized /\ Unit \in Nat \ {0} /\ Rooted(roots) /\ limits.end \in Nat
  BY Sizes DEF FilesInv
<1>3. Valid(roots) \subseteq {0, 1} /\ \A s \in Valid(roots) : Good(roots[s])
  BY <1>2 DEF Valid, Rooted
<1>4. Shaped(nodes') /\ Stored(nodes') /\ \A n \in Slots : nodes'[n].refs = 0
  <2>1. CASE Valid(roots) = {}
    <3>1. nodes' = Empty
      BY <1>1, <2>1 DEF MountedTree
    <3> QED
      BY <1>2, <3>1, EmptyIs, StoredEmpty
  <2>2. CASE Valid(roots) # {}
    <3>1. a \in Valid(roots)
      <4>1. Valid(roots) \in SUBSET Nat
        BY <1>3
      <4>2. Least(Valid(roots)) \in Valid(roots)
        BY <2>2, <4>1, LeastIs
      <4> QED
        BY <2>2, <4>2 DEF Activated
    <3>2. nodes' = Imported(roots[a])
      BY <1>1, <2>2 DEF MountedTree
    <3> HIDE DEF a
    <3>3. Good(roots[a])
      BY <1>3, <3>1
    <3>4. LET t == Imported(roots[a]) IN Shaped(t) /\ Stored(t) /\ \A n \in Slots : t[n].refs = 0
      BY <1>2, <3>3, ImportedIs
    <3> QED
      BY <3>2, <3>4
  <2> QED
    BY <2>1, <2>2
<1>5. Described(nodes', fd') /\ Counted(nodes', fd') /\ Stands(nodes', Home)
  BY <1>1, <1>2, <1>4, AllClosed
<1>6. Pinned(pins')
  <2>1. \A s \in Valid(roots) : Bounded(PinsOf(roots[s]))
    BY <1>2, <1>3, GoodPins
  <2>2. Bounded({})
    BY DEF Bounded
  <2>3. DOMAIN pins' = {0, 1} /\ \A s \in {0, 1} : pins'[s] = IF s \in Valid(roots) THEN PinsOf(roots[s]) ELSE {}
    BY <1>1
  <2> QED
    BY <2>1, <2>2, <2>3 DEF Pinned
<1>7. hint' \in 0 .. limits.end /\ Rooted(roots') /\ Stands(nodes', cwd')
  BY <1>1, <1>2, <1>5
<1> QED
  BY <1>1, <1>4, <1>5, <1>6, <1>7, Again

LEMMA FilesInit == ASSUME Init PROVE FilesInv
<1>1. /\ limits \in Limits /\ disk \in BOOLEAN /\ nodes = Empty /\ fd = [h \in Handle |-> Closed] /\ cwd = Home
      /\ pins = [s \in {0, 1} |-> {}] /\ hint = 0 /\ roots = [s \in {0, 1} |-> Blank]
  BY DEF Init
<1>2. Sized /\ limits.end \in Nat
  BY <1>1, FilesAssumption DEF FilesAssumption, Sized
<1>3. Shaped(nodes) /\ Stored(nodes) /\ \A n \in Slots : nodes[n].refs = 0
  BY <1>1, <1>2, EmptyIs, StoredEmpty
<1>4. Described(nodes, fd) /\ Counted(nodes, fd) /\ Stands(nodes, Home)
  BY <1>1, <1>2, <1>3, AllClosed
<1>5. Pinned(pins) /\ Rooted(roots)
  BY <1>1 DEF Pinned, Rooted, Bounded
<1>6. hint \in 0 .. limits.end
  BY <1>1, <1>2
<1> QED
  BY <1>1, <1>3, <1>4, <1>5, <1>6 DEF FilesInv

LEMMA FilesNext == ASSUME FilesInv, [Next]_vars PROVE FilesInv'
<1>1. CASE Descriptors
  BY <1>1, OpenStep, OpenDirectoryStep, CloseStep, SeekStep, ReadStep DEF Descriptors
<1>2. CASE Writes
  BY <1>2, OpenStep, WriteMemoryStep, WriteExtentsStep DEF Writes
<1>3. CASE Paths
  BY <1>3, OpenNewStep, MakeDirectoryStep, ChdirStep, RemoveNodeStep, MoveStep, ReplaceStep DEF Paths
<1>4. CASE Saves
  BY <1>4, SaveStep, SaveFailsStep, SaveUnsettledStep DEF Saves
<1>5. CASE Restart
  BY <1>5, RestartStep
<1>6. CASE UNCHANGED vars
  BY <1>6, Again DEF vars, volume, medium, FilesInv
<1> QED
  BY <1>1, <1>2, <1>3, <1>4, <1>5, <1>6 DEF Next

LEMMA WiderSeq == ASSUME NEW S, NEW R, S \subseteq R PROVE Seq(S) \subseteq Seq(R)
<1> SUFFICES ASSUME NEW s \in Seq(S) PROVE s \in Seq(R)
  OBVIOUS
<1>1. Len(s) \in Nat /\ s \in [1 .. Len(s) -> S]
  OBVIOUS
<1>2. s \in [1 .. Len(s) -> R]
  BY <1>1
<1> QED
  BY <1>1, <1>2, SeqDef

LEMMA InvTree == ASSUME FilesInv PROVE TreeSound
<1>1. /\ Sized /\ Shaped(nodes) /\ Described(nodes, fd) /\ Counted(nodes, fd) /\ Stands(nodes, cwd)
      /\ hint \in 0 .. limits.end /\ limits.depth \in Nat
  BY Sizes DEF FilesInv
<1>2. nodes \in [Slots -> [kind : {"free", "file", "dir"}, parent : Slots \cup {0},
                           name : Name \cup {"", "home", "tmp"}, size : 0 .. limits.size,
                           extents : Seq([logical : Nat, physical : Nat, blocks : Nat]),
                           data : Seq(Value \cup {0}), refs : 0 .. Cardinality(Handle)]]
  <2>1. Seq(Extent) \subseteq Seq([logical : Nat, physical : Nat, blocks : Nat])
    <3>1. Extent \subseteq [logical : Nat, physical : Nat, blocks : Nat]
      BY DEF Extent
    <3> QED
      BY <3>1, WiderSeq
  <2>2. Node \subseteq [kind : {"free", "file", "dir"}, parent : Slots \cup {0},
                           name : Name \cup {"", "home", "tmp"}, size : 0 .. limits.size,
                           extents : Seq([logical : Nat, physical : Nat, blocks : Nat]),
                           data : Seq(Value \cup {0}), refs : 0 .. Cardinality(Handle)]
    BY <2>1 DEF Node, NodeName
  <2>3. nodes \in [Slots -> Node]
    BY <1>1 DEF Shaped
  <2> QED
    BY <2>2, <2>3
<1>3. \A n \in Slots : nodes[n].refs = Cardinality({h \in Handle : fd[h] # Closed /\ fd[h].node = n})
  BY <1>1 DEF Counted, Count
<1>4. \A h \in Handle : fd[h] # Closed => fd[h].node \in Used(nodes)
  BY <1>1 DEF Described
<1>5. \A n \in Used(nodes) \ Root : nodes[nodes[n].parent].kind = "dir" /\ \E r \in Root : Descendant(nodes, n, r)
  BY <1>1 DEF Shaped, Descendant
<1> QED
  BY <1>1, <1>2, <1>3, <1>4, <1>5 DEF TreeSound, Stands

LEMMA InvSaves == ASSUME FilesInv PROVE SavesAccepted
<1>1. Sized /\ Unit \in Nat \ {0} /\ Shaped(nodes) /\ Stored(nodes)
  BY Sizes DEF FilesInv
<1>2. Good(Exported(nodes))
  BY <1>1, ExportedGood
<1>3. Accepts(Exported(nodes))
  BY <1>1, <1>2, GoodAccepted
<1> QED
  BY <1>3 DEF SavesAccepted

LEMMA InvRuns == ASSUME FilesInv PROVE RunsAreFound
<1>1. limits.end \in Nat /\ hint \in 0 .. limits.end
  BY Sizes DEF FilesInv
<1> QED
  BY <1>1, TakenIn, FoundRuns

LEMMA InvMounts == ASSUME FilesInv PROVE Catalog(Imported(Exported(nodes))) = Catalog(nodes)
<1>1. Sized /\ Unit \in Nat \ {0} /\ Shaped(nodes) /\ Stored(nodes)
  BY Sizes DEF FilesInv
<1> QED
  BY <1>1, RestoredIs

-----------------------------------------------------------------------------
(***************************************************************************)
(* Theorems                                                                *)
(***************************************************************************)
\* The invariant: after any calls of fs.c, saves, failed saves and restarts the
\* tree is a tree, no block belongs to two files, the counts are right and what
\* is on the medium is what a mount takes.
THEOREM FilesInvariant == Spec => []FilesInv
<1>1. Init => FilesInv
  BY FilesInit
<1>2. FilesInv /\ [Next]_vars => FilesInv'
  BY FilesNext
<1> QED
  BY <1>1, <1>2, PTL DEF Spec

\* A node counts exactly its descriptors, so fs_remove and fs_replace never free
\* one that is open, no descriptor is left on a free node, the working directory
\* stays, and every node is below a root (fs.c).
THEOREM TheTreeIsSound == Spec => []TreeSound
  BY FilesInvariant, InvTree, PTL

\* What fs_extent_export writes of any tree the calls can build passes all checks
\* of fs_extent_import: no save makes a root that the next start rejects.
THEOREM SavesAreAccepted == Spec => []SavesAccepted
  BY FilesInvariant, InvSaves, PTL

\* extent_allocate finds a run of free blocks of every length for which there is
\* one, from any hint, and what it finds is free and inside the data area.
THEOREM FreeRunsAreFound == Spec => []RunsAreFound
  BY FilesInvariant, InvRuns, PTL

\* The three together, which TLC checks on small volumes: the tree can be used,
\* saved and mounted, and free blocks are found (fs.c, fs_extent.inc).
THEOREM FilesAreSound == Spec => []FilesSound
  BY FilesInvariant, InvTree, InvSaves, InvRuns, PTL DEF FilesSound

\* A mount of what a save writes (fs_extent_import of fs_extent_export) gives back
\* the same volume: every path with its kind, size and extents, and no other.
MountsRestore == Catalog(Imported(Exported(nodes))) = Catalog(nodes)

THEOREM MountsGiveBackTheTree == Spec => []MountsRestore
  BY FilesInvariant, InvMounts, PTL DEF MountsRestore
===============================================================================
