------------------------------ MODULE WindowProofs -----------------------------
(***************************************************************************)
(* Proofs about Window, for any number of processes and windows, and       *)
(* queues, frames and sizes without a bound that matters.                  *)
(*                                                                         *)
(* Most operations change some windows, each on its own, and perhaps end   *)
(* some.  Evolves says what may become of one window, EvolutionIInv that   *)
(* the invariant is kept if no window does anything else.                  *)
(***************************************************************************)
EXTENDS Window, TLAPS, SequenceTheorems, FiniteSetTheorems, WellFoundedInduction

WindowType ==
    [id : 1 .. workload.created, pid : Procs, size : Known, flags : Flags,
     generation : 0 .. workload.contents, front : Buffer, back : Buffer,
     uploading : BOOLEAN, frame_serial : 0 .. MaxSerial, tag : Tags, covered : SUBSET Rows,
     configure_pending : BOOLEAN, focus_pending : BOOLEAN, close_pending : BOOLEAN,
     events : Seq(Event), text : {"none", "stdio", "terminal"},
     told : Known, toldFlags : Flags, sent : Seq(Event), read : Seq(Event)]

\* What the client was told, or will be.
Informed(w) ==
    /\ w.configure_pending \/ w.told = w.size
    /\ w.focus_pending \/ w.toldFlags = w.flags
\* The front is one frame, and so is what has been uploaded of the next one.
OneFrame(b) == \A y, z \in DOMAIN b : b[y] = b[z] /\ b[y] # 0
Drawn(w) ==
    /\ OneFrame(w.front)
    /\ w.uploading => /\ w.tag # 0 /\ DOMAIN w.back # {}
                      /\ \A y \in w.covered \cap DOMAIN w.back : w.back[y] = w.tag
Good(w) == w \in WindowType /\ Len(w.events) <= EventRoom /\ Informed(w) /\ Drawn(w)

Counters ==
    /\ workload \in Workloads /\ nextId \in 1 .. workload.created + 1 /\ nextFrame \in 1 .. MaxFrame + 1
    /\ server \in alive \cup {Nobody}
Windows ==
    /\ windows \in [Slots -> WindowType \cup {Free}]
    /\ \A s \in Used : /\ Good(windows[s]) /\ windows[s].id < nextId
                       /\ windows[s].pid \in alive /\ server \in alive \ {windows[s].pid}
    /\ \A s, t \in Used : windows[s].id = windows[t].id => s = t
    /\ \A s, t \in Used : windows[s].flags.focused /\ windows[t].flags.focused => s = t

\* What the server has read, as long as the window shows the same.
Reading ==
    reading # NotReading =>
        /\ reading \in [id : 1 .. nextId - 1, generation : Nat, rows : SUBSET Rows, tags : SUBSET Tags]
        /\ \A a, b \in reading.tags : a = b
        /\ \A s \in Used : windows[s].id = reading.id =>
              /\ windows[s].front # NoFrame /\ windows[s].generation >= reading.generation
              /\ windows[s].generation = reading.generation =>
                    \A a \in reading.tags : \E y \in DOMAIN windows[s].front : windows[s].front[y] = a

IInv == ConsoleTypeOK /\ Counters /\ Windows /\ Reading

-----------------------------------------------------------------------------
(***************************************************************************)
(* The console                                                             *)
(***************************************************************************)
ScreenOK ==
    /\ alive \subseteq Procs /\ owner \in alive \cup {Nobody}
    /\ graphics \in BOOLEAN /\ (owner = Nobody => ~graphics) /\ locked \in BOOLEAN
KeyboardOK ==
    /\ input \in Seq(Key) /\ Len(input) <= KeyRoom /\ alt \in BOOLEAN /\ seenAlt \subseteq BOOLEAN
PointerType == [queue : Seq(Report), buttons : BOOLEAN, merge : BOOLEAN, seen : SUBSET BOOLEAN]
PointerOK(p) == p \in PointerType /\ Len(p.queue) <= PointerRoom

LEMMA ConsoleParts ==
    /\ ConsoleTypeOK <=> ScreenOK /\ KeyboardOK /\ PointerOK(Pointer)
    /\ ConsoleTypeOK' <=> ScreenOK' /\ KeyboardOK' /\ PointerOK(Pointer)'
BY DEF ConsoleTypeOK, ScreenOK, KeyboardOK, PointerOK, PointerType, Pointer

\* The parts that an operation leaves alone, or gets from the parts it sets.
LEMMA ConsoleKept ==
    /\ KeyboardOK /\ UNCHANGED keyboard => KeyboardOK'
    /\ PointerOK(Pointer) /\ UNCHANGED pointer => PointerOK(Pointer)'
    /\ ScreenOK /\ UNCHANGED <<alive, owner, graphics, locked>> => ScreenOK'
    /\ ConsoleTypeOK /\ UNCHANGED console => ConsoleTypeOK'
BY DEF KeyboardOK, PointerOK, Pointer, ScreenOK, keyboard, pointer, console, ConsoleTypeOK
LEMMA PointerSet == ASSUME NEW p, PointerOK(p), SetPointer(p) PROVE PointerOK(Pointer)'
BY DEF PointerOK, PointerType, Pointer, SetPointer
LEMMA PointerReset == PointerOK(pointer_reset)
BY ConsoleAssumption DEF PointerOK, PointerType, pointer_reset

\* A shorter or emptied queue of keys.
LEMMA InputIsDropped == InputDropped /\ UNCHANGED alt /\ KeyboardOK => KeyboardOK' /\ PointerOK(Pointer)'
BY PointerReset, PointerSet, ConsoleAssumption DEF InputDropped, KeyboardOK

\* queue_key keeps the queue within its room.
LEMMA QueueKeyTyped ==
    ASSUME NEW keys \in Seq(Key), Len(keys) <= KeyRoom, NEW k \in Key
    PROVE  queue_key(keys, k) \in Seq(Key) /\ Len(queue_key(keys, k)) <= KeyRoom
<1>1. KeyRoom \in Nat \ {0} /\ Len(keys) \in Nat
  BY ConsoleAssumption, LenProperties
<1>2. CASE Len(keys) < KeyRoom
  BY <1>1, <1>2, AppendProperties DEF queue_key
<1>3. CASE Len(keys) >= KeyRoom /\ k.kind = "modifiers"
  <2>1. keys # <<>> /\ Len(keys) = KeyRoom
    BY <1>1, <1>3, EmptySeq
  <2>2. Tail(keys) \in Seq(Key) /\ Len(Tail(keys)) = KeyRoom - 1
    BY <2>1, HeadTailProperties
  <2>3. Append(Tail(keys), k) \in Seq(Key) /\ Len(Append(Tail(keys), k)) = KeyRoom
    BY <1>1, <2>2, AppendProperties
  <2> QED
    BY <1>1, <1>3, <2>3 DEF queue_key
<1>4. CASE Len(keys) >= KeyRoom /\ k.kind # "modifiers"
  BY <1>1, <1>4 DEF queue_key
<1> QED
  BY <1>1, <1>2, <1>3, <1>4

\* pointer_push too.
LEMMA PushedOK ==
    ASSUME NEW p, PointerOK(p), NEW r \in Report PROVE PointerOK(Pushed(p, r))
<1> DEFINE n == Len(p.queue)
<1>1. p \in PointerType /\ p.queue \in Seq(Report) /\ n \in Nat /\ n <= PointerRoom
      /\ PointerRoom \in Nat \ {0} /\ r.down \in BOOLEAN /\ r.at \in Places
  BY ConsoleAssumption, LenProperties DEF PointerOK, PointerType, Report
<1>2. CASE r.down = p.buttons /\ p.merge /\ n > 0
  <2> DEFINE e == [p.queue[n] EXCEPT !.at = r.at]
             q == [p.queue EXCEPT ![n] = e]
  <2>1. n \in 1 .. Len(p.queue) /\ p.queue[n] \in Report
    BY <1>1, <1>2, ElementOfSeq
  <2>2. e \in Report
    BY <1>1, <2>1 DEF Report
  <2> HIDE DEF e
  <2>3. q \in Seq(Report) /\ Len(q) = n
    BY <1>1, <2>1, <2>2, ExceptSeq
  <2>4. Pushed(p, r) = [p EXCEPT !.queue = q]
    BY <1>1, <1>2 DEF Pushed, PointerType, e
  <2> HIDE DEF q
  <2> QED
    BY <1>1, <2>3, <2>4 DEF PointerOK, PointerType
<1>3. CASE ~(r.down = p.buttons /\ p.merge /\ n > 0)
  <2> DEFINE room == IF n = PointerRoom THEN Tail(p.queue) ELSE p.queue
  <2>1. room \in Seq(Report) /\ Len(room) < PointerRoom
    <3>1. CASE n = PointerRoom
      <4>1. p.queue # <<>>
        BY <1>1, <3>1, EmptySeq
      <4>2. Tail(p.queue) \in Seq(Report) /\ Len(Tail(p.queue)) = n - 1
        BY <1>1, <4>1, HeadTailProperties
      <4> QED
        BY <1>1, <3>1, <4>2
    <3>2. CASE n # PointerRoom
      BY <1>1, <3>2
    <3> QED
      BY <3>1, <3>2
  <2>2. Append(room, r) \in Seq(Report) /\ Len(Append(room, r)) <= PointerRoom
    <3>1. Len(room) \in Nat
      BY <2>1, LenProperties
    <3> HIDE DEF room
    <3> QED
      BY <1>1, <2>1, <3>1, AppendProperties
  <2>3. Pushed(p, r) = [p EXCEPT !.queue = Append(room, r), !.buttons = r.down,
                                 !.merge = (r.down = p.buttons)]
    BY <1>3 DEF Pushed
  <2> HIDE DEF room
  <2> QED
    BY <1>1, <2>2, <2>3 DEF PointerOK, PointerType
<1> QED
  BY <1>2, <1>3

-----------------------------------------------------------------------------
(* The first or the last of some entries *)
LEMMA LeastOf ==
    ASSUME NEW S \in SUBSET Nat, S # {}, IsFiniteSet(S)
    PROVE  \E x \in S : \A y \in S : x <= y
<1> DEFINE Below(x) == {y \in S : y <= x}
           All == {Below(x) : x \in S}
<1>1. All \subseteq FiniteSubsetsOf(S)
  BY FS_Subset DEF FiniteSubsetsOf
<1>2. PICK B \in All : \A C \in All : ~(<<C, B>> \in StrictSubsetOrdering(S))
  <2>1. All # {}
    OBVIOUS
  <2> HIDE DEF All
  <2> QED
    BY <1>1, <2>1, FS_StrictSubsetOrderingWellFounded, WFMin, Zenon
<1>3. PICK x \in S : B = Below(x)
  BY <1>2
<1>4. ASSUME NEW y \in S, y < x PROVE FALSE
  <2>1. x \in Nat /\ y \in Nat
    OBVIOUS
  <2>2. Below(y) \subseteq Below(x) /\ x \in Below(x) /\ x \notin Below(y)
    <3>1. (\A z \in S : z <= y => z <= x) /\ x <= x /\ ~(x <= y)
      BY <2>1, <1>4
    <3> QED
      BY <3>1, <2>1
  <2>3. Below(y) \in SUBSET S /\ Below(x) \in SUBSET S
    OBVIOUS
  <2>4. <<Below(y), Below(x)>> \in StrictSubsetOrdering(S)
    <3> HIDE DEF Below
    <3> QED
      BY <2>2, <2>3, Zenon DEF StrictSubsetOrdering
  <2> QED
    BY <1>2, <1>3, <2>4
<1> QED
  BY <1>4

LEMMA Extremes ==
    ASSUME NEW n \in Nat, NEW S \in SUBSET (1 .. n), S # {}
    PROVE  (\E i \in S : \A j \in S : i <= j) /\ (\E i \in S : \A j \in S : i >= j)
<1>1. IsFiniteSet(0 .. n)
  BY FS_Interval
<1>2. \E i \in S : \A j \in S : i <= j
  <2>1. IsFiniteSet(S)
    <3>1. S \in SUBSET (0 .. n)
      OBVIOUS
    <3> QED
      BY <1>1, <3>1, FS_Subset
  <2> QED
    BY <2>1, LeastOf
<1>3. \E i \in S : \A j \in S : i >= j
  <2> DEFINE T == {k \in 0 .. n : n - k \in S}
  <2>1. PICK s \in S : TRUE
    OBVIOUS
  <2>2. n - s \in T
    BY <2>1
  <2>3. IsFiniteSet(T)
    BY <1>1, FS_Subset
  <2>4. PICK k \in T : \A m \in T : k <= m
    <3>1. T \in SUBSET Nat
      OBVIOUS
    <3> HIDE DEF T
    <3> QED
      BY <2>2, <2>3, <3>1, LeastOf
  <2>5. ASSUME NEW j \in S PROVE n - k >= j
    <3>1. n - j \in T /\ j \in 1 .. n /\ k \in 0 .. n
      OBVIOUS
    <3>2. k <= n - j
      BY <2>4, <3>1
    <3> QED
      BY <3>1, <3>2
  <2> QED
    BY <2>5
<1> QED
  BY <1>2, <1>3

-----------------------------------------------------------------------------
(* What the console's operations make of it *)

LEMMA ReadKeyOK == ASSUME ConsoleTypeOK, NEW p \in Procs, ReadKey(p) PROVE ConsoleTypeOK'
<1>1. input \in Seq(Key) /\ input # <<>> /\ Len(input) \in Nat /\ Len(input) <= KeyRoom
  BY LenProperties DEF ReadKey, ConsoleTypeOK
<1>2. Tail(input) \in Seq(Key) /\ Len(Tail(input)) = Len(input) - 1 /\ Head(input) \in Key
  BY <1>1, HeadTailProperties
<1>3. Noted(Head(input), seenAlt) \subseteq BOOLEAN
  BY <1>2 DEF ConsoleTypeOK, Noted, Key
<1>4. KeyboardOK'
  BY <1>1, <1>2, <1>3, ConsoleAssumption DEF KeyboardOK, ReadKey, ConsoleTypeOK
<1> QED
  BY <1>4, ConsoleParts, ConsoleKept DEF ReadKey

LEMMA GetcOK == ASSUME ConsoleTypeOK, console_getc PROVE ConsoleTypeOK'
<1> DEFINE chars == {i \in DOMAIN input : input[i].kind = "char"}
           last == IF chars = {} THEN Len(input)
                   ELSE CHOOSE i \in chars : \A j \in chars : i <= j
           passed == {i \in 1 .. last : input[i].kind = "modifiers"}
           final == CHOOSE i \in passed : \A j \in passed : i >= j
<1>1. input \in Seq(Key) /\ input # <<>> /\ Len(input) \in Nat /\ Len(input) <= KeyRoom
      /\ DOMAIN input = 1 .. Len(input) /\ KeyRoom \in Nat
  BY LenProperties, ConsoleAssumption DEF console_getc, ConsoleTypeOK
<1>2. last \in Nat /\ last <= Len(input)
  <2>1. CASE chars = {}
    BY <1>1, <2>1
  <2>2. CASE chars # {}
    <3>1. \E i \in chars : \A j \in chars : i <= j
      BY <1>1, <2>2, Extremes
    <3>2. last \in chars
      BY <2>2, <3>1
    <3> QED
      BY <1>1, <3>2
  <2> QED
    BY <2>1, <2>2
<1> HIDE DEF last
<1>3. SubSeq(input, last + 1, Len(input)) \in Seq(Key)
      /\ Len(SubSeq(input, last + 1, Len(input))) <= KeyRoom
  <2>1. \A i \in last + 1 .. Len(input) : input[i] \in Key
    BY <1>1, <1>2, ElementOfSeq
  <2> QED
    BY <1>1, <1>2, <2>1, SubSeqProperties
<1>4. passed # {} => input[final].alt \in BOOLEAN
  <2>1. SUFFICES ASSUME passed # {} PROVE input[final].alt \in BOOLEAN
    OBVIOUS
  <2>2. \E i \in passed : \A j \in passed : i >= j
    BY <1>2, <2>1, Extremes
  <2>3. final \in passed
    BY <2>2
  <2> HIDE DEF final
  <2>4. input[final] \in Key /\ input[final].kind = "modifiers"
    BY <1>1, <1>2, <2>3, ElementOfSeq
  <2> QED
    BY <2>4 DEF Key
<1>5. /\ input' = SubSeq(input, last + 1, Len(input))
      /\ seenAlt' = IF passed = {} THEN seenAlt ELSE {input[final].alt}
      /\ UNCHANGED <<alive, owner, graphics, locked, alt, pointer>>
  BY DEF console_getc, last
<1> HIDE DEF final, passed
<1>6. KeyboardOK'
  BY <1>3, <1>4, <1>5 DEF KeyboardOK, ConsoleTypeOK
<1> QED
  BY <1>5, <1>6, ConsoleParts, ConsoleKept

LEMMA ReadPointerOK == ASSUME ConsoleTypeOK, NEW p \in Procs, ReadPointer(p) PROVE ConsoleTypeOK'
<1> DEFINE q == [Pointer EXCEPT !.queue = Tail(queue), !.seen = {Head(queue).down}]
<1>1. queue \in Seq(Report) /\ queue # <<>> /\ Len(queue) \in Nat /\ Len(queue) <= PointerRoom
      /\ buttons \in BOOLEAN /\ canMerge \in BOOLEAN /\ PointerRoom \in Nat
  BY LenProperties, ConsoleAssumption DEF ReadPointer, ConsoleTypeOK
<1>2. Tail(queue) \in Seq(Report) /\ Len(Tail(queue)) = Len(queue) - 1 /\ Head(queue) \in Report
  BY <1>1, HeadTailProperties
<1>3. {Head(queue).down} \subseteq BOOLEAN
  BY <1>2 DEF Report
<1>4. Pointer \in PointerType
  BY ConsoleParts DEF PointerOK
<1>5. PointerOK(q)
  <2> DEFINE r == Pointer
  <2>1. r \in PointerType
    BY <1>4
  <2> HIDE DEF r
  <2>2. [r EXCEPT !.queue = Tail(queue), !.seen = {Head(queue).down}] \in PointerType
    BY <1>2, <1>3, <2>1 DEF PointerType
  <2>3. [r EXCEPT !.queue = Tail(queue), !.seen = {Head(queue).down}].queue = Tail(queue)
    BY <2>1 DEF PointerType
  <2> QED
    BY <1>1, <1>2, <2>2, <2>3 DEF PointerOK, r
<1> HIDE DEF q
<1>6. SetPointer(q) /\ UNCHANGED <<alive, owner, graphics, locked, keyboard>>
  BY DEF ReadPointer, q
<1> QED
  BY <1>5, <1>6, ConsoleParts, ConsoleKept, PointerSet

LEMMA LeaveScreenOK ==
    ASSUME ScreenOK, PointerOK(Pointer), NEW p, LeaveScreen(p)
    PROVE  /\ owner' \in {owner, Nobody} /\ (owner' # p \/ p = Nobody)
           /\ (owner' = owner => graphics' = graphics \/ graphics' = FALSE)
           /\ (owner' # owner => graphics' = FALSE) /\ PointerOK(Pointer)'
BY PointerSet, PointerReset, ConsoleKept DEF LeaveScreen

LEMMA AcquireOK == ASSUME ConsoleTypeOK, NEW p, NEW d \in BOOLEAN, Acquire(p, d) PROVE ConsoleTypeOK'
<1>1. PointerOK(Pointer)'
  BY ConsoleParts, ConsoleKept, PointerSet, PointerReset DEF Acquire
<1>2. ScreenOK'
  BY ConsoleParts, ConsoleAssumption DEF Acquire, ScreenOK
<1> QED
  BY <1>1, <1>2, ConsoleParts, ConsoleKept DEF Acquire

LEMMA ReleaseOK == ASSUME ConsoleTypeOK, NEW p, Release(p) PROVE ConsoleTypeOK'
<1>1. PointerOK(Pointer)' /\ ScreenOK'
  BY ConsoleParts, LeaveScreenOK DEF Release, ScreenOK, LeaveScreen
<1> QED
  BY <1>1, ConsoleParts, ConsoleKept DEF Release

\* A device's event, whether or not it is the first after the idle time.
LEMMA DeviceOK ==
    ASSUME ConsoleTypeOK, NEW idle \in BOOLEAN,
           (\E k \in Keys : Press(k, idle)) \/ (\E r \in Report : Move(r, idle))
    PROVE  ConsoleTypeOK' /\ alive' = alive
<1>1. CASE \E k \in Keys : Press(k, idle)
  <2>1. PICK k \in Keys : Press(k, idle)
    BY <1>1
  <2>2. k \in Key /\ alt \in BOOLEAN /\ input \in Seq(Key) /\ Len(input) <= KeyRoom
    <3>1. Char \in Key /\ \A a \in BOOLEAN : Modifiers(a) \in Key
      BY DEF Key, Char, Modifiers
    <3>2. alt \in BOOLEAN /\ (~alt) \in BOOLEAN /\ input \in Seq(Key) /\ Len(input) <= KeyRoom
      BY DEF ConsoleTypeOK
    <3> QED
      BY <3>1, <3>2 DEF Keys
  <2>3. (IF idle THEN <<>> ELSE input) \in Seq(Key) /\ Len(IF idle THEN <<>> ELSE input) <= KeyRoom
    BY <2>2, ConsoleAssumption
  <2>4. KeyboardOK'
    <3>1. input' \in Seq(Key) /\ Len(input') <= KeyRoom
      BY <2>1, <2>2, <2>3, QueueKeyTyped DEF Press
    <3>2. alt' \in BOOLEAN /\ seenAlt' \subseteq BOOLEAN
      BY <2>1, <2>2 DEF Press, Key, ConsoleTypeOK
    <3> QED
      BY <3>1, <3>2 DEF KeyboardOK
  <2>5. PointerOK(Pointer)'
    BY <2>1, ConsoleParts, ConsoleKept, PointerSet, PointerReset DEF Press
  <2>6. ScreenOK'
    BY <2>1, ConsoleParts, ConsoleAssumption DEF Press, ScreenOK, ScreenLocked
  <2> QED
    BY <2>1, <2>4, <2>5, <2>6, ConsoleParts DEF Press
<1>2. CASE \E r \in Report : Move(r, idle)
  <2>1. PICK r \in Report : Move(r, idle)
    BY <1>2
  <2>2. PointerOK(Pointer)'
    <3>1. PointerOK(IF idle THEN pointer_reset ELSE Pointer)
      BY ConsoleParts, PointerReset
    <3> QED
      BY <2>1, <3>1, PushedOK, PointerSet DEF Move
  <2>3. KeyboardOK'
    <3>1. input' \in Seq(Key) /\ Len(input') <= KeyRoom
      <4>1. CASE idle
        <5>1. input' = <<>>
          BY <2>1, <4>1 DEF Move
        <5> QED
          BY <5>1, ConsoleAssumption
      <4>2. CASE ~idle
        BY <2>1, <4>2 DEF Move, ConsoleTypeOK
      <4> QED
        BY <4>1, <4>2
    <3>2. alt' \in BOOLEAN /\ seenAlt' \subseteq BOOLEAN
      BY <2>1 DEF Move, ConsoleTypeOK
    <3> QED
      BY <3>1, <3>2 DEF KeyboardOK
  <2>4. ScreenOK'
    BY <2>1, ConsoleParts, ConsoleAssumption DEF Move, ScreenOK, ScreenLocked
  <2> QED
    BY <2>1, <2>2, <2>3, <2>4, ConsoleParts DEF Move
<1> QED
  BY <1>1, <1>2

-----------------------------------------------------------------------------
(***************************************************************************)
(* What may become of windows                                              *)
(***************************************************************************)
Evolves(w, v) ==
    /\ v.id = w.id /\ v.pid = w.pid /\ Good(v)
    /\ w.front # NoFrame => /\ v.front # NoFrame /\ v.generation >= w.generation
                            /\ v.generation = w.generation => v.front = w.front

HasFocus(w) == w # Free /\ w.flags.focused

LEMMA WindowUsed == ASSUME NEW w \in WindowType PROVE w # Free
BY DEF WindowType, Free

\* The invariant is kept if windows evolve or end, nobody else gets the focus,
\* and those who end take their windows along.
LEMMA EvolutionIInv ==
    ASSUME IInv, ConsoleTypeOK', workload' = workload, nextId' = nextId,
           nextFrame' \in 1 .. MaxFrame + 1, server' \in alive' \cup {Nobody},
           DOMAIN windows' = Slots, windows' = [s \in Slots |-> windows'[s]],
           \A s \in Slots : windows'[s] # Free =>
              /\ s \in Used /\ Evolves(windows[s], windows'[s])
              /\ windows[s].pid \in alive' /\ server' \in alive' \ {windows[s].pid},
           \A s, t \in Slots : HasFocus(windows'[s]) /\ HasFocus(windows'[t]) => s = t,
           reading' \in {reading, NotReading}
    PROVE  IInv'
<1>1. Counters'
  BY DEF IInv, Counters
<1>2. Windows'
  <2>1. (windows \in [Slots -> WindowType \cup {Free}])'
    BY DEF Evolves, Good, WindowType
  <2>2. ASSUME NEW s \in Slots, windows'[s] # Free
        PROVE  /\ Good(windows[s])' /\ windows'[s].id = windows[s].id /\ windows[s].id < nextId
               /\ windows'[s].pid = windows[s].pid
    BY <2>2 DEF Evolves, IInv, Windows, Good, WindowType
  <2>3. ASSUME NEW s \in Slots, windows'[s] # Free, NEW t \in Slots, windows'[t] # Free,
               windows'[s].id = windows'[t].id
        PROVE  s = t
    BY <2>2, <2>3 DEF IInv, Windows
  <2>4. \A s, t \in Slots : HasFocus(windows'[s]) /\ HasFocus(windows'[t]) => s = t
    OBVIOUS
  <2> QED
    BY <2>1, <2>2, <2>3, <2>4 DEF Windows, Used, HasFocus
<1>3. Reading'
  <2>1. CASE reading' = NotReading
    BY <2>1 DEF Reading
  <2>2. CASE reading' = reading /\ reading # NotReading
    <3>1. /\ reading \in [id : 1 .. nextId - 1, generation : Nat, rows : SUBSET Rows, tags : SUBSET Tags]
          /\ \A a, b \in reading.tags : a = b
      BY <2>2 DEF IInv, Reading
    <3>2. ASSUME NEW s \in Slots, windows'[s] # Free, windows'[s].id = reading.id
          PROVE  /\ windows'[s].front # NoFrame /\ windows'[s].generation >= reading.generation
                 /\ windows'[s].generation = reading.generation =>
                       \A a \in reading.tags : \E y \in DOMAIN windows'[s].front : windows'[s].front[y] = a
      <4>1. s \in Used /\ Evolves(windows[s], windows'[s]) /\ windows[s].id = reading.id
        BY <3>2 DEF Evolves
      <4>2. /\ windows[s].front # NoFrame /\ windows[s].generation >= reading.generation
            /\ windows[s].generation = reading.generation =>
                    \A a \in reading.tags : \E y \in DOMAIN windows[s].front : windows[s].front[y] = a
        BY <2>2, <4>1 DEF IInv, Reading
      <4>3. windows[s].generation \in Int /\ windows'[s].generation \in Int /\ reading.generation \in Int
        BY <3>1, <4>1 DEF IInv, Windows, Evolves, Good, WindowType
      <4> QED
        BY <4>1, <4>2, <4>3 DEF Evolves
    <3> QED
      BY <2>2, <3>1, <3>2 DEF Reading, Used
  <2> QED
    BY <2>1, <2>2
<1> QED
  BY <1>1, <1>2, <1>3 DEF IInv

\* One window evolves, and nothing else changes.
LEMMA OneWindow ==
    ASSUME IInv, NEW s \in Used, NEW v, Set(s, v), Evolves(windows[s], v),
           v.flags.focused => windows[s].flags.focused,
           UNCHANGED <<console, server, reading>>, workload' = workload, nextId' = nextId,
           nextFrame' \in 1 .. MaxFrame + 1
    PROVE  IInv'
<1>1. /\ ConsoleTypeOK' /\ alive' = alive /\ server' = server /\ reading' = reading
  BY ConsoleKept DEF IInv, console
<1>2. /\ windows \in [Slots -> WindowType \cup {Free}] /\ windows' = [windows EXCEPT ![s] = v] /\ s \in Slots
  BY DEF IInv, Windows, Used, Set
<1>3. /\ DOMAIN windows' = Slots /\ windows'[s] = v /\ \A t \in Slots \ {s} : windows'[t] = windows[t]
      /\ windows' = [t \in Slots |-> windows'[t]]
  BY <1>2
<1>4. ASSUME NEW t \in Slots, windows'[t] # Free
      PROVE  t \in Used /\ Evolves(windows[t], windows'[t])
  <2>1. CASE t = s
    BY <1>3, <2>1
  <2>2. CASE t # s
    <3>1. windows'[t] = windows[t] /\ t \in Used
      BY <1>3, <1>4, <2>2 DEF Used
    <3>2. Good(windows[t]) /\ windows[t].generation \in Int
      BY <3>1, SMTT(30) DEF IInv, Windows, Good, WindowType
    <3> QED
      BY <3>1, <3>2 DEF Evolves
  <2> QED
    BY <2>1, <2>2
<1>5. \A t \in Used : windows[t].pid \in alive /\ server \in alive \ {windows[t].pid}
  BY DEF IInv, Windows
<1>6. \A t, u \in Slots : HasFocus(windows'[t]) /\ HasFocus(windows'[u]) => t = u
  <2>1. \A t \in Slots : HasFocus(windows'[t]) => t \in Used /\ windows[t].flags.focused
    BY <1>3 DEF Used, HasFocus
  <2>2. \A t, u \in Used : windows[t].flags.focused /\ windows[u].flags.focused => t = u
    BY DEF IInv, Windows
  <2> QED
    BY <2>1, <2>2
<1>7. server \in alive \cup {Nobody}
  BY DEF IInv, Counters
<1> QED
  BY <1>1, <1>3, <1>4, <1>5, <1>6, <1>7, EvolutionIInv

-----------------------------------------------------------------------------
(***************************************************************************)
(* One window                                                              *)
(***************************************************************************)

\* What is known of a used window.
LEMMA UsedWindow ==
    ASSUME IInv, NEW s \in Used
    PROVE  /\ s \in Slots /\ windows[s] \in WindowType /\ windows[s] # Free /\ Good(windows[s])
           /\ windows[s].generation \in Nat /\ Informed(windows[s]) /\ Drawn(windows[s])
           /\ nextFrame \in 1 .. MaxFrame + 1 /\ workload.contents \in Nat
BY WindowUsed, WindowAssumption, SMTT(30) DEF IInv, Counters, Windows, Used, Good, WindowType

LEMMA CountersKept ==
    UNCHANGED counters => workload' = workload /\ nextId' = nextId /\ nextFrame' = nextFrame
BY DEF counters

\* An emptied queue is one more event that evolves.
LEMMA EmptiedOK ==
    ASSUME NEW w, Good(w) PROVE Evolves(w, Emptied(w)) /\ Emptied(w).flags = w.flags
<1>1. w \in WindowType /\ w.generation \in Int /\ EventRoom \in Nat
  BY WindowAssumption DEF Good, WindowType
<1>2. Emptied(w) = [w EXCEPT !.events = <<>>, !.sent = <<>>, !.read = <<>>]
  BY DEF Emptied
<1>3. Emptied(w) \in WindowType
  <2>1. <<>> \in Seq(Event)
    OBVIOUS
  <2> QED
    BY <1>1, <1>2, <2>1, ZenonT(40) DEF WindowType
<1>4. Len(Emptied(w).events) <= EventRoom
  BY <1>1, <1>2 DEF WindowType
<1>5. Informed(Emptied(w)) /\ Drawn(Emptied(w))
  BY <1>1, <1>2 DEF WindowType, Good, Informed, Drawn
<1> QED
  BY <1>1, <1>2, <1>3, <1>4, <1>5, SMTT(30) DEF Evolves, Good, WindowType

LEMMA BindIInv ==
    ASSUME IInv, NEW p, NEW s, NEW text \in {"stdio", "terminal"}, Bind(p, s, text) PROVE IInv'
<1> DEFINE w == windows[s]
           g == IF text = "terminal" THEN w.generation + 1 ELSE 1
           v == [w EXCEPT !.text = text, !.generation = g]
<1>1. s \in Used /\ w.generation < workload.contents /\ w.front = NoFrame
      /\ UNCHANGED <<console, server, reading, counters>>
  BY DEF Bind, Owned
<1>2. w \in WindowType /\ Good(w) /\ w.generation \in Nat /\ Informed(w) /\ Drawn(w) /\ workload.contents \in Nat
      /\ nextFrame \in 1 .. MaxFrame + 1
  BY <1>1, UsedWindow
<1>3. Set(s, v)
  BY DEF Bind
<1>4. g \in 0 .. workload.contents
  BY <1>1, <1>2
<1> HIDE DEF g
<1>5. v \in WindowType
  BY <1>2, <1>4 DEF WindowType
<1>6. Evolves(w, v) /\ v.flags = w.flags
  BY <1>1, <1>2, <1>5 DEF Evolves, Good, Informed, Drawn, WindowType
<1> HIDE DEF v
<1> QED
  BY <1>1, <1>2, <1>3, <1>6, OneWindow, CountersKept

LEMMA BeginIInv == ASSUME IInv, NEW p, NEW s, Begin(p, s) PROVE IInv'
<1> DEFINE w == windows[s]
           b == Allocated(w.back, w.size.height)
           v == [w EXCEPT !.back = b, !.uploading = TRUE, !.frame_serial = w.size.serial,
                          !.tag = nextFrame, !.covered = {}]
<1>1. s \in Used /\ nextFrame <= MaxFrame /\ nextFrame' = nextFrame + 1
      /\ UNCHANGED <<console, server, reading, nextId, workload>>
  BY DEF Begin, Owned
<1>2. w \in WindowType /\ Good(w) /\ w.generation \in Nat /\ Informed(w) /\ Drawn(w) /\ workload.contents \in Nat
      /\ nextFrame \in 1 .. MaxFrame + 1
  BY <1>1, UsedWindow
<1>3. Set(s, v)
  BY DEF Begin
<1>4. w.size.height \in Heights /\ w.size.height \in Nat \ {0} /\ w.size.serial \in 0 .. MaxSerial
      /\ w.back \in Buffer /\ MaxFrame \in Nat /\ nextFrame \in Tags /\ nextFrame # 0
  <2>1. w.size \in Known /\ w.back \in Buffer
    BY <1>2 DEF WindowType
  <2>2. w.size.height \in Heights /\ w.size.serial \in 1 .. MaxSerial
    BY <2>1 DEF Known
  <2>3. MaxFrame \in Nat /\ MaxSerial \in Nat /\ Heights \subseteq Nat \ {0}
    BY WindowAssumption
  <2>4. w.size.serial \in 0 .. MaxSerial
    BY <2>2, <2>3
  <2>5. nextFrame \in Tags /\ nextFrame # 0
    BY <1>1, <1>2, <2>3 DEF Tags
  <2> QED
    BY <2>1, <2>2, <2>3, <2>4, <2>5
<1>5. b \in Buffer /\ DOMAIN b # {}
  <2>1. CASE Len(w.back) = w.size.height
    <3>1. b = w.back
      BY <2>1 DEF Allocated
    <3>2. PICK h \in Heights \cup {0} : w.back \in [1 .. h -> Tags]
      BY <1>4 DEF Buffer
    <3>3. h \in Nat
      BY <3>2, WindowAssumption
    <3>4. w.back \in Seq(Tags) /\ Len(w.back) = h
      BY <3>2, <3>3
    <3>5. DOMAIN w.back = 1 .. h /\ h = w.size.height
      BY <2>1, <3>2, <3>4
    <3>6. 1 \in DOMAIN w.back
      BY <1>4, <3>3, <3>5
    <3> QED
      BY <1>4, <3>1, <3>6
  <2>2. CASE Len(w.back) # w.size.height
    <3>1. b = [y \in 1 .. w.size.height |-> 0]
      BY <2>2 DEF Allocated
    <3>2. 0 \in Tags
      BY <1>4 DEF Tags
    <3>3. b \in [1 .. w.size.height -> Tags] /\ 1 \in DOMAIN b
      BY <1>4, <3>1, <3>2
    <3> QED
      BY <1>4, <3>3 DEF Buffer
  <2> QED
    BY <2>1, <2>2
<1> HIDE DEF b
<1>6. v \in WindowType
  BY <1>2, <1>4, <1>5 DEF WindowType
<1>7. Evolves(w, v) /\ v.flags = w.flags
  BY <1>1, <1>2, <1>4, <1>5, <1>6, SMTT(30) DEF Evolves, Good, Informed, Drawn, WindowType
<1> HIDE DEF v
<1> QED
  BY <1>1, <1>2, <1>3, <1>4, <1>7, OneWindow

LEMMA UploadIInv == ASSUME IInv, NEW p, NEW s, NEW y \in Rows, Upload(p, s, {y}) PROVE IInv'
<1> DEFINE w == windows[s]
           b == [z \in DOMAIN w.back |-> IF z \in {y} THEN w.tag ELSE w.back[z]]
           c == w.covered \cup {y}
           v == [w EXCEPT !.covered = c, !.back = b]
<1>1. s \in Used /\ w.uploading /\ y \in DOMAIN w.back
      /\ UNCHANGED <<console, server, reading, counters>>
  BY DEF Upload, Owned
<1>2. w \in WindowType /\ Good(w) /\ w.generation \in Nat /\ Informed(w) /\ Drawn(w) /\ workload.contents \in Nat
      /\ nextFrame \in 1 .. MaxFrame + 1
  BY <1>1, UsedWindow
<1>3. Set(s, v)
  BY DEF Upload
<1>4. b \in Buffer /\ DOMAIN b = DOMAIN w.back
  <2>1. PICK h \in Heights \cup {0} : w.back \in [1 .. h -> Tags]
    BY <1>2 DEF Buffer, WindowType
  <2>2. w.tag \in Tags
    BY <1>2 DEF WindowType
  <2>3. b \in [1 .. h -> Tags]
    BY <2>1, <2>2
  <2> QED
    BY <2>3 DEF Buffer
<1>5. \A z \in c \cap DOMAIN b : b[z] = w.tag
  BY <1>1, <1>2 DEF Drawn
<1>6. c \in SUBSET Rows
  BY <1>2 DEF WindowType
<1> HIDE DEF b, c
<1>7. v \in WindowType
  BY <1>2, <1>4, <1>6 DEF WindowType
<1>8. Evolves(w, v) /\ v.flags = w.flags
  BY <1>1, <1>2, <1>4, <1>5, <1>7, SMTT(30) DEF Evolves, Good, Informed, Drawn, WindowType
<1> HIDE DEF v
<1> QED
  BY <1>1, <1>2, <1>3, <1>8, OneWindow, CountersKept

LEMMA CommitIInv == ASSUME IInv, NEW p, NEW s, Commit(p, s) PROVE IInv'
<1> DEFINE w == windows[s]
           g == w.generation + 1
           dropped == [w EXCEPT !.uploading = FALSE]
           shown == [w EXCEPT !.front = w.back, !.back = w.front,
                              !.uploading = FALSE, !.generation = g]
<1>1. s \in Used /\ w.uploading /\ w.generation < workload.contents
      /\ UNCHANGED <<console, server, reading, counters>>
  BY DEF Commit, Owned
<1>2. w \in WindowType /\ Good(w) /\ w.generation \in Nat /\ Informed(w) /\ Drawn(w) /\ workload.contents \in Nat
      /\ nextFrame \in 1 .. MaxFrame + 1
  BY <1>1, UsedWindow
<1>3. CASE Set(s, dropped)
  <2>1. dropped \in WindowType
    BY <1>2 DEF WindowType
  <2>2. dropped.uploading = FALSE /\ dropped.front = w.front /\ dropped.generation = w.generation
        /\ dropped.flags = w.flags /\ dropped.id = w.id /\ dropped.pid = w.pid
        /\ Informed(dropped) /\ Len(dropped.events) <= EventRoom
    BY <1>2 DEF WindowType, Informed, Good
  <2>3. Drawn(dropped)
    BY <1>2, <2>2 DEF Drawn
  <2>4. Evolves(w, dropped)
    BY <1>2, <2>1, <2>2, <2>3 DEF Evolves, Good
  <2> HIDE DEF dropped
  <2> QED
    BY <1>1, <1>2, <1>3, <2>2, <2>4, OneWindow, CountersKept
<1>4. CASE w.covered = DOMAIN w.back /\ Set(s, shown)
  <2>1. g \in 0 .. workload.contents /\ g > w.generation
    BY <1>1, <1>2
  <2>2. OneFrame(w.back) /\ w.back # NoFrame
    BY <1>1, <1>2, <1>4 DEF Drawn, OneFrame, NoFrame
  <2> HIDE DEF g
  <2>3. shown \in WindowType
    BY <1>2, <2>1 DEF WindowType
  <2>4. Evolves(w, shown) /\ shown.flags = w.flags
    BY <1>1, <1>2, <2>1, <2>2, <2>3, SMTT(30) DEF Evolves, Good, Informed, Drawn, WindowType
  <2> HIDE DEF shown
  <2> QED
    BY <1>1, <1>2, <1>4, <2>4, OneWindow, CountersKept
<1> QED
  BY <1>3, <1>4 DEF Commit

LEMMA DestroyIInv == ASSUME IInv, NEW p, NEW s, Destroy(p, s) PROVE IInv'
<1>1. /\ windows' = [windows EXCEPT ![s] = Free] /\ s \in Slots
      /\ UNCHANGED <<console, server, reading, counters>> /\ ConsoleTypeOK' /\ alive' = alive
  BY ConsoleKept DEF Destroy, Owned, Used, Set, IInv, console
<1>2. windows \in [Slots -> WindowType \cup {Free}]
  BY DEF IInv, Windows
<1>3. /\ DOMAIN windows' = Slots /\ windows'[s] = Free /\ \A t \in Slots \ {s} : windows'[t] = windows[t]
      /\ windows' = [t \in Slots |-> windows'[t]]
  BY <1>1, <1>2
<1>4. ASSUME NEW t \in Slots, windows'[t] # Free
      PROVE  t \in Used /\ windows'[t] = windows[t] /\ Evolves(windows[t], windows'[t])
  <2>1. windows'[t] = windows[t] /\ t \in Used
    BY <1>3, <1>4 DEF Used
  <2>2. Good(windows[t]) /\ windows[t].generation \in Int
    BY <2>1, UsedWindow
  <2> QED
    BY <2>1, <2>2 DEF Evolves
<1>5. \A t \in Used : windows[t].pid \in alive /\ server \in alive \ {windows[t].pid}
  BY DEF IInv, Windows
<1>6. \A t, u \in Slots : HasFocus(windows'[t]) /\ HasFocus(windows'[u]) => t = u
  BY <1>4 DEF HasFocus, IInv, Windows
<1>7. server \in alive \cup {Nobody} /\ nextFrame \in 1 .. MaxFrame + 1
  BY DEF IInv, Counters
<1> QED
  BY <1>1, <1>3, <1>4, <1>5, <1>6, <1>7, CountersKept, EvolutionIInv

\* Only the queue of a window, its record of it, and what its client was told.
Requeued(w, e, sent, read) == [w EXCEPT !.events = e, !.sent = sent, !.read = read]
LEMMA Queued ==
    ASSUME NEW w, Good(w), NEW e \in Seq(Event), Len(e) <= EventRoom,
           NEW sent \in Seq(Event), NEW read \in Seq(Event)
    PROVE  Evolves(w, Requeued(w, e, sent, read)) /\ Requeued(w, e, sent, read).flags = w.flags
<1> DEFINE v == Requeued(w, e, sent, read)
<1>1. w \in WindowType /\ w.generation \in Int
  BY DEF Good, WindowType
<1>2. v \in WindowType
  BY <1>1 DEF WindowType, Requeued
<1>3. v.events = e /\ v.id = w.id /\ v.pid = w.pid /\ v.front = w.front /\ v.flags = w.flags
      /\ v.generation = w.generation /\ Informed(v) /\ Drawn(v)
  BY <1>1 DEF WindowType, Good, Informed, Drawn, Requeued
<1> QED
  BY <1>1, <1>2, <1>3, SMTT(30) DEF Evolves, Good, WindowType

LEMMA TailOK ==
    ASSUME NEW w, Good(w), w.events # <<>>
    PROVE  /\ Tail(w.events) \in Seq(Event) /\ Len(Tail(w.events)) <= EventRoom
           /\ Head(w.events) \in Event /\ Append(w.read, Head(w.events)) \in Seq(Event)
<1>1. w.events \in Seq(Event) /\ w.read \in Seq(Event) /\ Len(w.events) <= EventRoom /\ Len(w.events) \in Nat
      /\ EventRoom \in Nat
  BY LenProperties, WindowAssumption DEF Good, WindowType
<1>2. Tail(w.events) \in Seq(Event) /\ Len(Tail(w.events)) = Len(w.events) - 1 /\ Head(w.events) \in Event
  BY <1>1, HeadTailProperties
<1> QED
  BY <1>1, <1>2, AppendProperties

\* Whatever POLL takes away, the client then knows.
LEMMA PollIInv == ASSUME IInv, NEW p, NEW s, Poll(p, s) PROVE IInv'
<1> DEFINE w == windows[s]
           closed == [w EXCEPT !.close_pending = FALSE]
           sized == [w EXCEPT !.configure_pending = FALSE, !.told = w.size]
           flagged == [w EXCEPT !.focus_pending = FALSE, !.toldFlags = w.flags]
           taken == [w EXCEPT !.events = Tail(w.events), !.read = Append(w.read, Head(w.events))]
<1>1. s \in Used /\ UNCHANGED <<console, server, reading, counters>>
  BY DEF Poll, Owned
<1>2. w \in WindowType /\ Good(w) /\ w.generation \in Nat /\ Informed(w) /\ Drawn(w)
      /\ nextFrame \in 1 .. MaxFrame + 1
  BY <1>1, UsedWindow
<1>3. \/ Set(s, closed) \/ Set(s, sized) \/ Set(s, flagged) \/ Set(s, Emptied(w))
      \/ Len(w.events) >= 2 /\ Set(s, taken)
  <2>1. Len(w.events) \in Nat
    BY <1>2, LenProperties DEF WindowType
  <2>2. Set(s, CASE w.close_pending -> closed
                 [] ~w.close_pending /\ w.configure_pending -> sized
                 [] ~w.close_pending /\ ~w.configure_pending /\ w.focus_pending -> flagged
                 [] OTHER -> IF Len(w.events) < 2 THEN Emptied(w) ELSE taken)
    BY DEF Poll
  <2>3. w.close_pending \in BOOLEAN /\ w.configure_pending \in BOOLEAN /\ w.focus_pending \in BOOLEAN
    BY <1>2 DEF WindowType
  <2> HIDE DEF closed, sized, flagged, taken
  <2> QED
    BY <2>1, <2>2, <2>3
<1>4. Evolves(w, closed) /\ closed.flags = w.flags
  <2>1. closed \in WindowType
    BY <1>2 DEF WindowType
  <2>2. /\ closed.id = w.id /\ closed.pid = w.pid /\ closed.front = w.front /\ closed.events = w.events
        /\ closed.generation = w.generation /\ closed.flags = w.flags /\ Informed(closed) /\ Drawn(closed)
    BY <1>2 DEF WindowType, Informed, Drawn
  <2> QED
    BY <1>2, <2>1, <2>2 DEF Evolves, Good
<1>5. Evolves(w, sized) /\ sized.flags = w.flags
  <2>1. sized \in WindowType
    BY <1>2 DEF WindowType
  <2>2. Informed(sized) /\ Drawn(sized)
    BY <1>2 DEF WindowType, Informed, Drawn
  <2> QED
    BY <1>2, <2>1, <2>2, SMTT(30) DEF Evolves, Good, WindowType
<1>6. Evolves(w, flagged) /\ flagged.flags = w.flags
  <2>1. flagged \in WindowType
    BY <1>2 DEF WindowType
  <2>2. Informed(flagged) /\ Drawn(flagged)
    BY <1>2 DEF WindowType, Informed, Drawn
  <2> QED
    BY <1>2, <2>1, <2>2, SMTT(30) DEF Evolves, Good, WindowType
<1>7. Len(w.events) >= 2 => Evolves(w, taken) /\ taken.flags = w.flags
  <2>1. SUFFICES ASSUME Len(w.events) >= 2 PROVE Evolves(w, taken) /\ taken.flags = w.flags
    OBVIOUS
  <2>2. w.events # <<>>
    BY <2>1
  <2>3. /\ Tail(w.events) \in Seq(Event) /\ Len(Tail(w.events)) <= EventRoom
        /\ Append(w.read, Head(w.events)) \in Seq(Event) /\ w.sent \in Seq(Event)
    BY <1>2, <2>2, TailOK DEF WindowType
  <2>4. taken = Requeued(w, Tail(w.events), w.sent, Append(w.read, Head(w.events)))
    BY <1>2 DEF WindowType, Requeued
  <2> HIDE DEF taken
  <2> QED
    BY <1>2, <2>3, <2>4, Queued, ZenonT(40)
<1>8. Evolves(w, Emptied(w)) /\ Emptied(w).flags = w.flags
  BY <1>2, EmptiedOK
<1> HIDE DEF closed, sized, flagged, taken
<1> QED
  BY <1>1, <1>2, <1>3, <1>4, <1>5, <1>6, <1>7, <1>8, OneWindow, CountersKept

LEMMA StdioUsed == ASSUME NEW p, NEW s \in StdioWindow(p) PROVE s \in Used
BY DEF StdioWindow, TextWindows

LEMMA StdioWriteIInv == ASSUME IInv, NEW p, StdioWrite(p) PROVE IInv'
<1>1. PICK s \in StdioWindow(p) :
           /\ windows[s].generation < workload.contents
           /\ Set(s, [windows[s] EXCEPT !.generation = windows[s].generation + 1])
  BY DEF StdioWrite
<1> DEFINE w == windows[s]
           g == w.generation + 1
           v == [w EXCEPT !.generation = g]
<1>2. s \in Used /\ UNCHANGED <<console, server, reading, counters>> /\ Set(s, v)
  BY <1>1, StdioUsed DEF StdioWrite
<1>3. w \in WindowType /\ Good(w) /\ w.generation \in Nat /\ Informed(w) /\ Drawn(w) /\ workload.contents \in Nat
      /\ nextFrame \in 1 .. MaxFrame + 1
  BY <1>2, UsedWindow
<1>4. g \in 0 .. workload.contents /\ g > w.generation
  BY <1>1, <1>3
<1> HIDE DEF g
<1>5. v \in WindowType
  BY <1>3, <1>4 DEF WindowType
<1>6. /\ v.id = w.id /\ v.pid = w.pid /\ v.front = w.front /\ v.events = w.events
      /\ v.generation = g /\ v.flags = w.flags /\ Informed(v) /\ Drawn(v)
  BY <1>3 DEF WindowType, Informed, Drawn
<1>7. Evolves(w, v)
  BY <1>3, <1>4, <1>5, <1>6 DEF Evolves, Good
<1> HIDE DEF v
<1> QED
  BY <1>2, <1>3, <1>6, <1>7, OneWindow, CountersKept

LEMMA StdioReadIInv == ASSUME IInv, NEW p, StdioRead(p) PROVE IInv'
<1> DEFINE keys(w) == {i \in DOMAIN w.events : w.events[i].kind = "key"}
           taken(w) == IF keys(w) = {} THEN Len(w.events)
                       ELSE CHOOSE i \in keys(w) : \A j \in keys(w) : i <= j
           rest(w, n) == [w EXCEPT !.events = SubSeq(w.events, n + 1, Len(w.events)),
                                   !.read = w.read \o SubSeq(w.events, 1, n)]
<1>1. PICK s \in StdioWindow(p) :
           /\ windows[s].events # <<>>
           /\ Set(s, IF taken(windows[s]) = Len(windows[s].events) THEN Emptied(windows[s])
                     ELSE rest(windows[s], taken(windows[s])))
  BY DEF StdioRead
<1> DEFINE w == windows[s]
           n == taken(w)
<1>2. s \in Used /\ UNCHANGED <<console, server, reading, counters>>
  BY StdioUsed DEF StdioRead
<1>3. w \in WindowType /\ Good(w) /\ nextFrame \in 1 .. MaxFrame + 1
  BY <1>2, UsedWindow
<1>4. w.events \in Seq(Event) /\ w.read \in Seq(Event) /\ w.sent \in Seq(Event)
      /\ Len(w.events) \in Nat /\ Len(w.events) <= EventRoom /\ DOMAIN w.events = 1 .. Len(w.events)
      /\ EventRoom \in Nat
  BY <1>3, LenProperties, WindowAssumption DEF Good, WindowType
<1>5. n \in 0 .. Len(w.events)
  <2>1. CASE keys(w) = {}
    BY <1>4, <2>1
  <2>2. CASE keys(w) # {}
    <3>1. \E i \in keys(w) : \A j \in keys(w) : i <= j
      BY <1>4, <2>2, Extremes
    <3>2. n \in keys(w)
      BY <2>2, <3>1
    <3>3. n \in DOMAIN w.events
      BY <3>2
    <3> QED
      BY <1>4, <3>3
  <2> QED
    BY <2>1, <2>2
<1>6. Set(s, Emptied(w)) \/ Set(s, rest(w, n))
  BY <1>1
<1> HIDE DEF n
<1>7. /\ SubSeq(w.events, n + 1, Len(w.events)) \in Seq(Event)
      /\ Len(SubSeq(w.events, n + 1, Len(w.events))) <= EventRoom
      /\ w.read \o SubSeq(w.events, 1, n) \in Seq(Event)
  <2>1. \A i \in 1 .. Len(w.events) : w.events[i] \in Event
    BY <1>4, ElementOfSeq
  <2>2. SubSeq(w.events, 1, n) \in Seq(Event)
    BY <1>4, <1>5, <2>1, SubSeqProperties
  <2>3. w.read \o SubSeq(w.events, 1, n) \in Seq(Event)
    BY <1>4, <2>2, ConcatProperties
  <2>4. /\ SubSeq(w.events, n + 1, Len(w.events)) \in Seq(Event)
        /\ Len(SubSeq(w.events, n + 1, Len(w.events))) <= EventRoom
    BY <1>4, <1>5, <2>1, SubSeqProperties
  <2> QED
    BY <2>3, <2>4
<1>8. Evolves(w, rest(w, n)) /\ rest(w, n).flags = w.flags
  <2>1. rest(w, n) = Requeued(w, SubSeq(w.events, n + 1, Len(w.events)), w.sent,
                               w.read \o SubSeq(w.events, 1, n))
    BY <1>3 DEF WindowType, Requeued
  <2> DEFINE events == SubSeq(w.events, n + 1, Len(w.events))
             read == w.read \o SubSeq(w.events, 1, n)
  <2>2. Good(w) /\ events \in Seq(Event) /\ Len(events) <= EventRoom /\ w.sent \in Seq(Event)
        /\ read \in Seq(Event)
    BY <1>3, <1>4, <1>7
  <2> HIDE DEF rest, events, read
  <2>3. Evolves(w, Requeued(w, events, w.sent, read)) /\ Requeued(w, events, w.sent, read).flags = w.flags
    BY <2>2, Queued
  <2> QED
    BY <2>1, <2>3 DEF events, read
<1>9. Evolves(w, Emptied(w)) /\ Emptied(w).flags = w.flags
  BY <1>3, EmptiedOK
<1> HIDE DEF rest
<1> QED
  BY <1>2, <1>3, <1>6, <1>8, <1>9, OneWindow, CountersKept

LEMMA SendCloseIInv == ASSUME IInv, NEW s, SendClose(s) PROVE IInv'
<1> DEFINE w == windows[s]
           v == [w EXCEPT !.close_pending = TRUE]
<1>1. s \in Used /\ UNCHANGED <<console, server, reading, counters>> /\ Set(s, v)
  BY DEF SendClose
<1>2. w \in WindowType /\ Good(w) /\ w.generation \in Nat /\ Informed(w) /\ Drawn(w)
      /\ nextFrame \in 1 .. MaxFrame + 1
  BY <1>1, UsedWindow
<1>3. v \in WindowType
  BY <1>2 DEF WindowType
<1>4. /\ v.id = w.id /\ v.pid = w.pid /\ v.front = w.front /\ v.events = w.events
      /\ v.generation = w.generation /\ v.flags = w.flags /\ Informed(v) /\ Drawn(v)
  BY <1>2 DEF WindowType, Informed, Drawn
<1>5. Evolves(w, v)
  BY <1>2, <1>3, <1>4 DEF Evolves, Good
<1> HIDE DEF v
<1> QED
  BY <1>1, <1>2, <1>4, <1>5, OneWindow, CountersKept

LEMMA SendIInv == ASSUME IInv, NEW s, NEW e \in Inputs, Send(s, e) PROVE IInv'
<1> DEFINE w == windows[s]
           n == Len(w.events)
           q == IF Merges(w, e) THEN [w.events EXCEPT ![n] = e] ELSE Append(w.events, e)
           v == [w EXCEPT !.events = q, !.sent = Append(w.sent, e)]
<1>1. s \in Used /\ UNCHANGED <<console, server, reading, counters>>
      /\ (Merges(w, e) \/ n < EventRoom)
  BY DEF Send
<1>2. w \in WindowType /\ Good(w) /\ nextFrame \in 1 .. MaxFrame + 1 /\ e \in Event
  <2>1. Inputs \subseteq Event
    BY WindowAssumption
  <2> QED
    BY <1>1, <2>1, UsedWindow
<1>3. w.events \in Seq(Event) /\ w.read \in Seq(Event) /\ w.sent \in Seq(Event)
      /\ n \in Nat /\ n <= EventRoom /\ EventRoom \in Nat
  BY <1>2, LenProperties, WindowAssumption DEF Good, WindowType
<1>4. Set(s, v)
  <2>1. CASE Merges(w, e)
    BY <2>1 DEF Send
  <2>2. CASE ~Merges(w, e)
    BY <2>2 DEF Send
  <2> QED
    BY <2>1, <2>2
<1>5. Append(w.sent, e) \in Seq(Event)
  BY <1>2, <1>3, AppendProperties
<1>6. q \in Seq(Event) /\ Len(q) <= EventRoom
  <2>1. CASE Merges(w, e)
    <3>1. n \in 1 .. n
      BY <1>3, <2>1, EmptySeq DEF Merges
    <3> QED
      BY <1>2, <1>3, <2>1, <3>1, ExceptSeq
  <2>2. CASE ~Merges(w, e)
    BY <1>1, <1>2, <1>3, <2>2, AppendProperties
  <2> QED
    BY <2>1, <2>2
<1>7. v = Requeued(w, q, Append(w.sent, e), w.read)
  BY <1>2 DEF WindowType, Requeued
<1> HIDE DEF q, v
<1>8. Evolves(w, v) /\ v.flags = w.flags
  <2>1. Good(w) /\ q \in Seq(Event) /\ Len(q) <= EventRoom /\ Append(w.sent, e) \in Seq(Event)
        /\ w.read \in Seq(Event)
    BY <1>2, <1>3, <1>5, <1>6
  <2> DEFINE sent == Append(w.sent, e)
  <2> HIDE DEF sent
  <2>2. Evolves(w, Requeued(w, q, sent, w.read)) /\ Requeued(w, q, sent, w.read).flags = w.flags
    BY <2>1, Queued, ZenonT(40) DEF sent
  <2> QED
    BY <1>7, <2>2 DEF sent
<1> QED
  BY <1>1, <1>2, <1>4, <1>8, OneWindow, CountersKept

-----------------------------------------------------------------------------
(***************************************************************************)
(* All windows                                                             *)
(***************************************************************************)

\* What all windows may be when nothing, or only their queues, changed.
Intact(all) ==
    \A s \in Slots : all[s] # Free =>
        s \in Used /\ Evolves(windows[s], all[s]) /\ all[s].flags = windows[s].flags

LEMMA IntactWindows ==
    ASSUME IInv PROVE /\ Intact(windows) /\ Intact(Quieted)
                      /\ DOMAIN windows = Slots /\ windows = [s \in Slots |-> windows[s]]
                      /\ DOMAIN Quieted = Slots /\ Quieted = [s \in Slots |-> Quieted[s]]
<1>1. ASSUME NEW s \in Slots, windows[s] # Free
      PROVE  s \in Used /\ Evolves(windows[s], windows[s])
  <2>1. s \in Used
    BY <1>1 DEF Used
  <2> QED
    BY <2>1, UsedWindow DEF Evolves
<1>2. ASSUME NEW s \in Slots, Quieted[s] # Free
      PROVE  s \in Used /\ Evolves(windows[s], Quieted[s]) /\ Quieted[s].flags = windows[s].flags
  <2>1. s \in Used /\ Quieted[s] = Emptied(windows[s])
    BY <1>2 DEF Quieted
  <2> QED
    BY <2>1, UsedWindow, EmptiedOK
<1>3. windows \in [Slots -> WindowType \cup {Free}]
  BY DEF IInv, Windows
<1> QED
  BY <1>1, <1>2, <1>3 DEF Intact, Quieted

\* At most one of the windows of an intact set has the focus.
LEMMA OneFocus ==
    ASSUME IInv, NEW all, Intact(all), NEW s \in Slots, NEW t \in Slots, HasFocus(all[s]), HasFocus(all[t])
    PROVE  s = t
BY DEF Intact, HasFocus, IInv, Windows

\* Processes may start, the screen may change; windows stay, or lose what is queued.
LEMMA StayIInv ==
    ASSUME IInv, ConsoleTypeOK', alive \subseteq alive', windows' \in {windows, Quieted},
           UNCHANGED <<server, reading, counters>>
    PROVE  IInv'
<1>1. Intact(windows') /\ DOMAIN windows' = Slots /\ windows' = [s \in Slots |-> windows'[s]]
  BY IntactWindows
<1>2. \A s \in Used : windows[s].pid \in alive /\ server \in alive \ {windows[s].pid}
  BY DEF IInv, Windows
<1>3. \A s, t \in Slots : HasFocus(windows'[s]) /\ HasFocus(windows'[t]) => s = t
  BY <1>1, OneFocus
<1>4. server' \in alive' \cup {Nobody} /\ nextFrame' \in 1 .. MaxFrame + 1
  BY CountersKept DEF IInv, Counters
<1>5. \A s \in Slots : windows'[s] # Free =>
          /\ s \in Used /\ Evolves(windows[s], windows'[s])
          /\ windows[s].pid \in alive' /\ server' \in alive' \ {windows[s].pid}
  BY <1>1, <1>2 DEF Intact
<1> QED
  BY <1>1, <1>3, <1>4, <1>5, CountersKept, EvolutionIInv

\* Processes end or leave their windows; with the server go all of them.
LEMMA ReleaseIInv ==
    ASSUME IInv, ConsoleTypeOK', NEW all, Intact(all), NEW gone \in SUBSET alive, alive \ gone \subseteq alive',
           window_task_release(all, gone), UNCHANGED counters
    PROVE  IInv'
<1>1. /\ windows' = Left(all, gone) /\ server' = IF server \in gone THEN Nobody ELSE server
      /\ reading' \in {reading, NotReading}
  BY DEF window_task_release
<1>2. DOMAIN windows' = Slots /\ windows' = [s \in Slots |-> windows'[s]]
  BY <1>1 DEF Left
<1>3. \A s \in Used : windows[s].pid \in alive /\ server \in alive \ {windows[s].pid}
  BY DEF IInv, Windows
<1>4. ASSUME NEW s \in Slots, windows'[s] # Free
      PROVE  /\ windows'[s] = all[s] /\ all[s] # Free /\ s \in Used /\ Evolves(windows[s], windows'[s])
             /\ windows[s].pid \in alive' /\ server' \in alive' \ {windows[s].pid}
  <2>1. windows'[s] = all[s] /\ all[s] # Free /\ server \notin gone /\ all[s].pid \notin gone
    BY <1>1, <1>4 DEF Left
  <2>2. s \in Used /\ Evolves(windows[s], all[s]) /\ windows[s].pid = all[s].pid
    BY <2>1 DEF Intact, Evolves
  <2> QED
    BY <1>1, <1>3, <2>1, <2>2
<1>5. \A s, t \in Slots : HasFocus(windows'[s]) /\ HasFocus(windows'[t]) => s = t
  BY <1>4, OneFocus DEF HasFocus
<1>6. server' \in alive' \cup {Nobody} /\ nextFrame' \in 1 .. MaxFrame + 1
  BY <1>1, CountersKept DEF IInv, Counters
<1> QED
  BY <1>1, <1>2, <1>4, <1>5, <1>6, CountersKept, EvolutionIInv

LEMMA EndScreenOK ==
    ASSUME ConsoleTypeOK, NEW left \in SUBSET alive, EndScreen(left), locked' \in BOOLEAN
    PROVE  ConsoleTypeOK' /\ alive' = left
<1>1. KeyboardOK' /\ PointerOK(Pointer)'
  BY ConsoleParts, InputIsDropped DEF EndScreen
<1>2. ScreenOK'
  BY ConsoleParts, ConsoleAssumption DEF EndScreen, ScreenOK
<1> QED
  BY <1>1, <1>2, ConsoleParts DEF EndScreen

\* A process leaves the screen, and perhaps life.
LEMMA LeftScreenOK ==
    ASSUME ConsoleTypeOK, NEW p \in alive, LeaveScreen(p), alive' \in {alive, alive \ {p}},
           UNCHANGED <<locked, keyboard>>
    PROVE  ConsoleTypeOK'
<1>1. p # Nobody
  BY ConsoleAssumption DEF ConsoleTypeOK
<1>2. ScreenOK' /\ PointerOK(Pointer)'
  BY <1>1, ConsoleParts, LeaveScreenOK DEF ScreenOK
<1> QED
  BY <1>2, ConsoleParts, ConsoleKept

LEMMA ExitIInv == ASSUME IInv, NEW p \in Procs, Exit(p) PROVE IInv'
<1>1. CASE p = Manager
  <2>1. locked' = TRUE /\ EndScreen({}) /\ window_task_release(Quieted, alive) /\ UNCHANGED counters
    BY <1>1 DEF Exit
  <2>2. ConsoleTypeOK' /\ alive' = {}
    BY <2>1, EndScreenOK DEF IInv
  <2> QED
    BY <2>1, <2>2, IntactWindows, ReleaseIInv
<1>2. CASE p # Manager
  <2>1. /\ p \in alive /\ alive' = alive \ {p} /\ LeaveScreen(p) /\ window_task_release(windows, {p})
        /\ UNCHANGED <<locked, keyboard>> /\ UNCHANGED counters
    BY <1>2 DEF Exit
  <2>2. ConsoleTypeOK'
    BY <2>1, LeftScreenOK DEF IInv
  <2> QED
    BY <2>1, <2>2, IntactWindows, ReleaseIInv
<1> QED
  BY <1>1, <1>2

LEMMA ExecIInv == ASSUME IInv, NEW p \in Procs, Exec(p) PROVE IInv'
<1>1. /\ p \in alive /\ alive' = alive /\ LeaveScreen(p) /\ window_task_release(windows, {p})
      /\ UNCHANGED <<locked, keyboard>> /\ UNCHANGED counters
  BY DEF Exec, counters
<1>2. ConsoleTypeOK'
  BY <1>1, LeftScreenOK DEF IInv
<1> QED
  BY <1>1, <1>2, IntactWindows, ReleaseIInv

LEMMA LogoutIInv == ASSUME IInv, Logout PROVE IInv'
<1>1. /\ {Manager} \in SUBSET alive /\ locked' = FALSE /\ EndScreen({Manager})
      /\ window_task_release(Quieted, alive \ {Manager}) /\ UNCHANGED counters
  BY DEF Logout
<1>2. ConsoleTypeOK' /\ alive' = {Manager}
  BY <1>1, EndScreenOK DEF IInv
<1> QED
  BY <1>1, <1>2, IntactWindows, ReleaseIInv

LEMMA ServerReleaseIInv == ASSUME IInv, NEW p \in Procs, ServerRelease(p) PROVE IInv'
<1>1. p \in alive /\ window_task_release(windows, {p}) /\ UNCHANGED console /\ UNCHANGED counters
  BY DEF ServerRelease
<1>2. ConsoleTypeOK' /\ alive' = alive
  BY <1>1, ConsoleKept DEF IInv, console
<1> QED
  BY <1>1, <1>2, IntactWindows, ReleaseIInv

LEMMA StartIInv == ASSUME IInv, NEW p \in Procs, Start(p) PROVE IInv'
<1>1. alive' = alive \cup {p} /\ UNCHANGED <<owner, graphics, locked, keyboard, pointer>>
      /\ UNCHANGED <<server, reading, counters>> /\ windows' = windows
  BY DEF Start, counters
<1>2. ScreenOK'
  BY <1>1, ConsoleParts DEF IInv, ScreenOK
<1>3. ConsoleTypeOK'
  BY <1>1, <1>2, ConsoleParts, ConsoleKept DEF IInv
<1> QED
  BY <1>1, <1>3, StayIInv

LEMMA LockIInv == ASSUME IInv, Lock \/ Unlock PROVE IInv'
<1>1. CASE Lock
  <2>1. /\ locked' = TRUE /\ ScreenLocked /\ InputDropped /\ UNCHANGED <<alive, alt>>
        /\ windows' = Quieted /\ UNCHANGED <<server, reading, counters>>
    BY <1>1 DEF Lock, console_session_lock, window_session_lock
  <2>2. KeyboardOK' /\ PointerOK(Pointer)'
    BY <2>1, ConsoleParts, InputIsDropped DEF IInv
  <2>3. ScreenOK'
    BY <2>1, ConsoleParts, ConsoleAssumption DEF IInv, ScreenOK, ScreenLocked
  <2>4. ConsoleTypeOK'
    BY <2>2, <2>3, ConsoleParts
  <2> QED
    BY <2>1, <2>4, StayIInv
<1>2. CASE Unlock
  <2>1. /\ locked' = FALSE /\ UNCHANGED <<alive, owner, graphics, keyboard, pointer>>
        /\ windows' = windows /\ UNCHANGED <<server, reading, counters>>
    BY <1>2 DEF Unlock, counters
  <2>2. ScreenOK'
    BY <2>1, ConsoleParts DEF IInv, ScreenOK
  <2>3. ConsoleTypeOK'
    BY <2>1, <2>2, ConsoleParts, ConsoleKept DEF IInv
  <2> QED
    BY <2>1, <2>3, StayIInv
<1> QED
  BY <1>1, <1>2

LEMMA DeviceIInv == ASSUME IInv, Device PROVE IInv'
<1>1. PICK idle \in BOOLEAN :
         /\ (\E k \in Keys : Press(k, idle)) \/ (\E r \in Report : Move(r, idle))
         /\ IF idle THEN window_session_lock ELSE UNCHANGED windows
  BY DEF Device
<1>2. ConsoleTypeOK' /\ alive' = alive
  BY <1>1, DeviceOK DEF IInv
<1>3. windows' \in {windows, Quieted} /\ UNCHANGED <<server, reading, counters>>
  BY <1>1 DEF window_session_lock, Device
<1> QED
  BY <1>2, <1>3, StayIInv

LEMMA ScreenIInv == ASSUME IInv, Screen PROVE IInv'
<1>1. windows' = windows /\ UNCHANGED <<server, reading, counters>>
  BY DEF Screen, counters
<1>2. ConsoleTypeOK' /\ alive' = alive
  <2>1. ASSUME NEW p \in Procs, NEW d \in BOOLEAN, Acquire(p, d) PROVE ConsoleTypeOK' /\ alive' = alive
    BY <2>1, AcquireOK DEF IInv, Acquire
  <2>2. ASSUME NEW p \in Procs, Release(p) \/ ReadKey(p) \/ ReadPointer(p)
        PROVE  ConsoleTypeOK' /\ alive' = alive
    BY <2>2, ReleaseOK, ReadKeyOK, ReadPointerOK DEF IInv, Release, ReadKey, ReadPointer
  <2>3. CASE console_getc
    BY <2>3, GetcOK DEF IInv, console_getc
  <2> QED
    BY <2>1, <2>2, <2>3 DEF Screen
<1> QED
  BY <1>1, <1>2, StayIInv

\* Without a server there are no windows.
LEMMA ServerAcquireIInv == ASSUME IInv, NEW p \in Procs, ServerAcquire(p) PROVE IInv'
<1>1. p \in alive /\ server = Nobody /\ server' = p /\ UNCHANGED <<console, windows, reading, counters>>
  BY DEF ServerAcquire
<1>2. ConsoleTypeOK' /\ alive' = alive
  BY <1>1, ConsoleKept DEF IInv, console
<1>3. Used = {}
  BY <1>1, ConsoleAssumption DEF IInv, Windows, ConsoleTypeOK
<1>4. DOMAIN windows' = Slots /\ windows' = [s \in Slots |-> windows'[s]] /\ \A s \in Slots : windows'[s] = Free
  BY <1>1, <1>3, IntactWindows DEF Used
<1>5. server' \in alive' \cup {Nobody} /\ nextFrame' \in 1 .. MaxFrame + 1 /\ reading' = reading
  BY <1>1, <1>2, CountersKept DEF IInv, Counters
<1>6. \A s, t \in Slots : HasFocus(windows'[s]) /\ HasFocus(windows'[t]) => s = t
  BY <1>4 DEF HasFocus
<1> QED
  BY <1>1, <1>2, <1>4, <1>5, <1>6, CountersKept, EvolutionIInv

-----------------------------------------------------------------------------
(* CONFIGURE: what becomes of the window, and of the one that had the focus *)

LEMMA UnfocusedOK ==
    ASSUME NEW w, Good(w) PROVE Evolves(w, Unfocused(w)) /\ ~Unfocused(w).flags.focused
<1> DEFINE e == Emptied(w)
           v == [e EXCEPT !.flags.focused = FALSE, !.focus_pending = TRUE]
<1>1. Evolves(w, e) /\ Unfocused(w) = v
  BY EmptiedOK DEF Unfocused
<1>2. e \in WindowType /\ Good(e) /\ Informed(e) /\ Drawn(e)
  BY <1>1 DEF Evolves, Good
<1> HIDE DEF e
<1>3. e.flags \in Flags /\ [e.flags EXCEPT !.focused = FALSE] \in Flags
  BY <1>2 DEF WindowType, Flags
<1>4. v = [e EXCEPT !.flags = [e.flags EXCEPT !.focused = FALSE], !.focus_pending = TRUE]
  OBVIOUS
<1> DEFINE f == [e.flags EXCEPT !.focused = FALSE]
<1>5. f \in Flags /\ ~f.focused /\ v = [e EXCEPT !.flags = f, !.focus_pending = TRUE]
  BY <1>3, <1>4 DEF Flags
<1> HIDE DEF f, v
<1>6. v \in WindowType
  BY <1>2, <1>5 DEF WindowType
<1>7. /\ v.id = e.id /\ v.pid = e.pid /\ v.front = e.front /\ v.events = e.events
      /\ v.generation = e.generation /\ v.flags = f /\ Informed(v) /\ Drawn(v)
  BY <1>2, <1>5 DEF WindowType, Informed, Drawn
<1> QED
  BY <1>1, <1>2, <1>5, <1>6, <1>7 DEF Evolves, Good

LEMMA FlaggedOK ==
    ASSUME NEW w, Good(w), NEW f \in Flags PROVE Evolves(w, Flagged(w, f)) /\ Flagged(w, f).flags = f
<1>1. CASE w.flags = f
  <2>1. Flagged(w, f) = w /\ w.generation \in Int
    BY <1>1 DEF Flagged, Good, WindowType
  <2> QED
    BY <1>1, <2>1 DEF Evolves
<1>2. CASE w.flags # f
  <2> DEFINE e == Emptied(w)
             v == [e EXCEPT !.flags = f, !.focus_pending = TRUE]
  <2>1. Evolves(w, e) /\ Flagged(w, f) = v
    BY <1>2, EmptiedOK DEF Flagged
  <2>2. e \in WindowType /\ Good(e) /\ Informed(e) /\ Drawn(e)
    BY <2>1 DEF Evolves, Good
  <2> HIDE DEF e
  <2>3. v \in WindowType
    BY <2>2 DEF WindowType
  <2>4. /\ v.id = e.id /\ v.pid = e.pid /\ v.front = e.front /\ v.events = e.events
        /\ v.generation = e.generation /\ v.flags = f /\ Informed(v) /\ Drawn(v)
    BY <2>2 DEF WindowType, Informed, Drawn
  <2> HIDE DEF v
  <2> QED
    BY <2>1, <2>2, <2>3, <2>4 DEF Evolves, Good
<1> QED
  BY <1>1, <1>2

LEMMA ResizedOK ==
    ASSUME NEW w, Good(w), NEW h \in Heights,
           w.size.height # h => w.size.serial < MaxSerial /\ w.generation < workload.contents,
           workload.contents \in Nat
    PROVE  Evolves(w, Resized(w, h))
<1>1. w \in WindowType /\ w.generation \in Nat /\ Informed(w) /\ Drawn(w)
  BY DEF Good, WindowType
<1>2. CASE w.size.height = h
  <2>1. Resized(w, h) = w
    BY <1>2 DEF Resized
  <2> QED
    BY <1>1, <2>1 DEF Evolves
<1>3. CASE w.size.height # h
  <2> DEFINE size == [serial |-> w.size.serial + 1, height |-> h]
             g == IF w.text = "terminal" THEN w.generation + 1 ELSE w.generation
             v == [w EXCEPT !.size = size, !.configure_pending = TRUE, !.generation = g]
  <2>1. Resized(w, h) = v
    BY <1>3 DEF Resized
  <2>2. size \in Known
    <3>1. w.size \in Known
      BY <1>1 DEF WindowType
    <3>2. w.size.serial \in 1 .. MaxSerial /\ MaxSerial \in Nat
      BY <3>1, WindowAssumption DEF Known
    <3>3. w.size.serial + 1 \in 1 .. MaxSerial
      BY <1>3, <3>2
    <3> QED
      BY <3>3 DEF Known
  <2>3. g \in 0 .. workload.contents /\ g >= w.generation
    BY <1>1, <1>3
  <2> HIDE DEF size, g
  <2>4. v \in WindowType
    BY <1>1, <2>2, <2>3 DEF WindowType
  <2>5. /\ v.id = w.id /\ v.pid = w.pid /\ v.front = w.front /\ v.events = w.events
        /\ v.generation = g /\ Informed(v) /\ Drawn(v)
    BY <1>1 DEF WindowType, Informed, Drawn
  <2> HIDE DEF v
  <2> QED
    BY <2>1, <2>3, <2>4, <2>5 DEF Evolves, Good
<1> QED
  BY <1>2, <1>3

LEMMA EvolvesTwice ==
    ASSUME NEW u, Good(u), NEW v, NEW w, Evolves(u, v), Evolves(v, w) PROVE Evolves(u, w)
<1>1. u.generation \in Int /\ v.generation \in Int /\ w.generation \in Int
  BY DEF Evolves, Good, WindowType
<1> QED
  BY <1>1 DEF Evolves

LEMMA ConfigureIInv ==
    ASSUME IInv, NEW s \in Slots, NEW h \in Heights, NEW f \in Flags, Configure(s, h, f) PROVE IInv'
<1>1. s \in Used /\ UNCHANGED <<console, server, reading, counters>>
  BY DEF Configure
<1>2. windows[s].size.height # h =>
         windows[s].size.serial < MaxSerial /\ windows[s].generation < workload.contents
  BY DEF Configure
<1>3. windows' = [t \in Slots |->
          IF t = s THEN Flagged(Resized(windows[s], h), f)
          ELSE IF t \in Used /\ f.focused /\ windows[t].flags.focused
               THEN Unfocused(windows[t]) ELSE windows[t]]
  BY DEF Configure
<1>4. Evolves(windows[s], windows'[s]) /\ windows'[s].flags = f
  <2>1. Evolves(windows[s], Resized(windows[s], h))
    BY <1>1, <1>2, UsedWindow, ResizedOK
  <2>2. Good(Resized(windows[s], h)) /\ Good(windows[s])
    BY <1>1, <2>1, UsedWindow DEF Evolves
  <2>3. windows'[s] = Flagged(Resized(windows[s], h), f)
    BY <1>3
  <2> QED
    BY <2>1, <2>2, <2>3, FlaggedOK, EvolvesTwice
<1>5. ASSUME NEW t \in Slots, t # s, windows'[t] # Free
      PROVE  t \in Used /\ Evolves(windows[t], windows'[t])
             /\ (windows'[t].flags.focused => ~f.focused /\ windows[t].flags.focused)
  <2>1. CASE t \in Used /\ f.focused /\ windows[t].flags.focused
    <3>1. windows'[t] = Unfocused(windows[t])
      BY <1>3, <1>5, <2>1
    <3> QED
      BY <2>1, <3>1, UsedWindow, UnfocusedOK
  <2>2. CASE ~(t \in Used /\ f.focused /\ windows[t].flags.focused)
    <3>1. windows'[t] = windows[t] /\ t \in Used
      BY <1>3, <1>5, <2>2 DEF Used
    <3> QED
      BY <2>2, <3>1, UsedWindow, IntactWindows DEF Intact, Used
  <2> QED
    BY <2>1, <2>2
<1>6. ASSUME NEW t \in Slots, NEW u \in Slots, HasFocus(windows'[t]), HasFocus(windows'[u])
      PROVE  t = u
  <2>1. ASSUME NEW x \in Slots, HasFocus(windows'[x]), x # s
        PROVE  ~f.focused /\ x \in Used /\ windows[x].flags.focused
    BY <1>5, <2>1 DEF HasFocus
  <2>2. HasFocus(windows'[s]) => f.focused
    BY <1>4 DEF HasFocus
  <2> QED
    BY <1>6, <2>1, <2>2 DEF IInv, Windows
<1>7. \A t \in Used : windows[t].pid \in alive /\ server \in alive \ {windows[t].pid}
  BY DEF IInv, Windows
<1>8. ConsoleTypeOK' /\ alive' = alive /\ server' = server /\ reading' = reading
  BY <1>1, ConsoleKept DEF IInv, console
<1>9. \A t \in Slots : windows'[t] # Free =>
          /\ t \in Used /\ Evolves(windows[t], windows'[t])
          /\ windows[t].pid \in alive' /\ server' \in alive' \ {windows[t].pid}
  BY <1>1, <1>4, <1>5, <1>7, <1>8
<1>10. DOMAIN windows' = Slots /\ windows' = [t \in Slots |-> windows'[t]]
  BY <1>3
<1>11. server' \in alive' \cup {Nobody} /\ nextFrame' \in 1 .. MaxFrame + 1
  BY <1>1, <1>8, CountersKept DEF IInv, Counters
<1> QED
  BY <1>1, <1>6, <1>8, <1>9, <1>10, <1>11, CountersKept, EvolutionIInv

-----------------------------------------------------------------------------
(* CREATE, and what the server reads *)

LEMMA CreateIInv == ASSUME IInv, NEW p \in Procs, NEW h \in Heights, Create(p, h) PROVE IInv'
<1> DEFINE s == CHOOSE t \in Slots \ Used : TRUE
           size == [serial |-> 1, height |-> h]
           shown == [visible |-> TRUE, focused |-> FALSE]
           w == [id |-> nextId, pid |-> p, size |-> size, flags |-> shown,
                 generation |-> 0, front |-> NoFrame, back |-> NoFrame,
                 uploading |-> FALSE, frame_serial |-> 0, tag |-> 0, covered |-> {},
                 configure_pending |-> FALSE, focus_pending |-> FALSE,
                 close_pending |-> FALSE, events |-> <<>>, text |-> "none",
                 told |-> size, toldFlags |-> shown, sent |-> <<>>, read |-> <<>>]
<1>1. /\ nextId <= workload.created /\ p \in alive /\ server # Nobody /\ p # server /\ Used # Slots
      /\ Set(s, w) /\ nextId' = nextId + 1 /\ nextFrame' = nextFrame /\ workload' = workload
      /\ server' = server /\ reading' = reading /\ UNCHANGED console
  BY DEF Create
<1>2. s \in Slots \ Used
  BY <1>1 DEF Used
<1>3. /\ workload \in Workloads /\ nextId \in 1 .. workload.created + 1
      /\ nextFrame \in 1 .. MaxFrame + 1 /\ server \in alive \cup {Nobody}
      /\ workload.created \in Nat /\ workload.contents \in Nat
  BY WindowAssumption DEF IInv, Counters
<1>4. nextId \in 1 .. workload.created /\ nextId' \in 1 .. workload.created + 1
  BY <1>1, <1>3
<1>5. size \in Known /\ shown \in Flags /\ ~shown.focused
  <2>1. 1 \in 1 .. MaxSerial
    BY WindowAssumption
  <2> QED
    BY <2>1 DEF Known, Flags
<1>6. NoFrame \in Buffer /\ DOMAIN NoFrame = {} /\ 0 \in Tags /\ 0 \in 0 .. MaxSerial
      /\ 0 \in 0 .. workload.contents
  <2>1. NoFrame \in [1 .. 0 -> Tags] /\ DOMAIN NoFrame = {}
    BY DEF NoFrame
  <2>2. NoFrame \in Buffer
    BY <2>1 DEF Buffer
  <2> QED
    BY <1>3, <2>1, <2>2, WindowAssumption DEF Tags
<1>7. <<>> \in Seq(Event) /\ Len(<<>>) <= EventRoom
  BY WindowAssumption
<1> HIDE DEF s, size, shown
<1>8. w \in WindowType
  BY <1>4, <1>5, <1>6, <1>7 DEF WindowType
<1>9. Informed(w) /\ Drawn(w) /\ w.events = <<>> /\ w.id = nextId /\ w.pid = p /\ w.flags = shown
  BY <1>6 DEF Informed, Drawn, OneFrame
<1> HIDE DEF w
<1>10. Good(w) /\ w # Free
  BY <1>7, <1>8, <1>9, WindowUsed DEF Good
<1>11. /\ windows \in [Slots -> WindowType \cup {Free}] /\ windows' = [windows EXCEPT ![s] = w]
       /\ windows'[s] = w /\ \A t \in Slots \ {s} : windows'[t] = windows[t]
  BY <1>1, <1>2 DEF IInv, Windows, Set
<1>12. ConsoleTypeOK' /\ alive' = alive
  BY <1>1, ConsoleKept DEF IInv, console
<1>13. Counters'
  BY <1>1, <1>3, <1>4, <1>12 DEF Counters
<1>14. Windows'
  <2>1. (windows \in [Slots -> WindowType \cup {Free}])'
    <3>1. windows' \in [Slots -> WindowType \cup {Free}]
      BY <1>2, <1>8, <1>11
    <3>2. WindowType' = WindowType
      BY <1>1 DEF WindowType
    <3> QED
      BY <3>1, <3>2
  <2>2. ASSUME NEW t \in Slots, windows'[t] # Free, t # s
        PROVE  t \in Used /\ windows'[t] = windows[t] /\ windows[t].id < nextId
               /\ windows[t].pid \in alive /\ server \in alive \ {windows[t].pid} /\ Good(windows[t])
    BY <1>11, <2>2 DEF Used, IInv, Windows
  <2>3. \A t \in Slots : Good(windows[t])' <=> Good(windows'[t])
    BY <1>1 DEF Good, WindowType, Informed, Drawn
  <2>4. \A t \in Slots : windows'[t] # Free =>
            /\ Good(windows'[t]) /\ windows'[t].id < nextId'
            /\ windows'[t].pid \in alive' /\ server' \in alive' \ {windows'[t].pid}
    <3>1. nextId \in Nat /\ nextId < nextId' /\ nextId' \in Nat
      BY <1>1, <1>3
    <3>2. \A t \in Used : windows[t].id \in Nat
      BY UsedWindow, <1>3, SMTT(30) DEF WindowType
    <3>3. server \in alive
      BY <1>1, <1>3
    <3>4. ASSUME NEW t \in Slots, windows'[t] # Free, t # s
          PROVE  /\ Good(windows'[t]) /\ windows'[t].id < nextId'
                 /\ windows'[t].pid \in alive' /\ server' \in alive' \ {windows'[t].pid}
      BY <1>1, <1>12, <2>2, <3>1, <3>2, <3>4
    <3>5. /\ Good(windows'[s]) /\ windows'[s].id < nextId'
          /\ windows'[s].pid \in alive' /\ server' \in alive' \ {windows'[s].pid}
      <4>1. windows'[s].id = nextId /\ windows'[s].pid = p /\ Good(windows'[s])
        BY <1>9, <1>10, <1>11
      <4> QED
        BY <1>1, <1>12, <3>1, <3>3, <4>1
    <3> QED
      BY <3>4, <3>5
  <2>5. ASSUME NEW t \in Slots, windows'[t] # Free, NEW u \in Slots, windows'[u] # Free
        PROVE  /\ windows'[t].id = windows'[u].id => t = u
               /\ windows'[t].flags.focused /\ windows'[u].flags.focused => t = u
    <3>1. nextId \in Nat /\ \A x \in Used : windows[x].id < nextId
      BY <1>3 DEF IInv, Windows
    <3>2. windows'[s].id = nextId /\ ~windows'[s].flags.focused
      BY <1>5, <1>9, <1>11
    <3>3. CASE t # s /\ u # s
      BY <2>2, <2>5, <3>3 DEF IInv, Windows
    <3>4. CASE t = s \/ u = s
      <4>1. \A x \in Slots : windows'[x] # Free /\ x # s => windows'[x].id # nextId
        BY <2>2, <3>1
      <4> QED
        BY <2>5, <3>2, <3>4, <4>1
    <3> QED
      BY <3>3, <3>4
  <2> QED
    BY <2>1, <2>3, <2>4, <2>5 DEF Windows, Used
<1>15. Reading'
  <2>1. CASE reading = NotReading
    BY <1>1, <2>1 DEF Reading
  <2>2. CASE reading # NotReading
    <3>1. /\ reading \in [id : 1 .. nextId - 1, generation : Nat, rows : SUBSET Rows, tags : SUBSET Tags]
          /\ \A a, b \in reading.tags : a = b
      BY <2>2 DEF IInv, Reading
    <3>2. reading \in [id : 1 .. nextId' - 1, generation : Nat, rows : SUBSET Rows, tags : SUBSET Tags]
          /\ reading.id # nextId
      <4>1. reading.id \in 1 .. nextId - 1
        BY <3>1
      <4>2. reading.id \in 1 .. nextId' - 1 /\ reading.id # nextId
        BY <1>1, <1>3, <4>1
      <4> QED
        BY <3>1, <4>2
    <3>3. ASSUME NEW t \in Slots, windows'[t] # Free, windows'[t].id = reading.id
          PROVE  t \in Used /\ windows'[t] = windows[t]
      BY <1>9, <1>11, <3>2, <3>3 DEF Used
    <3> QED
      BY <1>1, <2>2, <3>1, <3>2, <3>3 DEF IInv, Reading, Used
  <2> QED
    BY <2>1, <2>2
<1> QED
  BY <1>12, <1>13, <1>14, <1>15 DEF IInv

\* The server looks: only what it has read changes.
LEMMA LookIInv ==
    ASSUME IInv, UNCHANGED <<console, server, windows, counters>>, Reading' PROVE IInv'
<1>1. ConsoleTypeOK' /\ alive' = alive
  BY ConsoleKept DEF IInv, console
<1>2. Counters'
  BY <1>1, CountersKept DEF IInv, Counters
<1>3. Windows'
  BY <1>1, CountersKept DEF IInv, Windows, Used, Good, WindowType, Informed, Drawn
<1> QED
  BY <1>1, <1>2, <1>3 DEF IInv

LEMMA EnumIInv == ASSUME IInv, NEW s \in Slots, Enum(s) PROVE IInv'
<1>1. /\ s \in Used /\ windows[s].front # NoFrame /\ UNCHANGED <<console, server, windows, counters>>
      /\ reading' = [id |-> windows[s].id, generation |-> windows[s].generation, rows |-> {}, tags |-> {}]
  BY DEF Enum
<1>2. windows[s].id \in 1 .. nextId - 1 /\ windows[s].generation \in Nat
  <2>1. windows[s].id \in 1 .. workload.created /\ windows[s].id < nextId /\ nextId \in Nat
    BY <1>1, WindowAssumption DEF IInv, Counters, Windows, Good, WindowType
  <2> QED
    BY <1>1, <2>1, UsedWindow
<1>3. \A t \in Used : windows[t].id = windows[s].id => t = s
  BY <1>1 DEF IInv, Windows
<1>4. Reading'
  BY <1>1, <1>2, <1>3, CountersKept DEF Reading, Used
<1> QED
  BY <1>1, <1>4, LookIInv

LEMMA ReadIInv == ASSUME IInv, NEW s \in Slots, NEW y \in Rows, Read(s, y) PROVE IInv'
<1> DEFINE a == windows[s].front[y]
<1>1. /\ s \in Used /\ reading # NotReading /\ reading.id = windows[s].id
      /\ reading.generation = windows[s].generation /\ y \in DOMAIN windows[s].front
      /\ reading' = [reading EXCEPT !.rows = reading.rows \cup {y}, !.tags = reading.tags \cup {a}]
      /\ UNCHANGED <<console, server, windows, counters>>
  BY DEF Read
<1>2. /\ reading \in [id : 1 .. nextId - 1, generation : Nat, rows : SUBSET Rows, tags : SUBSET Tags]
      /\ \A b, c \in reading.tags : b = c
      /\ windows[s].front # NoFrame
      /\ \A b \in reading.tags : \E z \in DOMAIN windows[s].front : windows[s].front[z] = b
  BY <1>1 DEF IInv, Reading
<1>3. OneFrame(windows[s].front) /\ a \in Tags
  <2>1. OneFrame(windows[s].front) /\ windows[s].front \in Buffer
    BY <1>1, UsedWindow DEF Drawn, WindowType
  <2> QED
    BY <1>1, <2>1 DEF Buffer
<1>4. \A b \in reading.tags : b = a
  BY <1>1, <1>2, <1>3 DEF OneFrame
<1>5. /\ reading' \in [id : 1 .. nextId - 1, generation : Nat, rows : SUBSET Rows, tags : SUBSET Tags]
      /\ reading'.id = windows[s].id /\ reading'.generation = windows[s].generation
      /\ reading'.tags = reading.tags \cup {a}
  BY <1>1, <1>2, <1>3
<1>6. \A t \in Used : windows[t].id = windows[s].id => t = s
  BY <1>1 DEF IInv, Windows
<1>7. windows[s].generation \in Nat
  BY <1>1, UsedWindow
<1>8. \A b \in reading'.tags : b = a
  BY <1>4, <1>5
<1> HIDE DEF a
<1>9. Reading'
  <2>1. ASSUME NEW t \in Used, windows[t].id = reading'.id
        PROVE  /\ windows[t].front # NoFrame /\ windows[t].generation >= reading'.generation
               /\ \A b \in reading'.tags : \E z \in DOMAIN windows[t].front : windows[t].front[z] = b
    <3>1. t = s
      BY <1>5, <1>6, <2>1
    <3> QED
      BY <1>1, <1>2, <1>5, <1>7, <1>8, <3>1 DEF a
  <2> QED
    BY <1>1, <1>5, <1>8, <2>1, CountersKept DEF Reading, Used
<1> QED
  BY <1>1, <1>9, LookIInv

-----------------------------------------------------------------------------
LEMMA InitIInv == Init => IInv
<1> SUFFICES ASSUME Init PROVE IInv
  OBVIOUS
<1>1. workload \in Workloads /\ workload.procs \subseteq Procs /\ workload.created \in Nat
  BY WindowAssumption DEF Init
<1>2. ConsoleTypeOK
  <2>1. ConsoleInit(workload.procs)
    BY DEF Init
  <2>2. <<>> \in Seq(Key) /\ <<>> \in Seq(Report) /\ Len(<<>>) <= KeyRoom /\ Len(<<>>) <= PointerRoom
    BY ConsoleAssumption
  <2>3. /\ input \in Seq(Key) /\ Len(input) <= KeyRoom
        /\ queue \in Seq(Report) /\ Len(queue) <= PointerRoom
    BY <2>1, <2>2 DEF ConsoleInit
  <2> QED
    BY <1>1, <2>1, <2>3 DEF ConsoleInit, ConsoleTypeOK
<1>3. Counters
  BY <1>1, WindowAssumption DEF Init, Counters
<1>4. Used = {} /\ windows \in [Slots -> WindowType \cup {Free}] /\ reading = NotReading
  BY DEF Init, Used
<1> QED
  BY <1>2, <1>3, <1>4 DEF IInv, Windows, Reading

LEMMA NextIInv == IInv /\ [Next]_vars => IInv'
<1> SUFFICES ASSUME IInv, [Next]_vars PROVE IInv'
  OBVIOUS
<1>1. ASSUME NEW p \in Procs, Start(p) \/ Exit(p) \/ Exec(p) \/ ServerAcquire(p) \/ ServerRelease(p)
      PROVE  IInv'
  BY <1>1, StartIInv, ExitIInv, ExecIInv, ServerAcquireIInv, ServerReleaseIInv
<1>2. ASSUME NEW p \in Procs, StdioWrite(p) \/ StdioRead(p) PROVE IInv'
  BY <1>2, StdioWriteIInv, StdioReadIInv
<1>3. ASSUME NEW p \in Procs, NEW h \in Heights, Create(p, h) PROVE IInv'
  BY <1>3, CreateIInv
<1>4. ASSUME NEW p \in Procs, NEW s \in Slots, Destroy(p, s) \/ Begin(p, s) \/ Commit(p, s) \/ Poll(p, s)
      PROVE  IInv'
  BY <1>4, DestroyIInv, BeginIInv, CommitIInv, PollIInv
<1>5. ASSUME NEW p \in Procs, NEW s \in Slots,
             \/ \E y \in Rows : Upload(p, s, {y})
             \/ \E text \in {"stdio", "terminal"} : Bind(p, s, text)
      PROVE  IInv'
  BY <1>5, UploadIInv, BindIInv
<1>6. ASSUME NEW s \in Slots, SendClose(s) \/ Enum(s) PROVE IInv'
  BY <1>6, SendCloseIInv, EnumIInv
<1>7. ASSUME NEW s \in Slots, \E h \in Heights, f \in Flags : Configure(s, h, f) PROVE IInv'
  BY <1>7, ConfigureIInv
<1>8. ASSUME NEW s \in Slots, (\E e \in Inputs : Send(s, e)) \/ \E y \in Rows : Read(s, y) PROVE IInv'
  BY <1>8, SendIInv, ReadIInv
<1>9. CASE Logout \/ Lock \/ Unlock \/ Device \/ Screen
  BY <1>9, LogoutIInv, LockIInv, DeviceIInv, ScreenIInv
<1>10. CASE UNCHANGED vars
  <2>1. UNCHANGED <<console, server, windows, counters>> /\ reading' = reading
    BY <1>10 DEF vars
  <2>2. Reading'
    BY <2>1, CountersKept DEF IInv, Reading, Used
  <2> QED
    BY <2>1, <2>2, LookIInv
<1> QED
  BY <1>1, <1>2, <1>3, <1>4, <1>5, <1>6, <1>7, <1>8, <1>9, <1>10 DEF Next

\* What the theorems rest on: each window's client is informed, its front is
\* one frame, and the server has read of one frame, whatever bounds there are.
THEOREM WindowInvariant == ASSUME ConsoleAssumption, WindowAssumption PROVE Spec => []IInv
BY InitIInv, NextIInv, PTL DEF Spec

\* What a set has at most one element of.
LEMMA AtMostOne ==
    ASSUME NEW S, \A a, b \in S : a = b PROVE IsFiniteSet(S) /\ Cardinality(S) <= 1
<1>1. CASE S = {}
  BY <1>1, FS_EmptySet
<1>2. CASE S # {}
  <2>1. PICK a \in S : S = {a}
    BY <1>2
  <2>2. IsFiniteSet({a}) /\ Cardinality({a}) = 1
    BY FS_Singleton
  <2> QED
    BY <2>1, <2>2
<1> QED
  BY <1>1, <1>2

LEMMA IInvWholeFrames == IInv => WholeFrames
<1> SUFFICES ASSUME IInv PROVE WholeFrames
  OBVIOUS
<1>1. \A s \in Used : OneFrame(windows[s].front)
  BY UsedWindow DEF Drawn
<1>2. reading # NotReading => Cardinality(reading.tags) <= 1
  BY AtMostOne DEF IInv, Reading
<1> QED
  BY <1>1, <1>2 DEF WholeFrames, OneFrame

LEMMA IInvTypeOK == IInv => TypeOK
<1> SUFFICES ASSUME IInv PROVE TypeOK
  OBVIOUS
<1>1. ASSUME NEW s \in Slots, windows[s] # Free PROVE IsWindow(windows[s])
  <2>1. Good(windows[s]) /\ windows[s].pid \in alive
    BY <1>1 DEF IInv, Windows, Used
  <2> QED
    BY <2>1 DEF Good, WindowType, IsWindow, Rows
<1>2. \A s, t \in Slots : s # t /\ windows[s] # Free => windows[s].id # windows[t].id
  <2>1. ASSUME NEW s \in Slots, NEW t \in Slots, s # t, windows[s] # Free
        PROVE  windows[s].id # windows[t].id
    <3>1. s \in Used /\ windows[s].id \in 1 .. workload.created
      BY <2>1, UsedWindow DEF Used, WindowType
    <3>2. CASE windows[t] = Free
      BY <3>1, <3>2 DEF Free
    <3>3. CASE windows[t] # Free
      BY <2>1, <3>1, <3>3 DEF IInv, Windows, Used
    <3> QED
      BY <3>2, <3>3
  <2> QED
    BY <2>1
<1>3. reading = NotReading \/
          (reading.rows \subseteq UNION {1 .. h : h \in Heights} /\ reading.tags \subseteq Tags)
  BY DEF IInv, Reading, Rows
<1> QED
  BY <1>1, <1>2, <1>3 DEF IInv, Counters, TypeOK

LEMMA IInvInformed == IInv => ClientsInformed
<1> SUFFICES ASSUME IInv PROVE ClientsInformed
  OBVIOUS
<1>1. TypeOK
  BY IInvTypeOK
<1>2. ASSUME NEW s \in Used
      PROVE  /\ windows[s].configure_pending \/ windows[s].told = windows[s].size
             /\ windows[s].focus_pending \/ windows[s].toldFlags = windows[s].flags
             /\ windows[s].pid \in alive /\ server \in alive \ {windows[s].pid}
  BY UsedWindow DEF Informed, IInv, Windows
<1>3. \A s, t \in Used : windows[s].flags.focused /\ windows[t].flags.focused => s = t
  BY DEF IInv, Windows
<1> QED
  BY <1>1, <1>2, <1>3 DEF ClientsInformed

\* However clients upload, commit and end between two reads of the server: what
\* is shown is a whole frame, and what it reads under one generation is one too
\* (window_syscall's UPLOAD, COMMIT, ENUM and READ).
THEOREM FramesAreWhole ==
    ASSUME ConsoleAssumption, WindowAssumption PROVE Spec => []WholeFrames
BY WindowInvariant, IInvWholeFrames, PTL

\* A client is told of its window's size, serial and flags by POLL or knows them,
\* lives together with the server, and at most one window has the focus
\* (window_syscall's CONFIGURE, window_task_release); and every value has its type.
THEOREM ClientsAreTold ==
    ASSUME ConsoleAssumption, WindowAssumption PROVE Spec => []ClientsInformed
BY WindowInvariant, IInvInformed, PTL

-----------------------------------------------------------------------------
(***************************************************************************)
(* What events say                                                         *)
(***************************************************************************)
\* Least elements, of any set of numbers.
LEMMA LeastNumber ==
    ASSUME NEW S \in SUBSET Nat, S # {} PROVE \E x \in S : \A y \in S : x <= y
<1>1. PICK n \in S : TRUE
  OBVIOUS
<1> DEFINE T == {y \in S : y <= n}
<1>2. n \in T /\ T \in SUBSET Nat /\ n \in Nat
  <2>1. n \in Nat /\ n <= n
    BY <1>1
  <2> QED
    BY <1>1, <2>1
<1>3. IsFiniteSet(T)
  <2>1. \A s \in T : s <= n
    OBVIOUS
  <2> HIDE DEF T
  <2> QED
    BY <1>2, <2>1, FS_BoundedSetOfNaturals
<1>4. PICK x \in T : \A y \in T : x <= y
  <2> HIDE DEF T
  <2> QED
    BY <1>2, <1>3, LeastOf
<1>5. ASSUME NEW y \in S PROVE x <= y
  BY <1>2, <1>4
<1> QED
  BY <1>4, <1>5

\* What is known after each event, from none to all of them.
Level(q, f, i) == IF i = 0 THEN NothingYet ELSE Noticed(f[i - 1], q[i])
Steps(q, n, f) == f = [i \in 0 .. n |-> Level(q, f, i)]

LEMMA StepsExist == ASSUME NEW q, NEW n \in Nat PROVE \E f : Steps(q, n, f)
<1> DEFINE Bad == {m \in Nat : ~ \E f : Steps(q, m, f)}
<1>1. ASSUME n \in Bad PROVE FALSE
  <2>1. PICK m \in Bad : \A k \in Bad : m <= k
    <3> HIDE DEF Bad
    <3>1. Bad \in SUBSET Nat
      BY DEF Bad
    <3> QED
      BY <1>1, <3>1, LeastNumber
  <2>2. m \in Nat /\ ~ \E f : Steps(q, m, f)
    OBVIOUS
  <2>3. CASE m = 0
    <3> DEFINE f == [i \in 0 .. 0 |-> NothingYet]
    <3>1. \A i \in 0 .. 0 : i = 0
      OBVIOUS
    <3>2. Steps(q, 0, f)
      BY <3>1 DEF Steps, Level
    <3> QED
      BY <2>2, <2>3, <3>2
  <2>4. CASE m # 0
    <3>1. m - 1 \in Nat /\ ~(m <= m - 1)
      BY <2>2, <2>4
    <3>2. m - 1 \notin Bad
      BY <2>1, <3>1
    <3>3. PICK f : Steps(q, m - 1, f)
      BY <3>1, <3>2
    <3> DEFINE g == [i \in 0 .. m |-> IF i = m THEN Level(q, f, m) ELSE f[i]]
    <3>4. ASSUME NEW i \in 0 .. m PROVE g[i] = Level(q, g, i)
      <4>1. i # 0 => g[i - 1] = f[i - 1]
        <5>1. i # 0 => i - 1 \in 0 .. m /\ i - 1 # m
          BY <2>2
        <5> QED
          BY <5>1
      <4>2. Level(q, g, i) = Level(q, f, i)
        BY <4>1 DEF Level
      <4>3. CASE i = m
        BY <4>2, <4>3
      <4>4. CASE i # m
        <5>1. i \in 0 .. m - 1
          BY <2>2, <4>4
        <5>2. f[i] = Level(q, f, i)
          BY <3>3, <5>1, Zenon DEF Steps
        <5> QED
          BY <4>2, <4>4, <5>2
      <4> QED
        BY <4>3, <4>4
    <3>5. g = [i \in 0 .. m |-> g[i]]
      OBVIOUS
    <3> HIDE DEF g
    <3>6. Steps(q, m, g)
      BY <3>4, <3>5 DEF Steps
    <3> QED
      BY <2>2, <3>6
  <2> QED
    BY <2>3, <2>4
<1> QED
  BY <1>1

\* Two that begin alike know the same where they do.
LEMMA StepsAgree ==
    ASSUME NEW q, NEW r, NEW n \in Nat, NEW m \in Nat, n <= m,
           \A i \in 1 .. n : q[i] = r[i],
           NEW f, NEW g, Steps(q, n, f), Steps(r, m, g)
    PROVE  \A i \in 0 .. n : f[i] = g[i]
<1> DEFINE Bad == {i \in 0 .. n : f[i] # g[i]}
<1>1. ASSUME NEW j \in Bad PROVE FALSE
  <2>1. PICK i \in Bad : \A k \in Bad : i <= k
    <3> HIDE DEF Bad
    <3>1. Bad \in SUBSET Nat
      BY DEF Bad
    <3> QED
      BY <1>1, <3>1, LeastNumber
  <2>2. i \in 0 .. n /\ i \in 0 .. m /\ f[i] # g[i] /\ (i # 0 => i \in 1 .. n)
    OBVIOUS
  <2>3. f[i] = Level(q, f, i) /\ g[i] = Level(r, g, i)
    BY <2>2, Zenon DEF Steps
  <2>4. i # 0 => f[i - 1] = g[i - 1]
    <3>1. i # 0 => i - 1 \in 0 .. n /\ ~(i <= i - 1)
      BY <2>2
    <3> QED
      BY <2>1, <3>1
  <2>5. Level(q, f, i) = Level(r, g, i)
    BY <2>2, <2>4 DEF Level
  <2> QED
    BY <2>2, <2>3, <2>5
<1> QED
  BY <1>1

LEMMA SayIs == ASSUME NEW q, Len(q) \in Nat PROVE \E f : Steps(q, Len(q), f) /\ Say(q) = f[Len(q)]
<1> DEFINE f == CHOOSE g : g = [i \in 0 .. Len(q) |-> Level(q, g, i)]
<1>1. \E g : g = [i \in 0 .. Len(q) |-> Level(q, g, i)]
  BY StepsExist DEF Steps
<1>2. f = [i \in 0 .. Len(q) |-> Level(q, f, i)]
  <2> HIDE DEF Level
  <2> QED
    BY <1>1
<1>3. Say(q) = f[Len(q)]
  BY DEF Say, Level
<1> QED
  BY <1>2, <1>3 DEF Steps

\* One event more.
LEMMA SayMore ==
    ASSUME NEW q \in Seq(Event), NEW e \in Event
    PROVE  Say(Append(q, e)) = Noticed(Say(q), e)
<1> DEFINE n == Len(q)
           r == Append(q, e)
<1>1. n \in Nat /\ r \in Seq(Event) /\ Len(r) = n + 1 /\ r[n + 1] = e /\ \A i \in 1 .. n : q[i] = r[i]
  BY AppendProperties, LenProperties
<1> HIDE DEF n, r
<1>2. PICK f : Steps(q, n, f) /\ Say(q) = f[n]
  BY <1>1, SayIs DEF n
<1>3. PICK g : Steps(r, n + 1, g) /\ Say(r) = g[n + 1]
  <2>1. Len(r) \in Nat
    BY <1>1
  <2> QED
    BY <1>1, <2>1, SayIs
<1>4. \A i \in 0 .. n : f[i] = g[i]
  <2> DEFINE m == n + 1
  <2>1. m \in Nat /\ n <= m /\ Steps(r, m, g)
    BY <1>1, <1>3
  <2> HIDE DEF m
  <2> QED
    BY <1>1, <1>2, <2>1, StepsAgree
<1>5. g[n + 1] = Noticed(g[n], e)
  <2>1. n + 1 \in 0 .. n + 1 /\ n + 1 # 0 /\ n + 1 - 1 = n
    BY <1>1
  <2>2. g[n + 1] = Level(r, g, n + 1)
    BY <1>3, <2>1, Zenon DEF Steps
  <2> QED
    BY <1>1, <2>1, <2>2 DEF Level
<1>6. n \in 0 .. n
  BY <1>1
<1> QED
  BY <1>2, <1>3, <1>4, <1>5, <1>6 DEF r

\* What is known after one event.
LEMMA NoticedTwice ==
    ASSUME NEW known, NEW d \in Event, NEW e \in Event,
           d.kind = "pointer", e.kind = "pointer", ~d.wheel, ~e.wheel, d.down = e.down
    PROVE  /\ Noticed(known, e) = Noticed(known, d)
           /\ Noticed(Noticed(known, d), e) = Noticed(known, d)
<1>1. Noticed(known, e) = Noticed(known, d)
  <2>1. d.wheel \in BOOLEAN /\ e.wheel \in BOOLEAN
    BY DEF Event, KeyEvent, PointerEvents
  <2>2. d.wheel = FALSE /\ e.wheel = FALSE /\ d.kind # "key" /\ e.kind # "key"
    BY <2>1
  <2> QED
    BY <2>2 DEF Noticed
<1> DEFINE more == Noticed(known, d)
           list == IF known.down # {d.down} THEN Append(known.changes, <<"pointer", d.down, d.wheel>>)
                   ELSE known.changes
<1>2. more = [changes |-> list, down |-> {d.down}]
  BY DEF Noticed
<1> HIDE DEF list, more
<1>3. more.changes = list /\ more.down = {d.down}
  BY <1>2
<1>4. Noticed(more, e) = [changes |-> more.changes, down |-> {e.down}]
  BY <1>3 DEF Noticed
<1>5. Noticed(more, e) = more
  BY <1>2, <1>3, <1>4
<1> QED
  BY <1>1, <1>5 DEF more

\* Motion in the place of motion says the same, and so does motion after motion.
LEMMA MotionSaysNothing ==
    ASSUME NEW q \in Seq(Event), q # <<>>, NEW e \in Event,
           q[Len(q)].kind = "pointer", e.kind = "pointer", ~q[Len(q)].wheel, ~e.wheel,
           q[Len(q)].down = e.down
    PROVE  Say([q EXCEPT ![Len(q)] = e]) = Say(q) /\ Say(Append(q, e)) = Say(q)
<1> DEFINE n == Len(q)
<1>1. PICK f \in Seq(Event), d \in Event : q = Append(f, d)
  BY SequenceEmptyOrAppend
<1>2. /\ Len(f) \in Nat /\ n = Len(f) + 1 /\ q[n] = d /\ \A i \in 1 .. Len(f) : q[i] = f[i]
  BY <1>1, AppendProperties, LenProperties
<1> DEFINE r == Append(f, e)
           p == [q EXCEPT ![n] = e]
<1>3. /\ r \in Seq(Event) /\ Len(r) = n /\ r[n] = e /\ \A i \in 1 .. Len(f) : r[i] = f[i]
  BY <1>2, AppendProperties
<1>4. n \in 1 .. Len(q) /\ n \in Nat
  BY <1>2
<1>5. p \in Seq(Event) /\ Len(p) = n /\ \A j \in 1 .. n : p[j] = IF j = n THEN e ELSE q[j]
  BY <1>4, ExceptSeq
<1> HIDE DEF p, r, n
<1>6. \A i \in 1 .. n : p[i] = r[i]
  BY <1>2, <1>3, <1>5
<1>7. p = r
  BY <1>3, <1>5, <1>6, SeqEqual
<1>8. Say(q) = Noticed(Say(f), d) /\ Say(r) = Noticed(Say(f), e) /\ Say(Append(q, e)) = Noticed(Say(q), e)
  BY <1>1, SayMore DEF r
<1>9. d.kind = "pointer" /\ ~d.wheel /\ d.down = e.down
  BY <1>2 DEF n
<1> QED
  BY <1>7, <1>8, <1>9, NoticedTwice DEF p, n

\* What was accepted for a window, what its client took and what waits for it.
Queue(sent, read, events, focused) ==
    /\ Say(sent) = Say(read \o events)
    /\ events # <<>> => sent # <<>> /\ events[Len(events)] = sent[Len(sent)]
    /\ (\E i \in 1 .. Len(events) : events[i] = KeyEvent) => focused

LEMMA EmptyQueue == ASSUME NEW focused PROVE Queue(<<>>, <<>>, <<>>, focused)
BY DEF Queue

\* Some events are taken.
LEMMA QueueTaken ==
    ASSUME NEW sent \in Seq(Event), NEW read \in Seq(Event), NEW events \in Seq(Event), NEW focused,
           Queue(sent, read, events, focused), NEW n \in 0 .. Len(events)
    PROVE  Queue(sent, read \o SubSeq(events, 1, n), SubSeq(events, n + 1, Len(events)), focused)
<1> DEFINE m == Len(events)
           head == SubSeq(events, 1, n)
           rest == SubSeq(events, n + 1, m)
<1>1. m \in Nat /\ \A i \in 1 .. m : events[i] \in Event
  BY ElementOfSeq, LenProperties
<1>2. head \in Seq(Event)
  <2>1. \A i \in 1 .. n : events[i] \in Event
    BY <1>1
  <2>2. 1 \in Int /\ n \in Int
    BY <1>1
  <2> QED
    BY <2>1, <2>2, SubSeqProperties
<1>3. /\ rest \in Seq(Event) /\ Len(rest) = m - n /\ \A i \in 1 .. m - n : rest[i] = events[n + i]
  <2> DEFINE a == n + 1
  <2>1. a \in Int /\ m \in Int /\ \A i \in a .. m : events[i] \in Event
    BY <1>1
  <2>2. /\ SubSeq(events, a, m) \in Seq(Event)
        /\ Len(SubSeq(events, a, m)) = IF a <= m THEN m - a + 1 ELSE 0
        /\ \A i \in 1 .. m - a + 1 : SubSeq(events, a, m)[i] = events[a + i - 1]
    <3> HIDE DEF a, m
    <3> QED
      BY <2>1, SubSeqProperties
  <2>3. m - a + 1 = m - n /\ (a <= m => m - a + 1 = m - n) /\ (~(a <= m) => m - n = 0)
    BY <1>1
  <2>4. \A i \in 1 .. m - n : a + i - 1 = n + i
    BY <1>1
  <2> HIDE DEF m
  <2> QED
    BY <2>2, <2>3, <2>4
<1>4. (read \o head) \o rest = read \o events
  <2>1. head \o rest = SubSeq(events, 1, m)
    <3>1. 1 \in 1 .. m + 1 /\ n \in 1 - 1 .. m /\ m \in n .. m
      BY <1>1
    <3> QED
      BY <3>1, ConcatAdjacentSubSeq
  <2>2. SubSeq(events, 1, m) = events
    BY SubSeqFull
  <2>3. (read \o head) \o rest = read \o (head \o rest)
    <3> HIDE DEF head, rest
    <3>1. read \in Seq(Event) /\ head \in Seq(Event) /\ rest \in Seq(Event)
      BY <1>2, <1>3
    <3> DEFINE E == Event
    <3> HIDE DEF E
    <3>2. ASSUME NEW a \in Seq(E), NEW b \in Seq(E), NEW c \in Seq(E) PROVE (a \o b) \o c = a \o (b \o c)
      BY ConcatAssociative
    <3>3. read \in Seq(E) /\ head \in Seq(E) /\ rest \in Seq(E)
      BY <3>1 DEF E
    <3> QED
      BY <3>2, <3>3, Zenon
  <2> QED
    BY <2>1, <2>2, <2>3
<1> HIDE DEF head, rest
<1>5. ASSUME rest # <<>> PROVE sent # <<>> /\ rest[Len(rest)] = sent[Len(sent)]
  <2>1. Len(rest) \in Nat \ {0}
    BY <1>3, <1>5, EmptySeq
  <2>2. m - n \in 1 .. m - n /\ n + (m - n) = m /\ m # 0
    BY <1>1, <1>3, <2>1
  <2>3. rest[Len(rest)] = events[m] /\ events # <<>>
    BY <1>3, <2>2, EmptySeq
  <2> QED
    BY <2>3 DEF Queue
<1>6. ASSUME NEW i \in 1 .. Len(rest), rest[i] = KeyEvent PROVE focused
  <2>1. i \in 1 .. m - n /\ n + i \in 1 .. m
    BY <1>1, <1>3
  <2>2. events[n + i] = KeyEvent
    BY <1>3, <1>6, <2>1
  <2> QED
    BY <2>1, <2>2 DEF Queue
<1>7. Queue(sent, read \o head, rest, focused)
  BY <1>4, <1>5, <1>6 DEF Queue
<1> QED
  BY <1>7 DEF head, rest

\* One more is accepted, as window_queue does.
LEMMA QueueSent ==
    ASSUME NEW sent \in Seq(Event), NEW read \in Seq(Event), NEW events \in Seq(Event), NEW focused,
           Queue(sent, read, events, focused), NEW e \in Event, e.kind = "key" => focused
    PROVE  /\ Queue(Append(sent, e), read, Append(events, e), focused)
           /\ events # <<>> /\ e.kind = "pointer" /\ ~e.wheel
              /\ events[Len(events)].kind = "pointer" /\ ~events[Len(events)].wheel
              /\ events[Len(events)].down = e.down =>
                   Queue(Append(sent, e), read, [events EXCEPT ![Len(events)] = e], focused)
<1> DEFINE n == Len(events)
           m == Len(sent)
           all == read \o events
           k == Len(all)
           more == Append(sent, e)
<1>1. /\ n \in Nat /\ m \in Nat /\ Len(read) \in Nat
      /\ all \in Seq(Event) /\ k = Len(read) + n /\ k \in Nat
      /\ \A i \in 1 .. Len(read) + n : all[i] = IF i <= Len(read) THEN read[i] ELSE events[i - Len(read)]
  BY LenProperties, ConcatProperties
<1>2. more \in Seq(Event) /\ more # <<>> /\ more[Len(more)] = e
  BY <1>1, AppendProperties
<1>3. e = KeyEvent => focused
  BY DEF KeyEvent
<1> HIDE DEF more, all
<1>4. Queue(more, read, Append(events, e), focused)
  <2> DEFINE q == Append(events, e)
  <2>1. q \in Seq(Event) /\ q # <<>> /\ Len(q) = n + 1 /\ q[n + 1] = e /\ \A i \in 1 .. n : q[i] = events[i]
    BY AppendProperties
  <2>2. read \o q = Append(all, e)
    <3>1. q = events \o <<e>>
      BY AppendIsConcat
    <3>2. Append(all, e) = all \o <<e>>
      BY <1>1, AppendIsConcat
    <3>3. <<e>> \in Seq(Event)
      OBVIOUS
    <3>4. all \o <<e>> = read \o (events \o <<e>>)
      BY <3>3, ConcatAssociative DEF all
    <3> QED
      BY <3>1, <3>2, <3>4
  <2>3. Say(more) = Say(read \o q)
    <3>1. Say(more) = Noticed(Say(sent), e) /\ Say(Append(all, e)) = Noticed(Say(all), e)
      BY <1>1, SayMore DEF more
    <3> QED
      BY <2>2, <3>1 DEF Queue, all
  <2> HIDE DEF q
  <2>4. ASSUME NEW i \in 1 .. Len(q), q[i] = KeyEvent PROVE focused
    <3>1. CASE i = n + 1
      BY <1>3, <2>1, <2>4, <3>1
    <3>2. CASE i # n + 1
      <4>1. i \in 1 .. n
        BY <1>1, <2>1, <3>2
      <4> QED
        BY <2>1, <2>4, <4>1 DEF Queue
    <3> QED
      BY <3>1, <3>2
  <2>5. Queue(more, read, q, focused)
    BY <1>2, <2>1, <2>3, <2>4 DEF Queue
  <2> QED
    BY <2>5 DEF q
<1>5. ASSUME events # <<>>, e.kind = "pointer", ~e.wheel,
             events[n].kind = "pointer", ~events[n].wheel, events[n].down = e.down
      PROVE  Queue(more, read, [events EXCEPT ![n] = e], focused)
  <2> DEFINE q == [events EXCEPT ![n] = e]
             p == [all EXCEPT ![k] = e]
  <2>1. n \in 1 .. n /\ n # 0 /\ k \in 1 .. k
    BY <1>1, <1>5, EmptySeq
  <2>2. q \in Seq(Event) /\ Len(q) = n /\ \A j \in 1 .. n : q[j] = IF j = n THEN e ELSE events[j]
    BY <2>1, ExceptSeq
  <2>3. p \in Seq(Event) /\ Len(p) = k /\ \A j \in 1 .. k : p[j] = IF j = k THEN e ELSE all[j]
    BY <1>1, <2>1, ExceptSeq
  <2> HIDE DEF q, p
  <2>4. q # <<>>
    BY <2>1, <2>2, EmptySeq
  <2>5. read \o q = p
    <3> DEFINE r == read \o q
    <3>1. r \in Seq(Event) /\ Len(r) = k
          /\ \A i \in 1 .. Len(read) + n : r[i] = IF i <= Len(read) THEN read[i] ELSE q[i - Len(read)]
      <4>1. r \in Seq(Event) /\ Len(r) = Len(read) + Len(q)
            /\ \A i \in 1 .. Len(read) + Len(q) : r[i] = IF i <= Len(read) THEN read[i] ELSE q[i - Len(read)]
        BY <2>2, ConcatProperties
      <4> QED
        BY <1>1, <2>2, <4>1
    <3> HIDE DEF r
    <3>2. ASSUME NEW i \in 1 .. k PROVE r[i] = p[i]
      <4>1. CASE i <= Len(read)
        <5>1. i # k
          BY <1>1, <2>1, <4>1
        <5> QED
          BY <1>1, <2>3, <3>1, <4>1, <5>1
      <4>2. CASE ~(i <= Len(read))
        <5>1. i - Len(read) \in 1 .. n /\ (i - Len(read) = n <=> i = k)
          BY <1>1, <4>2
        <5>2. r[i] = q[i - Len(read)] /\ all[i] = events[i - Len(read)]
          BY <1>1, <3>1, <4>2
        <5> QED
          BY <2>2, <2>3, <5>1, <5>2
      <4> QED
        BY <4>1, <4>2
    <3> QED
      BY <2>3, <3>1, <3>2, SeqEqual DEF r
  <2>6. all # <<>> /\ all[k] = events[n]
    <3>1. k # 0 /\ k \in 1 .. Len(read) + n /\ ~(k <= Len(read)) /\ k - Len(read) = n
      BY <1>1, <2>1
    <3> QED
      BY <1>1, <3>1, EmptySeq
  <2>7. Say(p) = Say(all)
    BY <1>1, <1>5, <2>6, MotionSaysNothing DEF p
  <2>8. sent # <<>> /\ events[n] = sent[m]
    BY <1>5 DEF Queue
  <2>9. Say(more) = Say(sent)
    BY <1>5, <2>8, MotionSaysNothing DEF more
  <2>10. Say(more) = Say(read \o q)
    BY <2>5, <2>7, <2>9 DEF Queue, all
  <2>11. q[n] = e /\ q[Len(q)] = more[Len(more)]
    BY <1>2, <2>1, <2>2
  <2>12. ASSUME NEW i \in 1 .. Len(q), q[i] = KeyEvent PROVE focused
    BY <1>3, <2>2, <2>12 DEF Queue
  <2>13. Queue(more, read, q, focused)
    BY <1>2, <2>10, <2>11, <2>12 DEF Queue
  <2> QED
    BY <2>13 DEF q
<1> QED
  BY <1>4, <1>5 DEF more

-----------------------------------------------------------------------------
(***************************************************************************)
(* What the queues of the devices end with                                 *)
(***************************************************************************)
States(keys) == {i \in DOMAIN keys : keys[i].kind = "modifiers"}
KeysFresh(keys, held, seen) ==
    /\ States(keys) = {} => seen \subseteq {held}
    /\ \A i \in States(keys) : (\A j \in States(keys) : i >= j) => keys[i].alt = held
PointerFresh(p) == (IF p.queue = <<>> THEN p.seen ELSE {p.queue[Len(p.queue)].down}) \subseteq {p.buttons}

LEMMA FreshParts ==
    /\ FreshestState <=> KeysFresh(input, alt, seenAlt) /\ PointerFresh(Pointer)
    /\ FreshestState' <=> KeysFresh(input, alt, seenAlt)' /\ PointerFresh(Pointer)'
BY DEF FreshestState, KeysFresh, States, PointerFresh, Pointer

LEMMA PointerNow == ASSUME NEW p, SetPointer(p), PointerFresh(p) PROVE PointerFresh(Pointer)'
BY DEF SetPointer, PointerFresh, Pointer

LEMMA NothingFresh == PointerFresh(pointer_reset) /\ \A held : KeysFresh(<<>>, held, {})
<1>1. PointerFresh(pointer_reset)
  BY DEF PointerFresh, pointer_reset
<1>2. ASSUME NEW held PROVE KeysFresh(<<>>, held, {})
  <2>1. States(<<>>) = {}
    BY DEF States
  <2> QED
    BY <2>1 DEF KeysFresh
<1> QED
  BY <1>1, <1>2

LEMMA KeyQueued ==
    ASSUME NEW keys \in Seq(Key), Len(keys) <= KeyRoom, NEW held, NEW seen, KeysFresh(keys, held, seen),
           NEW k \in Key
    PROVE  KeysFresh(queue_key(keys, k), IF k.kind = "modifiers" THEN k.alt ELSE held, seen)
<1>1. KeyRoom \in Nat \ {0} /\ Len(keys) \in Nat /\ DOMAIN keys = 1 .. Len(keys)
  BY ConsoleAssumption, LenProperties
<1>2. ASSUME NEW q \in Seq(Key), k.kind = "modifiers"
      PROVE  KeysFresh(Append(q, k), k.alt, seen)
  <2> DEFINE r == Append(q, k)
             n == Len(q) + 1
  <2>1. n \in Nat /\ r \in Seq(Key) /\ Len(r) = n /\ r[n] = k /\ n \in 1 .. n
    BY AppendProperties, LenProperties
  <2>2. DOMAIN r = 1 .. n
    BY <2>1, LenProperties
  <2> HIDE DEF r, n
  <2>3. n \in States(r)
    BY <1>2, <2>1, <2>2 DEF States
  <2>4. ASSUME NEW i \in States(r), \A j \in States(r) : i >= j PROVE r[i] = k
    <3>1. i \in 1 .. n /\ i >= n
      BY <2>2, <2>3, <2>4 DEF States
    <3>2. i = n
      BY <2>1, <3>1
    <3> QED
      BY <2>1, <3>2
  <2>5. KeysFresh(r, k.alt, seen)
    BY <2>3, <2>4 DEF KeysFresh
  <2> QED
    BY <2>5 DEF r
<1>3. CASE Len(keys) < KeyRoom /\ k.kind # "modifiers"
  <2> DEFINE r == Append(keys, k)
             n == Len(keys)
  <2>1. n \in Nat /\ r \in Seq(Key) /\ Len(r) = n + 1 /\ r[n + 1] = k /\ \A i \in 1 .. n : r[i] = keys[i]
    BY <1>1, AppendProperties
  <2>2. DOMAIN r = 1 .. n + 1 /\ DOMAIN keys = 1 .. n
    BY <1>1, <2>1, LenProperties
  <2>3. queue_key(keys, k) = r
    BY <1>3 DEF queue_key
  <2> HIDE DEF r, n
  <2>4. States(r) = States(keys) /\ \A i \in States(r) : r[i] = keys[i]
    <3>1. \A i \in 1 .. n + 1 : i \in 1 .. n \/ i = n + 1
      BY <2>1
    <3>2. \A i \in 1 .. n : i \in 1 .. n + 1
      BY <2>1
    <3> QED
      BY <1>3, <2>1, <2>2, <3>1, <3>2 DEF States
  <2> QED
    BY <1>3, <2>3, <2>4 DEF KeysFresh
<1>4. CASE Len(keys) < KeyRoom /\ k.kind = "modifiers"
  BY <1>2, <1>4 DEF queue_key
<1>5. CASE ~(Len(keys) < KeyRoom) /\ k.kind = "modifiers"
  <2>1. keys # <<>>
    BY <1>1, <1>5, EmptySeq
  <2>2. Tail(keys) \in Seq(Key)
    BY <2>1, HeadTailProperties
  <2> QED
    BY <1>2, <1>5, <2>2 DEF queue_key
<1>6. CASE ~(Len(keys) < KeyRoom) /\ k.kind # "modifiers"
  BY <1>6 DEF queue_key
<1> QED
  BY <1>3, <1>4, <1>5, <1>6

\* The first keys are read, or passed over.
LEMMA KeysPassed ==
    ASSUME NEW keys \in Seq(Key), NEW held, NEW seen, KeysFresh(keys, held, seen),
           NEW n \in 0 .. Len(keys), NEW last,
           \A i \in 1 .. n : keys[i].kind = "modifiers"
               /\ (\A j \in 1 .. n : keys[j].kind = "modifiers" => i >= j) => last = {keys[i].alt},
           (\A i \in 1 .. n : keys[i].kind # "modifiers") => last = seen
    PROVE  KeysFresh(SubSeq(keys, n + 1, Len(keys)), held, last)
<1> DEFINE m == Len(keys)
           rest == SubSeq(keys, n + 1, m)
           Passed == {i \in 1 .. n : keys[i].kind = "modifiers"}
<1>1. m \in Nat /\ n \in Nat /\ n <= m /\ DOMAIN keys = 1 .. m /\ \A i \in 1 .. m : keys[i] \in Key
  BY ElementOfSeq, LenProperties
<1>2. rest \in Seq(Key) /\ Len(rest) = m - n /\ \A i \in 1 .. m - n : rest[i] = keys[n + i]
  <2> DEFINE a == n + 1
  <2>1. a \in Int /\ m \in Int /\ \A i \in a .. m : keys[i] \in Key
    BY <1>1
  <2>2. /\ SubSeq(keys, a, m) \in Seq(Key)
        /\ Len(SubSeq(keys, a, m)) = IF a <= m THEN m - a + 1 ELSE 0
        /\ \A i \in 1 .. m - a + 1 : SubSeq(keys, a, m)[i] = keys[a + i - 1]
    <3> HIDE DEF a, m
    <3> QED
      BY <2>1, SubSeqProperties
  <2>3. m - a + 1 = m - n /\ (a <= m => m - a + 1 = m - n) /\ (~(a <= m) => m - n = 0)
    <3>1. m \in Nat /\ n \in Nat /\ n <= m
      BY <1>1
    <3> HIDE DEF m
    <3> QED
      BY <3>1 DEF a
  <2>4. \A i \in 1 .. m - n : a + i - 1 = n + i
    BY <1>1
  <2> HIDE DEF m
  <2> QED
    BY <2>2, <2>3, <2>4
<1>3. DOMAIN rest = 1 .. m - n
  BY <1>2, LenProperties
<1> HIDE DEF rest, m
<1>4. \A i \in States(rest) : n + i \in States(keys) /\ rest[i] = keys[n + i] /\ i \in Nat
  <2>1. \A i \in 1 .. m - n : n + i \in 1 .. m
    BY <1>1
  <2> QED
    BY <1>1, <1>2, <1>3, <2>1 DEF States
<1>5. \A j \in States(keys) : j \in 1 .. m /\ (j > n => j - n \in States(rest))
  <2> SUFFICES ASSUME NEW j \in States(keys) PROVE j \in 1 .. m /\ (j > n => j - n \in States(rest))
    OBVIOUS
  <2>1. j \in 1 .. m /\ keys[j].kind = "modifiers"
    BY <1>1 DEF States
  <2>2. ASSUME j > n PROVE j - n \in States(rest)
    <3>1. j - n \in 1 .. m - n /\ n + (j - n) = j
      BY <1>1, <2>1, <2>2
    <3>2. rest[j - n] = keys[j]
      BY <1>2, <3>1
    <3> QED
      BY <1>3, <2>1, <3>1, <3>2 DEF States
  <2> QED
    BY <2>1, <2>2
<1>6. ASSUME States(rest) = {} PROVE last \subseteq {held}
  <2>1. States(keys) = Passed
    <3>1. \A j \in States(keys) : j \in 1 .. n
      BY <1>1, <1>5, <1>6
    <3>2. \A j \in 1 .. n : j \in DOMAIN keys
      BY <1>1
    <3> QED
      BY <3>1, <3>2 DEF States
  <2>2. CASE Passed = {}
    BY <2>1, <2>2 DEF KeysFresh
  <2>3. CASE Passed # {}
    <3>1. PICK i \in Passed : \A j \in Passed : i >= j
      BY <1>1, <2>3, Extremes
    <3>2. keys[i].alt = held
      BY <2>1, <3>1 DEF KeysFresh
    <3>3. last = {keys[i].alt}
      BY <3>1
    <3> QED
      BY <3>2, <3>3
  <2> QED
    BY <2>2, <2>3
<1>7. ASSUME NEW i \in States(rest), \A j \in States(rest) : i >= j PROVE rest[i].alt = held
  <2>1. n + i \in States(keys) /\ rest[i] = keys[n + i] /\ i \in Nat
    BY <1>4
  <2>2. ASSUME NEW j \in States(keys) PROVE n + i >= j
    <3>1. j \in 1 .. m /\ (j > n => i >= j - n)
      BY <1>5, <1>7
    <3> QED
      BY <1>1, <2>1, <3>1
  <2> QED
    BY <2>1, <2>2 DEF KeysFresh
<1>8. KeysFresh(rest, held, last)
  BY <1>6, <1>7 DEF KeysFresh
<1> QED
  BY <1>8 DEF rest, m

LEMMA ReadKeyFresh == ASSUME ConsoleTypeOK, FreshestState, NEW p, ReadKey(p) PROVE FreshestState'
<1>1. /\ input \in Seq(Key) /\ input # <<>> /\ input' = Tail(input) /\ alt' = alt
      /\ seenAlt' = Noted(Head(input), seenAlt) /\ UNCHANGED pointer
  BY DEF ReadKey, ConsoleTypeOK
<1>2. Tail(input) = SubSeq(input, 1 + 1, Len(input)) /\ Head(input) = input[1]
  <2>1. 1 + 1 = 2
    OBVIOUS
  <2> QED
    BY <1>1, <2>1, TailIsSubSeq
<1>3. 1 \in 0 .. Len(input) /\ 1 .. 1 = {1}
  <2>1. Len(input) \in Nat \ {0}
    BY <1>1, EmptySeq
  <2> QED
    BY <2>1
<1> DEFINE n == 1
           last == Noted(input[1], seenAlt)
<1>4. /\ \A i \in 1 .. n : input[i].kind = "modifiers"
           /\ (\A j \in 1 .. n : input[j].kind = "modifiers" => i >= j) => last = {input[i].alt}
      /\ (\A i \in 1 .. n : input[i].kind # "modifiers") => last = seenAlt
  BY <1>3 DEF Noted
<1>5. n \in 0 .. Len(input)
  BY <1>3
<1>6. KeysFresh(input, alt, seenAlt)
  BY FreshParts
<1>7. Tail(input) = SubSeq(input, n + 1, Len(input))
  BY <1>2
<1> HIDE DEF n, last
<1>8. KeysFresh(SubSeq(input, n + 1, Len(input)), alt, last)
  BY <1>1, <1>4, <1>5, <1>6, KeysPassed
<1>9. KeysFresh(input, alt, seenAlt)'
  <2>1. seenAlt' = last
    BY <1>1, <1>2 DEF last
  <2> QED
    BY <1>1, <1>7, <1>8, <2>1 DEF KeysFresh, States
<1>10. PointerFresh(Pointer)'
  BY <1>1, FreshParts DEF PointerFresh, Pointer, pointer
<1> QED
  BY <1>9, <1>10, FreshParts

LEMMA GetcFresh == ASSUME ConsoleTypeOK, FreshestState, console_getc PROVE FreshestState'
<1> DEFINE chars == {i \in DOMAIN input : input[i].kind = "char"}
           n == IF chars = {} THEN Len(input) ELSE CHOOSE i \in chars : \A j \in chars : i <= j
           passed == {i \in 1 .. n : input[i].kind = "modifiers"}
           final == CHOOSE i \in passed : \A j \in passed : i >= j
           last == IF passed = {} THEN seenAlt ELSE {input[final].alt}
<1>1. /\ input \in Seq(Key) /\ input' = SubSeq(input, n + 1, Len(input)) /\ alt' = alt
      /\ seenAlt' = last /\ UNCHANGED pointer
  BY DEF console_getc, ConsoleTypeOK
<1>2. Len(input) \in Nat /\ DOMAIN input = 1 .. Len(input)
  BY <1>1, LenProperties
<1>3. n \in 0 .. Len(input)
  <2>1. CASE chars = {}
    BY <1>2, <2>1
  <2>2. CASE chars # {}
    <3>1. \E i \in chars : \A j \in chars : i <= j
      BY <1>2, <2>2, Extremes
    <3>2. n \in chars
      BY <2>2, <3>1
    <3>3. n \in DOMAIN input
      BY <3>2
    <3> HIDE DEF n
    <3> QED
      BY <1>2, <3>3
  <2> QED
    BY <2>1, <2>2
<1> HIDE DEF n
<1>4. n \in Nat
  BY <1>2, <1>3
<1>5. ASSUME NEW i \in 1 .. n, input[i].kind = "modifiers",
             \A j \in 1 .. n : input[j].kind = "modifiers" => i >= j
      PROVE  last = {input[i].alt}
  <2>1. i \in passed
    BY <1>5
  <2>2. \E a \in passed : \A j \in passed : a >= j
    BY <1>4, <2>1, Extremes
  <2>3. final \in passed /\ final >= i
    BY <2>1, <2>2
  <2>4. final = i
    <3> HIDE DEF final
    <3>1. final \in 1 .. n /\ i >= final
      BY <1>5, <2>3
    <3> QED
      BY <1>4, <2>3, <3>1
  <2> QED
    BY <2>1, <2>4
<1>6. (\A i \in 1 .. n : input[i].kind # "modifiers") => last = seenAlt
  OBVIOUS
<1> HIDE DEF last
<1>7. KeysFresh(input, alt, seenAlt)
  BY FreshParts
<1>8. KeysFresh(SubSeq(input, n + 1, Len(input)), alt, last)
  BY <1>1, <1>3, <1>5, <1>6, <1>7, KeysPassed
<1>9. KeysFresh(input, alt, seenAlt)'
  BY <1>1, <1>8 DEF KeysFresh, States
<1>10. PointerFresh(Pointer)'
  BY <1>1, FreshParts DEF PointerFresh, Pointer, pointer
<1> QED
  BY <1>9, <1>10, FreshParts

LEMMA PushedFresh ==
    ASSUME NEW p, PointerOK(p), PointerFresh(p), NEW r \in Report PROVE PointerFresh(Pushed(p, r))
<1> DEFINE n == Len(p.queue)
           same == r.down = p.buttons
<1>1. p \in PointerType /\ p.queue \in Seq(Report) /\ n \in Nat /\ n <= PointerRoom /\ PointerRoom \in Nat \ {0}
  BY ConsoleAssumption, LenProperties DEF PointerOK, PointerType
<1>2. CASE same /\ p.merge /\ n > 0
  <2> DEFINE e == [p.queue[n] EXCEPT !.at = r.at]
             q == [p.queue EXCEPT ![n] = e]
  <2>1. n \in 1 .. Len(p.queue) /\ p.queue[n] \in Report /\ p.queue # <<>>
    <3>1. n \in 1 .. Len(p.queue)
      BY <1>1, <1>2
    <3> QED
      BY <1>1, <1>2, <3>1, ElementOfSeq, EmptySeq
  <2>2. e \in Report /\ e.down = p.queue[n].down
    BY <2>1 DEF Report
  <2> HIDE DEF e
  <2>3. q \in Seq(Report) /\ Len(q) = n /\ q[n] = e
    BY <1>1, <2>1, <2>2, ExceptSeq
  <2>4. Pushed(p, r) = [p EXCEPT !.queue = q]
    BY <1>1, <1>2 DEF Pushed, PointerType, e
  <2> HIDE DEF q
  <2>5. Pushed(p, r).queue = q /\ Pushed(p, r).buttons = p.buttons
    BY <1>1, <2>4 DEF PointerType
  <2>6. q # <<>>
    BY <1>2, <2>3, EmptySeq
  <2> QED
    BY <2>1, <2>2, <2>3, <2>5, <2>6 DEF PointerFresh
<1>3. CASE ~(same /\ p.merge /\ n > 0)
  <2> DEFINE room == IF n = PointerRoom THEN Tail(p.queue) ELSE p.queue
  <2>1. room \in Seq(Report)
    <3>1. n = PointerRoom => Tail(p.queue) \in Seq(Report)
      <4>1. n = PointerRoom => p.queue # <<>>
        BY <1>1, EmptySeq
      <4> QED
        BY <1>1, <4>1, HeadTailProperties
    <3> QED
      BY <1>1, <3>1
  <2>2. Pushed(p, r) = [p EXCEPT !.queue = Append(room, r), !.buttons = r.down, !.merge = same]
    BY <1>3 DEF Pushed
  <2> HIDE DEF room
  <2> DEFINE q == Append(room, r)
  <2>3. q # <<>> /\ q[Len(q)] = r
    <3>1. Len(room) \in Nat
      BY <2>1, LenProperties
    <3> QED
      BY <2>1, <3>1, AppendProperties
  <2> HIDE DEF q, same
  <2>4. Pushed(p, r).queue = q /\ Pushed(p, r).buttons = r.down
    BY <1>1, <2>2 DEF PointerType, q
  <2> QED
    BY <2>3, <2>4 DEF PointerFresh
<1> QED
  BY <1>2, <1>3

LEMMA ReadPointerFresh == ASSUME ConsoleTypeOK, FreshestState, NEW p, ReadPointer(p) PROVE FreshestState'
<1>1. /\ queue \in Seq(Report) /\ queue # <<>> /\ queue' = Tail(queue) /\ seenButtons' = {Head(queue).down}
      /\ buttons' = buttons /\ UNCHANGED keyboard
  BY DEF ReadPointer, ConsoleTypeOK, SetPointer, Pointer
<1> DEFINE n == Len(queue)
<1>2. /\ n \in Nat \ {0} /\ Tail(queue) \in Seq(Report) /\ Len(Tail(queue)) = n - 1
      /\ \A i \in 1 .. n - 1 : Tail(queue)[i] = queue[i + 1]
      /\ Head(queue) = queue[1]
  BY <1>1, EmptySeq, HeadTailProperties
<1>3. queue[n].down = buttons
  BY <1>1, FreshParts DEF PointerFresh, Pointer
<1>4. CASE Tail(queue) = <<>>
  <2>1. n = 1
    <3>1. Len(Tail(queue)) = 0
      BY <1>2, <1>4, EmptySeq
    <3>2. n \in Nat \ {0} /\ n - 1 = 0
      BY <1>2, <3>1
    <3> HIDE DEF n
    <3> QED
      BY <3>2
  <2> QED
    BY <1>1, <1>2, <1>3, <1>4, <2>1, FreshParts DEF PointerFresh, Pointer, KeysFresh, States, keyboard
<1>5. CASE Tail(queue) # <<>>
  <2>1. n - 1 \in 1 .. n - 1 /\ n - 1 + 1 = n
    <3>1. Len(Tail(queue)) \in Nat \ {0}
      BY <1>2, <1>5, EmptySeq
    <3> QED
      BY <1>2, <3>1
  <2>2. Tail(queue)[Len(Tail(queue))] = queue[n]
    BY <1>2, <2>1
  <2>3. PointerFresh(Pointer)'
    BY <1>1, <1>3, <1>5, <2>2 DEF PointerFresh, Pointer
  <2>4. KeysFresh(input, alt, seenAlt)'
    BY <1>1, FreshParts DEF KeysFresh, States, keyboard
  <2> QED
    BY <2>3, <2>4, FreshParts
<1> QED
  BY <1>4, <1>5

\* Nothing moves, or only the screen does.
LEMMA FreshKept ==
    /\ KeysFresh(input, alt, seenAlt) /\ UNCHANGED keyboard => KeysFresh(input, alt, seenAlt)'
    /\ PointerFresh(Pointer) /\ UNCHANGED pointer => PointerFresh(Pointer)'
BY DEF KeysFresh, States, PointerFresh, Pointer, keyboard, pointer

LEMMA DroppedFresh == ASSUME InputDropped PROVE FreshestState'
<1>1. KeysFresh(input, alt, seenAlt)'
  <2>1. input' = <<>> /\ seenAlt' = {}
    BY DEF InputDropped
  <2> QED
    BY <2>1 DEF KeysFresh, States
<1>2. PointerFresh(Pointer)'
  BY NothingFresh, PointerNow DEF InputDropped
<1> QED
  BY <1>1, <1>2, FreshParts

LEMMA LeftFresh == ASSUME FreshestState, NEW p, LeaveScreen(p), UNCHANGED keyboard PROVE FreshestState'
<1>1. PointerFresh(Pointer)'
  BY FreshParts, FreshKept, NothingFresh, PointerNow DEF LeaveScreen
<1> QED
  BY <1>1, FreshParts, FreshKept

LEMMA PressFresh ==
    ASSUME ConsoleTypeOK, FreshestState, NEW k \in Keys, NEW idle \in BOOLEAN, Press(k, idle)
    PROVE  FreshestState'
<1> DEFINE keys == IF idle THEN <<>> ELSE input
           seen == IF idle THEN {} ELSE seenAlt
           held == IF k.kind = "modifiers" THEN k.alt ELSE alt
<1>1. keys \in Seq(Key) /\ Len(keys) <= KeyRoom
  BY ConsoleAssumption DEF ConsoleTypeOK
<1>2. KeysFresh(keys, alt, seen)
  BY FreshParts, NothingFresh
<1>3. k \in Key
  <2>1. Modifiers(~alt) \in Key
    <3> DEFINE up == ~alt
    <3>1. up \in BOOLEAN
      OBVIOUS
    <3> HIDE DEF up
    <3>2. [kind |-> "modifiers", alt |-> up] \in [kind : {"modifiers"}, alt : BOOLEAN]
      BY <3>1
    <3> QED
      BY <3>2 DEF Key, Modifiers, up
  <2>2. Char \in Key
    BY DEF Key, Char
  <2> QED
    BY <2>1, <2>2 DEF Keys
<1>4. input' = queue_key(keys, k) /\ alt' = held /\ seenAlt' = seen
  BY DEF Press, keyboard
<1> HIDE DEF keys, seen
<1>5. KeysFresh(queue_key(keys, k), held, seen)
  BY <1>1, <1>2, <1>3, KeyQueued
<1> HIDE DEF held
<1>6. KeysFresh(input, alt, seenAlt)'
  BY <1>4, <1>5 DEF KeysFresh, States
<1>7. PointerFresh(Pointer)'
  BY FreshParts, FreshKept, NothingFresh, PointerNow DEF Press
<1> QED
  BY <1>6, <1>7, FreshParts

LEMMA MoveFresh ==
    ASSUME ConsoleTypeOK, FreshestState, NEW r \in Report, NEW idle \in BOOLEAN, Move(r, idle)
    PROVE  FreshestState'
<1> DEFINE p == IF idle THEN pointer_reset ELSE Pointer
<1>1. PointerOK(p) /\ PointerFresh(p)
  BY ConsoleParts, PointerReset, FreshParts, NothingFresh
<1>2. SetPointer(Pushed(p, r))
  BY DEF Move
<1> HIDE DEF p
<1>3. PointerFresh(Pointer)'
  BY <1>1, <1>2, PushedFresh, PointerNow
<1>4. alt' = alt /\ (IF idle THEN input' = <<>> /\ seenAlt' = {} ELSE UNCHANGED <<input, seenAlt>>)
  BY DEF Move
<1>5. KeysFresh(input, alt, seenAlt)'
  BY <1>4, FreshParts DEF KeysFresh, States
<1> QED
  BY <1>3, <1>5, FreshParts

LEMMA AcquireFresh == ASSUME FreshestState, NEW p, NEW d, Acquire(p, d) PROVE FreshestState'
<1>1. PointerFresh(Pointer)'
  BY FreshParts, FreshKept, NothingFresh, PointerNow DEF Acquire
<1> QED
  BY <1>1, FreshParts, FreshKept DEF Acquire

LEMMA ScreenFresh == ASSUME ConsoleTypeOK, FreshestState, Screen PROVE FreshestState'
<1>1. ASSUME NEW p, NEW d, Acquire(p, d) PROVE FreshestState'
  BY <1>1, AcquireFresh
<1>2. ASSUME NEW p, Release(p) PROVE FreshestState'
  BY <1>2, LeftFresh DEF Release
<1>3. ASSUME NEW p, ReadKey(p) \/ ReadPointer(p) PROVE FreshestState'
  BY <1>3, ReadKeyFresh, ReadPointerFresh
<1> QED
  BY <1>1, <1>2, <1>3, GetcFresh DEF Screen

LEMMA NextFresh == IInv /\ FreshestState /\ [Next]_vars => FreshestState'
<1> SUFFICES ASSUME IInv, FreshestState, [Next]_vars PROVE FreshestState'
  OBVIOUS
<1>1. ConsoleTypeOK
  BY DEF IInv
<1>2. ASSUME UNCHANGED <<keyboard, pointer>> PROVE FreshestState'
  BY <1>2, FreshParts, FreshKept
<1>3. ASSUME UNCHANGED console PROVE FreshestState'
  BY <1>2, <1>3 DEF console
<1>4. ASSUME NEW p \in Procs, Start(p) \/ Exit(p) \/ Exec(p) \/ ServerAcquire(p) \/ ServerRelease(p)
      PROVE  FreshestState'
  <2>1. CASE Start(p)
    BY <1>2, <2>1 DEF Start
  <2>2. CASE Exit(p)
    BY <2>2, DroppedFresh, LeftFresh DEF Exit, EndScreen
  <2>3. CASE Exec(p)
    BY <2>3, LeftFresh DEF Exec
  <2>4. CASE ServerAcquire(p) \/ ServerRelease(p)
    BY <1>3, <2>4 DEF ServerAcquire, ServerRelease
  <2> QED
    BY <1>4, <2>1, <2>2, <2>3, <2>4
<1>5. ASSUME NEW p \in Procs, StdioWrite(p) \/ StdioRead(p) PROVE FreshestState'
  BY <1>3, <1>5 DEF StdioWrite, StdioRead
<1>6. ASSUME NEW p \in Procs, NEW h \in Heights, Create(p, h) PROVE FreshestState'
  BY <1>3, <1>6 DEF Create
<1>7. ASSUME NEW p \in Procs, NEW s \in Slots, Destroy(p, s) \/ Begin(p, s) \/ Commit(p, s) \/ Poll(p, s)
      PROVE  FreshestState'
  BY <1>3, <1>7 DEF Destroy, Begin, Commit, Poll
<1>8. ASSUME NEW p \in Procs, NEW s \in Slots,
             \/ \E y \in Rows : Upload(p, s, {y})
             \/ \E text \in {"stdio", "terminal"} : Bind(p, s, text)
      PROVE  FreshestState'
  BY <1>3, <1>8 DEF Upload, Bind
<1>9. ASSUME NEW s \in Slots, SendClose(s) \/ Enum(s) PROVE FreshestState'
  BY <1>3, <1>9 DEF SendClose, Enum
<1>10. ASSUME NEW s \in Slots, \E h \in Heights, f \in Flags : Configure(s, h, f) PROVE FreshestState'
  BY <1>3, <1>10 DEF Configure
<1>11. ASSUME NEW s \in Slots, (\E e \in Inputs : Send(s, e)) \/ \E y \in Rows : Read(s, y)
       PROVE  FreshestState'
  BY <1>3, <1>11 DEF Send, Read
<1>12. CASE Logout \/ Lock \/ Unlock \/ Device \/ Screen
  <2>1. CASE Logout
    BY <2>1, DroppedFresh DEF Logout, EndScreen
  <2>2. CASE Lock
    BY <2>2, DroppedFresh DEF Lock, console_session_lock
  <2>3. CASE Unlock
    BY <1>2, <2>3 DEF Unlock
  <2>4. CASE Device
    <3>1. PICK idle \in BOOLEAN : (\E k \in Keys : Press(k, idle)) \/ (\E r \in Report : Move(r, idle))
      BY <2>4 DEF Device
    <3> QED
      BY <1>1, <3>1, PressFresh, MoveFresh
  <2> QED
    BY <1>1, <1>12, <2>1, <2>2, <2>3, <2>4, ScreenFresh
<1>13. CASE UNCHANGED vars
  BY <1>3, <1>13 DEF vars
<1> QED
  BY <1>4, <1>5, <1>6, <1>7, <1>8, <1>9, <1>10, <1>11, <1>12, <1>13 DEF Next

-----------------------------------------------------------------------------
(***************************************************************************)
(* What the queues of the windows hold                                     *)
(***************************************************************************)
QueueKept(w) == Queue(w.sent, w.read, w.events, w.flags.focused)
Queues == \A s \in Used : QueueKept(windows[s]) /\ (locked => windows[s].events = <<>>)

Quiet(w) == w.sent = <<>> /\ w.read = <<>> /\ w.events = <<>>
Alike(w, v) == v.sent = w.sent /\ v.read = w.read /\ v.events = w.events /\ v.flags = w.flags

LEMMA QuietKept == ASSUME NEW w, Quiet(w) PROVE QueueKept(w) /\ w.events = <<>>
BY EmptyQueue DEF Quiet, QueueKept

LEMMA AlikeKept == ASSUME NEW w, NEW v, Alike(w, v), QueueKept(w) PROVE QueueKept(v)
BY DEF Alike, QueueKept

LEMMA EmptiedQuiet == ASSUME NEW w \in WindowType PROVE Quiet(Emptied(w)) /\ Emptied(w).flags = w.flags
BY DEF Quiet, Emptied, WindowType

\* Each window keeps its queue or loses it; with a lock they all do.
LEMMA QueuesStay ==
    ASSUME Queues,
           \A s \in Slots : windows'[s] # Free =>
               Quiet(windows'[s]) \/ (s \in Used /\ Alike(windows[s], windows'[s])),
           locked' => locked \/ \A s \in Slots : windows'[s] # Free => Quiet(windows'[s])
    PROVE  Queues'
<1> SUFFICES ASSUME NEW s \in Slots, windows'[s] # Free
             PROVE  QueueKept(windows'[s]) /\ (locked' => windows'[s].events = <<>>)
  BY DEF Queues, Used, QueueKept
<1>1. CASE Quiet(windows'[s])
  BY <1>1, QuietKept
<1>2. CASE ~Quiet(windows'[s])
  <2>1. s \in Used /\ Alike(windows[s], windows'[s]) /\ (locked' => locked)
    BY <1>2
  <2>2. QueueKept(windows'[s])
    BY <2>1, AlikeKept DEF Queues
  <2> QED
    BY <2>1, <2>2 DEF Queues, Alike
<1> QED
  BY <1>1, <1>2

\* One window has another queue.
LEMMA OneQueue ==
    ASSUME IInv, Queues, NEW s \in Slots, NEW v, Set(s, v), locked' = locked,
           v # Free => QueueKept(v) /\ (locked => v.events = <<>>)
    PROVE  Queues'
<1>1. windows'[s] = v /\ \A t \in Slots : t # s => windows'[t] = windows[t]
  BY DEF IInv, Windows, Set
<1>2. ASSUME NEW t \in Slots, windows'[t] # Free
      PROVE  QueueKept(windows'[t]) /\ (locked' => windows'[t].events = <<>>)
  <2>1. CASE t = s
    BY <1>1, <1>2, <2>1
  <2>2. CASE t # s
    <3>1. windows'[t] = windows[t] /\ t \in Used
      BY <1>1, <1>2, <2>2 DEF Used
    <3> QED
      BY <3>1 DEF Queues
  <2> QED
    BY <2>1, <2>2
<1> QED
  BY <1>2 DEF Queues, Used, QueueKept

LEMMA OneAlike ==
    ASSUME IInv, Queues, NEW s \in Used, NEW v, Set(s, v), locked' = locked,
           Alike(windows[s], v) \/ Quiet(v)
    PROVE  Queues'
<1>1. QueueKept(v) /\ (locked => v.events = <<>>)
  <2>1. CASE Quiet(v)
    BY <2>1, QuietKept
  <2>2. CASE Alike(windows[s], v)
    <3>1. QueueKept(windows[s]) /\ (locked => windows[s].events = <<>>)
      BY DEF Queues
    <3> QED
      BY <2>2, <3>1, AlikeKept DEF Alike
  <2> QED
    BY <2>1, <2>2
<1>2. s \in Slots
  BY DEF Used
<1> QED
  BY <1>1, <1>2, OneQueue

\* The client draws, and text is written.
LEMMA DrawingQueues ==
    ASSUME IInv, Queues, NEW p, NEW s,
           \/ Begin(p, s) \/ Commit(p, s) \/ (\E y \in Rows : Upload(p, s, {y}))
           \/ (\E text \in {"stdio", "terminal"} : Bind(p, s, text)) \/ SendClose(s)
    PROVE  Queues'
<1> DEFINE w == windows[s]
<1>1. s \in Used /\ locked' = locked
  BY DEF Begin, Commit, Upload, Bind, SendClose, Owned, console
<1>2. w \in WindowType
  BY <1>1, UsedWindow
<1>3. CASE Begin(p, s)
  <2> DEFINE b == Allocated(w.back, w.size.height)
             f == w.size.serial
             v == [w EXCEPT !.back = b, !.uploading = TRUE, !.frame_serial = f, !.tag = nextFrame,
                            !.covered = {}]
  <2>1. Set(s, v)
    BY <1>3 DEF Begin
  <2> HIDE DEF b, f
  <2>2. Alike(w, v)
    BY <1>2 DEF WindowType, Alike
  <2> HIDE DEF v
  <2> QED
    BY <1>1, <2>1, <2>2, OneAlike
<1>4. CASE Commit(p, s)
  <2> DEFINE u == [w EXCEPT !.uploading = FALSE]
             g == w.generation + 1
             v == [w EXCEPT !.front = w.back, !.back = w.front, !.uploading = FALSE, !.generation = g]
  <2>1. Set(s, u) \/ Set(s, v)
    BY <1>4 DEF Commit
  <2> HIDE DEF g
  <2>2. Alike(w, u) /\ Alike(w, v)
    BY <1>2 DEF WindowType, Alike
  <2> HIDE DEF u, v
  <2> QED
    BY <1>1, <2>1, <2>2, OneAlike
<1>5. ASSUME NEW y \in Rows, Upload(p, s, {y}) PROVE Queues'
  <2> DEFINE c == w.covered \cup {y}
             b == [z \in DOMAIN w.back |-> IF z \in {y} THEN w.tag ELSE w.back[z]]
             v == [w EXCEPT !.covered = c, !.back = b]
  <2>1. Set(s, v)
    BY <1>5 DEF Upload
  <2> HIDE DEF b, c
  <2>2. Alike(w, v)
    BY <1>2 DEF WindowType, Alike
  <2> HIDE DEF v
  <2> QED
    BY <1>1, <2>1, <2>2, OneAlike
<1>6. ASSUME NEW text \in {"stdio", "terminal"}, Bind(p, s, text) PROVE Queues'
  <2> DEFINE g == IF text = "terminal" THEN w.generation + 1 ELSE 1
             v == [w EXCEPT !.text = text, !.generation = g]
  <2>1. Set(s, v)
    BY <1>6 DEF Bind
  <2> HIDE DEF g
  <2>2. Alike(w, v)
    BY <1>2 DEF WindowType, Alike
  <2> HIDE DEF v
  <2> QED
    BY <1>1, <2>1, <2>2, OneAlike
<1>7. CASE SendClose(s)
  <2> DEFINE v == [w EXCEPT !.close_pending = TRUE]
  <2>1. Set(s, v)
    BY <1>7 DEF SendClose
  <2>2. Alike(w, v)
    BY <1>2 DEF WindowType, Alike
  <2> HIDE DEF v
  <2> QED
    BY <1>1, <2>1, <2>2, OneAlike
<1> QED
  BY <1>3, <1>4, <1>5, <1>6, <1>7

LEMMA StdioWriteQueues == ASSUME IInv, Queues, NEW p, StdioWrite(p) PROVE Queues'
<1>1. PICK s \in StdioWindow(p) : Set(s, [windows[s] EXCEPT !.generation = windows[s].generation + 1])
  BY DEF StdioWrite
<1> DEFINE w == windows[s]
           g == w.generation + 1
           v == [w EXCEPT !.generation = g]
<1>2. s \in Used /\ locked' = locked /\ Set(s, v)
  BY <1>1, StdioUsed DEF StdioWrite, console
<1>3. w \in WindowType
  BY <1>2, UsedWindow
<1> HIDE DEF g
<1>4. Alike(w, v)
  BY <1>3 DEF WindowType, Alike
<1> HIDE DEF v
<1> QED
  BY <1>2, <1>4, OneAlike

\* Some first events of a queue go over to those that were read.
LEMMA Taken ==
    ASSUME IInv, Queues, NEW s \in Used, NEW n \in 0 .. Len(windows[s].events), locked' = locked,
           Set(s, Requeued(windows[s], SubSeq(windows[s].events, n + 1, Len(windows[s].events)),
                           windows[s].sent, windows[s].read \o SubSeq(windows[s].events, 1, n)))
    PROVE  Queues'
<1> DEFINE w == windows[s]
           rest == SubSeq(w.events, n + 1, Len(w.events))
           read == w.read \o SubSeq(w.events, 1, n)
           v == Requeued(w, rest, w.sent, read)
<1>1. w \in WindowType /\ s \in Slots
  BY UsedWindow
<1>2. w.events \in Seq(Event) /\ w.read \in Seq(Event) /\ w.sent \in Seq(Event)
  BY <1>1 DEF WindowType
<1>3. QueueKept(w) /\ (locked => w.events = <<>>)
  BY DEF Queues
<1>4. Queue(w.sent, read, rest, w.flags.focused)
  <2>1. Queue(w.sent, w.read, w.events, w.flags.focused)
    BY <1>3 DEF QueueKept
  <2> QED
    BY <1>2, <2>1, QueueTaken
<1>5. locked => rest = <<>>
  <2> SUFFICES ASSUME w.events = <<>> PROVE rest = <<>>
    BY <1>3
  <2>1. Len(w.events) = 0 /\ n = 0
    BY EmptySeq
  <2>2. rest = SubSeq(<<>>, 1, 0)
    BY <2>1
  <2> QED
    BY <2>2
<1> HIDE DEF rest, read
<1>6. v.events = rest /\ v.sent = w.sent /\ v.read = read /\ v.flags = w.flags
  BY <1>1 DEF WindowType, Requeued
<1>7. QueueKept(v) /\ (locked => v.events = <<>>)
  BY <1>4, <1>5, <1>6 DEF QueueKept
<1>8. Set(s, v)
  BY DEF rest, read
<1> HIDE DEF v
<1> QED
  BY <1>1, <1>7, <1>8, OneQueue

LEMMA FirstTaken ==
    ASSUME NEW q \in Seq(Event), q # <<>>
    PROVE  /\ Tail(q) = SubSeq(q, 1 + 1, Len(q)) /\ 1 \in 0 .. Len(q)
           /\ \A r \in Seq(Event) : Append(r, Head(q)) = r \o SubSeq(q, 1, 1)
<1>1. Len(q) \in Nat \ {0} /\ 1 \in 1 .. Len(q) /\ q[1] \in Event
  <2>1. Len(q) \in Nat \ {0}
    BY EmptySeq
  <2>2. 1 \in 1 .. Len(q)
    BY <2>1
  <2> QED
    BY <2>1, <2>2, ElementOfSeq
<1>2. Tail(q) = SubSeq(q, 1 + 1, Len(q))
  <2>1. 1 + 1 = 2
    OBVIOUS
  <2> QED
    BY <2>1, TailIsSubSeq
<1>3. SubSeq(q, 1, 1) = <<q[1]>>
  <2> DEFINE h == SubSeq(q, 1, 1)
  <2>1. \A i \in 1 .. 1 : q[i] \in Event
    BY <1>1
  <2>2. h \in Seq(Event) /\ Len(h) = 1 /\ h[1] = q[1]
    <3>1. 1 \in Int /\ 1 <= 1 /\ 1 - 1 + 1 = 1 /\ 1 + 1 - 1 = 1 /\ 1 \in 1 .. 1
      OBVIOUS
    <3>2. /\ h \in Seq(Event) /\ Len(h) = IF 1 <= 1 THEN 1 - 1 + 1 ELSE 0
          /\ \A i \in 1 .. 1 - 1 + 1 : h[i] = q[1 + i - 1]
      BY <2>1, <3>1, SubSeqProperties
    <3> HIDE DEF h
    <3> QED
      BY <3>1, <3>2
  <2>3. <<q[1]>> \in Seq(Event) /\ Len(<<q[1]>>) = 1 /\ <<q[1]>>[1] = q[1]
    BY <1>1
  <2> HIDE DEF h
  <2> QED
    <3> DEFINE g == <<q[1]>>
    <3>1. g \in Seq(Event) /\ Len(g) = Len(h) /\ Len(h) = 1 /\ g[1] = h[1]
      BY <2>2, <2>3
    <3> HIDE DEF g
    <3>2. \A i \in 1 .. Len(h) : h[i] = g[i]
      BY <3>1
    <3>3. h = g
      BY <2>2, <3>1, <3>2, SeqEqual
    <3> QED
      BY <3>3 DEF g, h
<1>4. ASSUME NEW r \in Seq(Event) PROVE Append(r, Head(q)) = r \o SubSeq(q, 1, 1)
  <2>1. Head(q) = q[1]
    BY HeadTailProperties
  <2> QED
    BY <1>1, <1>3, <2>1, AppendIsConcat
<1> QED
  BY <1>1, <1>2, <1>4

LEMMA PollQueues == ASSUME IInv, Queues, NEW p, NEW s, Poll(p, s) PROVE Queues'
<1> DEFINE w == windows[s]
           closed == [w EXCEPT !.close_pending = FALSE]
           sized == [w EXCEPT !.configure_pending = FALSE, !.told = w.size]
           flagged == [w EXCEPT !.focus_pending = FALSE, !.toldFlags = w.flags]
           taken == [w EXCEPT !.events = Tail(w.events), !.read = Append(w.read, Head(w.events))]
<1>1. s \in Used /\ locked' = locked
  BY DEF Poll, Owned, console
<1>2. w \in WindowType /\ Len(w.events) \in Nat
  BY <1>1, UsedWindow, LenProperties DEF WindowType
<1>3. \/ Set(s, closed) \/ Set(s, sized) \/ Set(s, flagged) \/ Set(s, Emptied(w))
      \/ Len(w.events) >= 2 /\ Set(s, taken)
  <2>1. Set(s, CASE w.close_pending -> closed
                 [] ~w.close_pending /\ w.configure_pending -> sized
                 [] ~w.close_pending /\ ~w.configure_pending /\ w.focus_pending -> flagged
                 [] OTHER -> IF Len(w.events) < 2 THEN Emptied(w) ELSE taken)
    BY DEF Poll
  <2>2. w.close_pending \in BOOLEAN /\ w.configure_pending \in BOOLEAN /\ w.focus_pending \in BOOLEAN
    BY <1>2 DEF WindowType
  <2> HIDE DEF closed, sized, flagged, taken
  <2> QED
    BY <1>2, <2>1, <2>2
<1>4. Alike(w, closed) /\ Alike(w, sized) /\ Alike(w, flagged) /\ Quiet(Emptied(w))
  BY <1>2, EmptiedQuiet DEF WindowType, Alike
<1>5. CASE Len(w.events) >= 2 /\ Set(s, taken)
  <2>1. w.events \in Seq(Event) /\ w.read \in Seq(Event) /\ w.events # <<>>
    BY <1>2, <1>5 DEF WindowType
  <2> DEFINE n == 1
             rest == SubSeq(w.events, n + 1, Len(w.events))
             read == w.read \o SubSeq(w.events, 1, n)
  <2>2. n \in 0 .. Len(w.events) /\ Tail(w.events) = rest /\ Append(w.read, Head(w.events)) = read
    BY <2>1, FirstTaken
  <2>3. taken = Requeued(w, Tail(w.events), w.sent, Append(w.read, Head(w.events)))
    BY <1>2 DEF WindowType, Requeued
  <2> HIDE DEF n
  <2>4. Set(s, Requeued(w, rest, w.sent, read))
    BY <1>5, <2>2, <2>3
  <2> QED
    BY <1>1, <2>2, <2>4, Taken
<1> HIDE DEF closed, sized, flagged, taken
<1> QED
  BY <1>1, <1>3, <1>4, <1>5, OneAlike

LEMMA StdioReadQueues == ASSUME IInv, Queues, NEW p, StdioRead(p) PROVE Queues'
<1> DEFINE keys(w) == {i \in DOMAIN w.events : w.events[i].kind = "key"}
           taken(w) == IF keys(w) = {} THEN Len(w.events)
                       ELSE CHOOSE i \in keys(w) : \A j \in keys(w) : i <= j
           rest(w, n) == [w EXCEPT !.events = SubSeq(w.events, n + 1, Len(w.events)),
                                   !.read = w.read \o SubSeq(w.events, 1, n)]
<1>1. PICK s \in StdioWindow(p) :
           Set(s, IF taken(windows[s]) = Len(windows[s].events) THEN Emptied(windows[s])
                  ELSE rest(windows[s], taken(windows[s])))
  BY DEF StdioRead
<1> DEFINE w == windows[s]
           n == taken(w)
<1>2. s \in Used /\ locked' = locked
  BY StdioUsed DEF StdioRead, console
<1>3. w \in WindowType
  BY <1>2, UsedWindow
<1>4. Len(w.events) \in Nat /\ DOMAIN w.events = 1 .. Len(w.events)
  BY <1>3, LenProperties DEF WindowType
<1>5. n \in 0 .. Len(w.events)
  <2>1. CASE keys(w) = {}
    BY <1>4, <2>1
  <2>2. CASE keys(w) # {}
    <3>1. \E i \in keys(w) : \A j \in keys(w) : i <= j
      BY <1>4, <2>2, Extremes
    <3>2. n \in keys(w)
      BY <2>2, <3>1
    <3>3. n \in DOMAIN w.events
      BY <3>2
    <3> QED
      BY <1>4, <3>3
  <2> QED
    BY <2>1, <2>2
<1>6. Set(s, Emptied(w)) \/ Set(s, rest(w, n))
  BY <1>1
<1> HIDE DEF n
<1>7. rest(w, n) = Requeued(w, SubSeq(w.events, n + 1, Len(w.events)), w.sent,
                            w.read \o SubSeq(w.events, 1, n))
  BY <1>3 DEF WindowType, Requeued
<1>8. Quiet(Emptied(w))
  BY <1>3, EmptiedQuiet
<1> HIDE DEF rest
<1> QED
  BY <1>2, <1>5, <1>6, <1>7, <1>8, Taken, OneAlike

LEMMA SendQueues == ASSUME IInv, Queues, NEW s, NEW e \in Inputs, Send(s, e) PROVE Queues'
<1> DEFINE w == windows[s]
           n == Len(w.events)
           q == IF Merges(w, e) THEN [w.events EXCEPT ![n] = e] ELSE Append(w.events, e)
           sent == Append(w.sent, e)
           v == [w EXCEPT !.events = q, !.sent = sent]
<1>1. s \in Used /\ s \in Slots /\ locked' = locked /\ ~locked /\ (e.kind = "key" => w.flags.focused)
  BY DEF Send, console, InSession, Used
<1>2. w \in WindowType /\ e \in Event
  <2>1. Inputs \subseteq Event
    BY WindowAssumption
  <2> QED
    BY <1>1, <2>1, UsedWindow
<1>3. w.events \in Seq(Event) /\ w.read \in Seq(Event) /\ w.sent \in Seq(Event)
  BY <1>2 DEF WindowType
<1>4. Set(s, v)
  <2>1. CASE Merges(w, e)
    BY <2>1 DEF Send
  <2>2. CASE ~Merges(w, e)
    BY <2>2 DEF Send
  <2> QED
    BY <2>1, <2>2
<1>5. Queue(w.sent, w.read, w.events, w.flags.focused)
  BY <1>1 DEF Queues, QueueKept
<1>6. Queue(sent, w.read, q, w.flags.focused)
  <2>1. CASE Merges(w, e)
    <3>1. /\ w.events # <<>> /\ e.kind = "pointer" /\ ~e.wheel
          /\ w.events[n].kind = "pointer" /\ ~w.events[n].wheel /\ w.events[n].down = e.down
      BY <2>1 DEF Merges
    <3> QED
      BY <1>1, <1>2, <1>3, <1>5, <2>1, <3>1, QueueSent
  <2>2. CASE ~Merges(w, e)
    BY <1>1, <1>2, <1>3, <1>5, <2>2, QueueSent
  <2> QED
    BY <2>1, <2>2
<1> HIDE DEF q, sent
<1>7. v.events = q /\ v.sent = sent /\ v.read = w.read /\ v.flags = w.flags
  BY <1>2 DEF WindowType
<1>8. QueueKept(v)
  BY <1>6, <1>7 DEF QueueKept
<1> HIDE DEF v
<1> QED
  BY <1>1, <1>4, <1>8, OneQueue

LEMMA CreateQueues == ASSUME IInv, Queues, NEW p, NEW h, Create(p, h) PROVE Queues'
<1>1. PICK s \in Slots : \E v : Set(s, v) /\ Quiet(v) /\ locked' = locked
  <2> DEFINE s == CHOOSE t \in Slots \ Used : TRUE
             size == [serial |-> 1, height |-> h]
             shown == [visible |-> TRUE, focused |-> FALSE]
             v == [id |-> nextId, pid |-> p, size |-> size, flags |-> shown,
                   generation |-> 0, front |-> NoFrame, back |-> NoFrame,
                   uploading |-> FALSE, frame_serial |-> 0, tag |-> 0, covered |-> {},
                   configure_pending |-> FALSE, focus_pending |-> FALSE,
                   close_pending |-> FALSE, events |-> <<>>, text |-> "none",
                   told |-> size, toldFlags |-> shown, sent |-> <<>>, read |-> <<>>]
  <2>1. Used # Slots /\ Set(s, v) /\ locked' = locked
    BY DEF Create, console
  <2>2. s \in Slots
    BY <2>1 DEF Used
  <2>3. Quiet(v)
    BY DEF Quiet
  <2> QED
    BY <2>1, <2>2, <2>3
<1>2. PICK v : Set(s, v) /\ Quiet(v) /\ locked' = locked
  BY <1>1
<1> QED
  BY <1>2, QuietKept, OneQueue

LEMMA DestroyQueues == ASSUME IInv, Queues, NEW p, NEW s, Destroy(p, s) PROVE Queues'
BY OneQueue DEF Destroy, Owned, Used, console

\* Who gets the focus, or loses it, loses what was queued.
LEMMA ConfigureQueues ==
    ASSUME IInv, Queues, NEW s \in Slots, NEW h, NEW f \in Flags, Configure(s, h, f) PROVE Queues'
<1>1. /\ s \in Used /\ locked' = locked
      /\ windows' = [t \in Slots |->
            CASE t = s -> Flagged(Resized(windows[s], h), f)
              [] t # s -> IF t \in Used /\ f.focused /\ windows[t].flags.focused
                          THEN Unfocused(windows[t]) ELSE windows[t]]
  BY DEF Configure, console
<1>2. ASSUME NEW t \in Slots, t # s, windows'[t] # Free
      PROVE  Quiet(windows'[t]) \/ (t \in Used /\ Alike(windows[t], windows'[t]))
  <2>1. CASE t \in Used /\ f.focused /\ windows[t].flags.focused
    <3> DEFINE u == Emptied(windows[t])
    <3>1. windows'[t] = Unfocused(windows[t])
      BY <1>1, <1>2, <2>1
    <3>2. u \in WindowType
      BY <2>1, UsedWindow, EmptiedOK DEF Evolves, Good
    <3>3. Quiet(u)
      BY <2>1, UsedWindow, EmptiedQuiet
    <3>4. Unfocused(windows[t]) = [u EXCEPT !.flags.focused = FALSE, !.focus_pending = TRUE]
      BY DEF Unfocused
    <3> HIDE DEF u
    <3> QED
      BY <3>1, <3>2, <3>3, <3>4 DEF Quiet, WindowType
  <2>2. CASE ~(t \in Used /\ f.focused /\ windows[t].flags.focused)
    <3>1. windows'[t] = windows[t]
      BY <1>1, <1>2, <2>2
    <3> QED
      BY <1>2, <3>1 DEF Used, Alike
  <2> QED
    BY <2>1, <2>2
<1>3. Quiet(windows'[s]) \/ Alike(windows[s], windows'[s])
  <2> DEFINE w == windows[s]
             r == Resized(w, h)
  <2>1. w \in WindowType
    BY <1>1, UsedWindow
  <2>2. Alike(w, r) /\ DOMAIN r = DOMAIN w
    <3>1. CASE w.size.height = h
      BY <3>1 DEF Alike, Resized
    <3>2. CASE w.size.height # h
      <4> DEFINE size == [serial |-> w.size.serial + 1, height |-> h]
                 g == IF w.text = "terminal" THEN w.generation + 1 ELSE w.generation
      <4>1. r = [w EXCEPT !.size = size, !.configure_pending = TRUE, !.generation = g]
        BY <3>2 DEF Resized
      <4> HIDE DEF size, g, r
      <4> QED
        BY <2>1, <4>1 DEF Alike, WindowType
    <3> QED
      BY <3>1, <3>2
  <2>3. windows'[s] = Flagged(r, f)
    BY <1>1
  <2> HIDE DEF r
  <2>4. CASE r.flags = f
    BY <2>2, <2>3, <2>4 DEF Flagged
  <2>5. CASE r.flags # f
    <3> DEFINE u == Emptied(r)
    <3>1. Flagged(r, f) = [u EXCEPT !.flags = f, !.focus_pending = TRUE]
      BY <2>5 DEF Flagged
    <3>2. Quiet(u) /\ DOMAIN u = DOMAIN r
      BY <2>1, <2>2 DEF Quiet, Emptied, WindowType
    <3> HIDE DEF u
    <3>3. Quiet([u EXCEPT !.flags = f, !.focus_pending = TRUE])
      BY <2>1, <2>2, <3>2 DEF Quiet, WindowType
    <3> QED
      BY <2>3, <3>1, <3>3
  <2> QED
    BY <2>4, <2>5
<1> QED
  BY <1>1, <1>2, <1>3, QueuesStay

\* What all windows are after some have ended with their processes.
LEMMA LeftQueues ==
    ASSUME Queues, NEW all, NEW gone, window_task_release(all, gone),
           all = Quieted \/ (all = windows /\ locked' = locked),
           IInv
    PROVE  Queues'
<1>1. \A s \in Slots : windows'[s] # Free => windows'[s] = all[s] /\ all[s] # Free
  BY DEF window_task_release, Left
<1>2. ASSUME NEW s \in Slots, all = Quieted, windows'[s] # Free PROVE Quiet(windows'[s])
  <2>1. windows'[s] = Emptied(windows[s]) /\ s \in Used
    BY <1>1, <1>2 DEF Quieted
  <2> QED
    BY <2>1, UsedWindow, EmptiedQuiet
<1>3. CASE all = Quieted
  BY <1>2, <1>3, QueuesStay
<1>4. CASE all = windows /\ locked' = locked
  <2>1. \A s \in Slots : windows'[s] # Free => s \in Used /\ Alike(windows[s], windows'[s])
    BY <1>1, <1>4 DEF Used, Alike
  <2> QED
    BY <1>4, <2>1, QueuesStay
<1> QED
  BY <1>3, <1>4

\* The windows stay, or all of their queues are emptied.
LEMMA StayQueues ==
    ASSUME IInv, Queues,
           windows' = Quieted \/ (windows' = windows /\ (locked' => locked))
    PROVE  Queues'
<1>1. CASE windows' = Quieted
  <2>1. ASSUME NEW s \in Slots, windows'[s] # Free PROVE Quiet(windows'[s])
    <3>1. windows'[s] = Emptied(windows[s]) /\ s \in Used
      BY <1>1, <2>1 DEF Quieted
    <3> QED
      BY <3>1, UsedWindow, EmptiedQuiet
  <2> QED
    BY <2>1, QueuesStay
<1>2. CASE windows' = windows /\ (locked' => locked)
  <2>1. \A s \in Slots : windows'[s] # Free => s \in Used /\ Alike(windows[s], windows'[s])
    BY <1>2 DEF Used, Alike
  <2> QED
    BY <1>2, <2>1, QueuesStay
<1> QED
  BY <1>1, <1>2

LEMMA ConsoleQueues ==
    ASSUME IInv, Queues, Logout \/ Lock \/ Unlock \/ Device \/ Screen PROVE Queues'
<1>1. CASE Logout
  BY <1>1, LeftQueues DEF Logout
<1>2. CASE Lock
  BY <1>2, StayQueues DEF Lock, window_session_lock
<1>3. CASE Unlock
  BY <1>3, StayQueues DEF Unlock
<1>4. CASE Device
  <2>1. PICK idle \in BOOLEAN :
           /\ (\E k \in Keys : Press(k, idle)) \/ (\E r \in Report : Move(r, idle))
           /\ IF idle THEN window_session_lock ELSE UNCHANGED windows
    BY <1>4 DEF Device
  <2>2. locked' = (locked \/ idle)
    BY <2>1 DEF Press, Move
  <2> QED
    BY <2>1, <2>2, StayQueues DEF window_session_lock
<1>5. CASE Screen
  <2>1. windows' = windows /\ locked' = locked
    BY <1>5 DEF Screen, Acquire, Release, ReadKey, ReadPointer, console_getc
  <2> QED
    BY <2>1, StayQueues
<1> QED
  BY <1>1, <1>2, <1>3, <1>4, <1>5

LEMMA ProcessQueues ==
    ASSUME IInv, Queues, NEW p \in Procs,
           Start(p) \/ Exit(p) \/ Exec(p) \/ ServerAcquire(p) \/ ServerRelease(p)
    PROVE  Queues'
<1>1. CASE Exit(p)
  BY <1>1, LeftQueues DEF Exit
<1>2. CASE Exec(p)
  BY <1>2, LeftQueues DEF Exec
<1>3. CASE ServerRelease(p)
  BY <1>3, LeftQueues DEF ServerRelease, console
<1>4. CASE Start(p) \/ ServerAcquire(p)
  BY <1>4, StayQueues DEF Start, ServerAcquire, console
<1> QED
  BY <1>1, <1>2, <1>3, <1>4

LEMMA NextQueues == IInv /\ Queues /\ [Next]_vars => Queues'
<1> SUFFICES ASSUME IInv, Queues, [Next]_vars PROVE Queues'
  OBVIOUS
<1>1. ASSUME NEW p \in Procs, StdioWrite(p) \/ StdioRead(p) PROVE Queues'
  BY <1>1, StdioWriteQueues, StdioReadQueues
<1>2. ASSUME NEW p \in Procs, NEW h \in Heights, Create(p, h) PROVE Queues'
  BY <1>2, CreateQueues
<1>3. ASSUME NEW p \in Procs, NEW s \in Slots,
             \/ Destroy(p, s) \/ Begin(p, s) \/ Commit(p, s) \/ Poll(p, s)
             \/ \E y \in Rows : Upload(p, s, {y})
             \/ \E text \in {"stdio", "terminal"} : Bind(p, s, text)
      PROVE  Queues'
  BY <1>3, DestroyQueues, DrawingQueues, PollQueues
<1>4. ASSUME NEW s \in Slots, SendClose(s) PROVE Queues'
  BY <1>4, DrawingQueues
<1>5. ASSUME NEW s \in Slots, \E h \in Heights, f \in Flags : Configure(s, h, f) PROVE Queues'
  BY <1>5, ConfigureQueues
<1>6. ASSUME NEW s \in Slots, \E e \in Inputs : Send(s, e) PROVE Queues'
  BY <1>6, SendQueues
<1>7. ASSUME NEW s \in Slots, Enum(s) \/ \E y \in Rows : Read(s, y) PROVE Queues'
  <2>1. windows' = windows /\ UNCHANGED console
    BY <1>7 DEF Enum, Read
  <2>2. locked' = locked
    BY <2>1 DEF console
  <2> QED
    BY <2>1, <2>2, StayQueues
<1>8. CASE UNCHANGED vars
  BY <1>8, StayQueues DEF vars, console
<1> QED
  BY <1>1, <1>2, <1>3, <1>4, <1>5, <1>6, <1>7, <1>8, ConsoleQueues, ProcessQueues DEF Next

-----------------------------------------------------------------------------
InputInv == IInv /\ Queues /\ FreshestState

LEMMA InitInput == Init => InputInv
<1> SUFFICES ASSUME Init PROVE InputInv
  OBVIOUS
<1>1. Queues
  BY DEF Queues, Used, Init
<1>2. FreshestState
  <2>1. input = <<>> /\ seenAlt = {} /\ queue = <<>> /\ seenButtons = {}
    BY DEF Init, ConsoleInit
  <2> QED
    BY <2>1 DEF FreshestState
<1> QED
  BY <1>1, <1>2, InitIInv DEF InputInv

LEMMA InputInvKept == InputInv => InputKept
<1> SUFFICES ASSUME InputInv PROVE InputKept
  OBVIOUS
<1>1. ASSUME NEW s \in Used
      PROVE  LET w == windows[s]
             IN  /\ Changes(w.sent) = Changes(w.read \o w.events)
                 /\ w.events # <<>> => w.events[Len(w.events)] = w.sent[Len(w.sent)]
                 /\ KeyEvent \in Range(w.events) => w.flags.focused
                 /\ locked => w.events = <<>>
  <2> DEFINE w == windows[s]
  <2>1. Queue(w.sent, w.read, w.events, w.flags.focused) /\ (locked => w.events = <<>>)
    BY DEF InputInv, Queues, QueueKept
  <2>2. w \in WindowType
    BY UsedWindow DEF InputInv
  <2>3. DOMAIN w.events = 1 .. Len(w.events)
    BY <2>2, LenProperties DEF WindowType
  <2> HIDE DEF w
  <2>4. KeyEvent \in Range(w.events) => w.flags.focused
    BY <2>1, <2>3 DEF Queue, Range
  <2>5. Changes(w.sent) = Changes(w.read \o w.events)
    BY <2>1 DEF Queue, Changes
  <2> QED
    BY <2>1, <2>4, <2>5 DEF Queue, w
<1> QED
  BY <1>1 DEF InputInv, InputKept

\* Whatever is sent, read, merged, focused and locked, in any order: a client
\* gets every key, button and wheel step accepted for it and the pointer's last
\* place, and the device queues end with what is held (window_queue, POLL,
\* CONFIGURE, console_session_lock, queue_key, pointer_push).
THEOREM InputIsKept ==
    ASSUME ConsoleAssumption, WindowAssumption PROVE Spec => []InputKept
<1>1. InputInv /\ [Next]_vars => InputInv'
  BY NextIInv, NextQueues, NextFresh DEF InputInv
<1> QED
  BY <1>1, InitInput, InputInvKept, PTL DEF Spec
=============================================================================
