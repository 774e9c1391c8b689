--------------------------------- MODULE Window --------------------------------
(***************************************************************************)
(* The window server interface of Nuvora Core, kernel/window.c, on top of  *)
(* the screen of module Console.  One process, the server, shows what the  *)
(* clients draw: a client uploads a frame row by row into its back buffer, *)
(* COMMIT makes it the front, and the server reads that, row by row too.   *)
(*                                                                         *)
(*  - server   window_server                                               *)
(*  - windows  native_windows.  A buffer is the sequence of its rows, each *)
(*             known by the frame (BEGIN ... COMMIT) it was drawn for      *)
(*  - reading  what the server has read of one window since it last asked  *)
(*             for its generation with ENUM                                *)
(*                                                                         *)
(* told is what a client knows of its window's size, serial and flags;     *)
(* sent and read are the events accepted for a window and those it took,   *)
(* since its queue was last empty.  These, and reading, are only watched.  *)
(* What a text window displays is known by its generation.                 *)
(***************************************************************************)
EXTENDS Console, FiniteSets

CONSTANTS
    Parent,     \* the process that started each one, or Nobody
    Slots,      \* NV_WINDOW_MAX windows
    Heights,    \* sizes of a window
    EventRoom,  \* events that fit into a window's queue: 32
    Inputs,     \* bound: the events that the server sends
    MaxFrame, MaxSerial, \* bounds: BEGINs, and sizes of a window
    Workloads   \* bound: a behaviour exercises one of "frames", "events", "text"
                \* and "devices", with so many windows at a time and created at
                \* all, contents of each, and events in a row

KeyEvent == [kind |-> "key"]
PointerEvents == [kind : {"pointer"}, at : Places, down : BOOLEAN, wheel : BOOLEAN]
Event == {KeyEvent} \cup PointerEvents

ASSUME WindowAssumption ==
    /\ Parent \in [Procs -> Procs \cup {Nobody}]
    /\ Heights \subseteq Nat \ {0} /\ EventRoom \in Nat \ {0}
    /\ Inputs \subseteq Event
    /\ MaxFrame \in Nat /\ MaxSerial \in Nat \ {0}
    /\ Workloads \subseteq [of : {"frames", "events", "text", "devices"},
                          procs : SUBSET Procs, windows : Nat,
                          created : Nat, contents : Nat, sent : Nat]

VARIABLES server, windows, nextId, nextFrame, reading, workload

counters == <<nextId, nextFrame, workload>>
vars == <<console, server, windows, reading, counters>>

Free == [id |-> 0]
NoFrame == <<>>
NotReading == [id |-> 0]
Tags == 0 .. MaxFrame
Buffer == UNION {[1 .. h -> Tags] : h \in Heights \cup {0}}
Known == [serial : 1 .. MaxSerial, height : Heights]
Flags == [visible : BOOLEAN, focused : BOOLEAN]
IsWindow(w) ==
    /\ w.id \in 1 .. workload.created /\ w.pid \in Procs
    /\ w.size \in Known /\ w.flags \in Flags
    /\ w.generation \in 0 .. workload.contents
    /\ w.front \in Buffer /\ w.back \in Buffer
    /\ w.uploading \in BOOLEAN /\ w.frame_serial \in 0 .. MaxSerial
    /\ w.tag \in Tags /\ w.covered \subseteq UNION {1 .. h : h \in Heights}
    /\ w.configure_pending \in BOOLEAN /\ w.focus_pending \in BOOLEAN
    /\ w.close_pending \in BOOLEAN
    /\ w.events \in Seq(Event) /\ Len(w.events) <= EventRoom
    /\ w.text \in {"none", "stdio", "terminal"}
    /\ w.told \in Known /\ w.toldFlags \in Flags
    /\ w.sent \in Seq(Event) /\ w.read \in Seq(Event)

TypeOK ==
    /\ ConsoleTypeOK
    /\ server \in alive \cup {Nobody}
    /\ \A s \in Slots : windows[s] = Free \/ IsWindow(windows[s])
    /\ \A s, t \in Slots : s # t /\ windows[s] # Free => windows[s].id # windows[t].id
    /\ reading = NotReading \/
          (reading.rows \subseteq UNION {1 .. h : h \in Heights} /\ reading.tags \subseteq Tags)
    /\ nextId \in 1 .. workload.created + 1 /\ nextFrame \in 1 .. MaxFrame + 1

Init ==
    /\ workload \in Workloads /\ ConsoleInit(workload.procs)
    /\ server = Nobody /\ windows = [s \in Slots |-> Free]
    /\ nextId = 1 /\ nextFrame = 1 /\ reading = NotReading
-----------------------------------------------------------------------------
About(of) == workload.of \in of
Used == {s \in Slots : windows[s] # Free}
Owned(s, p) == s \in Used /\ windows[s].pid = p /\ p \in alive
Set(s, w) == windows' = [windows EXCEPT ![s] = w]
Emptied(w) == [w EXCEPT !.events = <<>>, !.sent = <<>>, !.read = <<>>]

Quieted == [s \in Slots |-> IF s \in Used THEN Emptied(windows[s]) ELSE Free]
window_session_lock == windows' = Quieted

\* window_task_release: with the server go all windows, with a client its own.
\* (Mutated: the server's end leaves the windows to the next one.)
LeftBehind(all, gone) ==
    [s \in Slots |-> IF all[s] # Free /\ all[s].pid \notin gone THEN all[s] ELSE Free]
Left(all, gone) ==
    [s \in Slots |-> IF all[s] # Free /\ ({server, all[s].pid} \cap gone = {})
                     THEN all[s] ELSE Free]
window_task_release(all, gone) ==
    /\ windows' = Left(all, gone)
    /\ server' = IF server \in gone THEN Nobody ELSE server
    /\ reading' = IF server \in gone THEN NotReading ELSE reading

\* A process ends.  With the manager ends the session, which is locked.
Exit(p) ==
    /\ p \in alive
    /\ IF p = Manager
       THEN locked' = TRUE /\ EndScreen({}) /\ window_task_release(Quieted, alive)
       ELSE /\ alive' = alive \ {p} /\ LeaveScreen(p) /\ window_task_release(windows, {p})
            /\ UNCHANGED <<locked, keyboard>>
    /\ UNCHANGED counters

\* exec_image keeps the process, but not its screen and windows.  Bound: the
\* manager, which would end its session, does not.
Exec(p) ==
    /\ p \in alive \ {Manager}
    /\ LeaveScreen(p) /\ window_task_release(windows, {p})
    /\ UNCHANGED <<alive, locked, keyboard, counters>>

Logout ==
    /\ Manager \in alive /\ locked' = FALSE
    /\ EndScreen({Manager}) /\ window_task_release(Quieted, alive \ {Manager})
    /\ UNCHANGED counters

\* The supervisor starts the manager again, a process another.  Bound: it does
\* not while children of the last one are left, which are orphans.
Start(p) ==
    /\ p \in workload.procs \ alive /\ Parent[p] \in alive \cup {Nobody}
    /\ \A q \in alive : Parent[q] # p
    /\ alive' = alive \cup {p}
    /\ UNCHANGED <<owner, graphics, locked, keyboard, pointer, server, windows, reading, counters>>

Lock ==
    /\ ~About({"frames"})
    /\ ~locked /\ locked' = TRUE /\ console_session_lock /\ window_session_lock
    /\ UNCHANGED <<server, reading, counters>>
Unlock ==
    /\ locked /\ locked' = FALSE
    /\ UNCHANGED <<alive, owner, graphics, keyboard, pointer, server, windows, reading, counters>>

\* Device events, some of them the first after the idle time.
Device ==
    /\ About({"devices"})
    /\ \E idle \in IF locked THEN {FALSE} ELSE BOOLEAN :
         /\ (\E k \in Keys : Press(k, idle)) \/ (\E r \in Report : Move(r, idle))
         /\ IF idle THEN window_session_lock ELSE UNCHANGED windows
    /\ UNCHANGED <<server, reading, counters>>

Screen ==
    /\ \/ \E p \in Procs, d \in BOOLEAN :
             /\ About({"devices"}) \/ (p = Manager /\ d)
             /\ Acquire(p, d)
       \/ \E p \in Procs : Release(p) \/ ReadKey(p) \/ ReadPointer(p)
       \/ console_getc
    /\ UNCHANGED <<server, windows, reading, counters>>

ServerAcquire(p) ==
    /\ p \in alive /\ Interactive(p) /\ owner = p /\ server = Nobody
    /\ server' = p
    /\ UNCHANGED <<console, windows, reading, counters>>

ServerRelease(p) ==
    /\ p \in alive /\ server = p /\ window_task_release(windows, {p})
    /\ UNCHANGED <<console, counters>>
-----------------------------------------------------------------------------
(* Clients: windows and frames                                             *)

Create(p, h) ==
    /\ Cardinality(Used) < workload.windows /\ nextId <= workload.created
    /\ p \in alive /\ server # Nobody /\ p # server /\ Used # Slots
    /\ LET s == CHOOSE t \in Slots \ Used : TRUE
           size == [serial |-> 1, height |-> h]
           shown == [visible |-> TRUE, focused |-> FALSE]
       IN  Set(s, [id |-> nextId, pid |-> p, size |-> size, flags |-> shown,
                   generation |-> 0, front |-> NoFrame, back |-> NoFrame,
                   uploading |-> FALSE, frame_serial |-> 0, tag |-> 0, covered |-> {},
                   configure_pending |-> FALSE, focus_pending |-> FALSE,
                   close_pending |-> FALSE, events |-> <<>>, text |-> "none",
                   told |-> size, toldFlags |-> shown, sent |-> <<>>, read |-> <<>>])
    /\ nextId' = nextId + 1
    /\ UNCHANGED <<console, server, reading, nextFrame, workload>>

Destroy(p, s) ==
    /\ Owned(s, p) /\ Set(s, Free)
    /\ UNCHANGED <<console, server, reading, counters>>

\* BIND_STDIO and BIND_TERMINAL, before anything was drawn; only the first sets
\* the generation, the second counts it up with its layout.
Bind(p, s, text) ==
    /\ About({"text"}) /\ Owned(s, p) /\ windows[s].generation < workload.contents
    /\ ~windows[s].uploading /\ windows[s].front = NoFrame
    /\ IF text = "terminal" THEN windows[s].text = "none" ELSE windows[s].text # "terminal"
    /\ Set(s, [windows[s] EXCEPT !.text = text, !.generation =
                  IF text = "terminal" THEN @ + 1 ELSE 1])
    /\ UNCHANGED <<console, server, reading, counters>>

\* A buffer that already has the size is used again as it is.
Allocated(b, h) == IF Len(b) = h THEN b ELSE [y \in 1 .. h |-> 0]

\* (Mutated: rows covered before count again.)
BeginOver(p, s) ==
    /\ About({"frames"}) /\ nextFrame <= MaxFrame
    /\ Owned(s, p) /\ windows[s].text = "none" /\ windows[s].told = windows[s].size
    /\ Set(s, [windows[s] EXCEPT
                  !.back = Allocated(@, windows[s].size.height), !.uploading = TRUE,
                  !.frame_serial = windows[s].size.serial, !.tag = nextFrame])
    /\ nextFrame' = nextFrame + 1
    /\ UNCHANGED <<console, server, reading, nextId, workload>>
Begin(p, s) ==
    /\ About({"frames"}) /\ nextFrame <= MaxFrame
    /\ Owned(s, p) /\ windows[s].text = "none" /\ windows[s].told = windows[s].size
    /\ Set(s, [windows[s] EXCEPT
                  !.back = Allocated(@, windows[s].size.height), !.uploading = TRUE,
                  !.frame_serial = windows[s].size.serial, !.tag = nextFrame, !.covered = {}])
    /\ nextFrame' = nextFrame + 1
    /\ UNCHANGED <<console, server, reading, nextId, workload>>

Upload(p, s, rows) ==
    /\ Owned(s, p) /\ windows[s].uploading /\ rows \subseteq DOMAIN windows[s].back
    /\ windows[s].frame_serial = windows[s].size.serial
    /\ LET w == windows[s]
       IN  Set(s, [w EXCEPT !.covered = @ \cup rows,
                            !.back = [y \in DOMAIN @ |-> IF y \in rows THEN w.tag ELSE @[y]]])
    /\ UNCHANGED <<console, server, reading, counters>>

Commit(p, s) ==
    /\ Owned(s, p) /\ windows[s].uploading /\ windows[s].generation < workload.contents
    /\ LET w == windows[s]
       IN  IF w.frame_serial # w.size.serial THEN Set(s, [w EXCEPT !.uploading = FALSE])
           ELSE /\ w.covered = DOMAIN w.back
                /\ Set(s, [w EXCEPT !.front = w.back, !.back = w.front,
                                    !.uploading = FALSE, !.generation = @ + 1])
    /\ UNCHANGED <<console, server, reading, counters>>

\* POLL: what is pending first, then the queue.
Poll(p, s) ==
    /\ Owned(s, p) /\ Interactive(p)
    /\ LET w == windows[s]
       IN  Set(s, CASE w.close_pending -> [w EXCEPT !.close_pending = FALSE]
                    [] ~w.close_pending /\ w.configure_pending ->
                         [w EXCEPT !.configure_pending = FALSE, !.told = w.size]
                    [] ~w.close_pending /\ ~w.configure_pending /\ w.focus_pending ->
                         [w EXCEPT !.focus_pending = FALSE, !.toldFlags = w.flags]
                    [] OTHER -> IF Len(w.events) < 2 THEN Emptied(w)
                                ELSE [w EXCEPT !.events = Tail(@),
                                               !.read = Append(@, Head(w.events))])
    /\ UNCHANGED <<console, server, reading, counters>>
-----------------------------------------------------------------------------
(* Text windows: the console of their owner and its descendants            *)

\* Bound: three generations.  Who has ended is nobody's parent any more.
Ancestors(p) ==
    LET up(q) == IF Parent[q] \in alive THEN <<Parent[q]>> ELSE <<>>
        parents == up(p)
    IN  <<p>> \o parents \o (IF parents = <<>> THEN <<>> ELSE up(parents[1]))
TextWindows(p) == {s \in Used : windows[s].pid = p /\ windows[s].text # "none"}

\* stdio_window: one of the nearest ancestor alive that has some
StdioWindow(p) ==
    LET line == Ancestors(p)
        has(i) == TextWindows(line[i]) # {}
        nearest == {i \in DOMAIN line : has(i) /\ \A j \in 1 .. i - 1 : ~has(j)}
    IN  UNION {TextWindows(line[i]) : i \in nearest}

\* Writing and clearing count the generation up.
StdioWrite(p) ==
    /\ p \in alive
    /\ \E s \in StdioWindow(p) :
         /\ windows[s].generation < workload.contents
         /\ Set(s, [windows[s] EXCEPT !.generation = @ + 1])
    /\ UNCHANGED <<console, server, reading, counters>>

\* Reading passes over what is not a key.
StdioRead(p) ==
    /\ p \in alive /\ Interactive(p)
    /\ \E s \in StdioWindow(p) :
         LET w == windows[s]
             keys == {i \in DOMAIN w.events : w.events[i].kind = "key"}
             n == IF keys = {} THEN Len(w.events)
                  ELSE CHOOSE i \in keys : \A j \in keys : i <= j
         IN  /\ ~w.close_pending /\ w.events # <<>>
             /\ Set(s, IF n = Len(w.events) THEN Emptied(w)
                       ELSE [w EXCEPT !.events = SubSeq(@, n + 1, Len(@)),
                                      !.read = @ \o SubSeq(w.events, 1, n)])
    /\ UNCHANGED <<console, server, reading, counters>>
-----------------------------------------------------------------------------
(* The server                                                              *)

Unfocused(w) == [Emptied(w) EXCEPT !.flags.focused = FALSE, !.focus_pending = TRUE]
Resized(w, h) ==
    IF w.size.height = h THEN w
    ELSE [w EXCEPT !.size = [serial |-> @.serial + 1, height |-> h],
                   !.configure_pending = TRUE,
                   !.generation = IF w.text = "terminal" THEN @ + 1 ELSE @]
Flagged(w, f) ==
    IF w.flags = f THEN w ELSE [Emptied(w) EXCEPT !.flags = f, !.focus_pending = TRUE]

Configure(s, h, f) ==
    /\ server \in alive /\ s \in Used /\ (f.focused => f.visible)
    /\ IF windows[s].size.height = h THEN About({"events", "text"})
       ELSE /\ About({"frames", "text"}) /\ f = windows[s].flags
            /\ windows[s].size.serial < MaxSerial /\ windows[s].generation < workload.contents
    /\ windows' = [t \in Slots |->
          CASE t = s -> Flagged(Resized(windows[s], h), f)
            [] t # s -> IF t \in Used /\ f.focused /\ windows[t].flags.focused
                        THEN Unfocused(windows[t]) ELSE windows[t]]
    /\ UNCHANGED <<console, server, reading, counters>>

\* window_queue: motion takes the place of motion before it if no button and no
\* wheel step is lost by that; else the event needs room.
\* (Mutated: a button may be.)
MergesAnyMotion(w, e) ==
    /\ w.events # <<>> /\ e.kind = "pointer" /\ ~e.wheel
    /\ LET old == w.events[Len(w.events)]
       IN  old.kind = "pointer" /\ ~old.wheel
Merges(w, e) ==
    /\ w.events # <<>> /\ e.kind = "pointer" /\ ~e.wheel
    /\ LET old == w.events[Len(w.events)]
       IN  old.kind = "pointer" /\ ~old.wheel /\ old.down = e.down

SendClose(s) ==
    /\ About({"text"})
    /\ server \in alive /\ InSession /\ s \in Used
    /\ Set(s, [windows[s] EXCEPT !.close_pending = TRUE])
    /\ UNCHANGED <<console, server, reading, counters>>

Send(s, e) ==
    /\ About({"events", "text"}) /\ \A t \in Used \ {s} : windows[t].sent = <<>>
    /\ server \in alive /\ InSession /\ s \in Used
    /\ LET w == windows[s]
           n == Len(w.events)
       IN  /\ w.flags.visible /\ (e.kind = "key" => w.flags.focused)
           /\ Len(w.sent) < workload.sent
           /\ Merges(w, e) \/ n < EventRoom
           /\ Set(s, [w EXCEPT !.events = IF Merges(w, e) THEN [@ EXCEPT ![n] = e]
                                          ELSE Append(@, e),
                               !.sent = Append(@, e)])
    /\ UNCHANGED <<console, server, reading, counters>>

Enum(s) ==
    /\ About({"frames"}) /\ server \in alive /\ s \in Used /\ windows[s].front # NoFrame
    /\ reading' = [id |-> windows[s].id, generation |-> windows[s].generation,
                   rows |-> {}, tags |-> {}]
    /\ UNCHANGED <<console, server, windows, counters>>

Read(s, y) ==
    /\ server \in alive /\ s \in Used /\ reading # NotReading /\ reading.id = windows[s].id
    /\ reading.generation = windows[s].generation
    /\ y \in DOMAIN windows[s].front
    /\ reading' = [reading EXCEPT !.rows = @ \cup {y}, !.tags = @ \cup {windows[s].front[y]}]
    /\ UNCHANGED <<console, server, windows, counters>>

Rows == UNION {1 .. h : h \in Heights}
Next ==
    \/ Logout \/ Lock \/ Unlock \/ Device \/ Screen
    \/ \E p \in Procs :
         \/ Start(p) \/ Exit(p) \/ Exec(p) \/ ServerAcquire(p) \/ ServerRelease(p)
         \/ StdioWrite(p) \/ StdioRead(p)
         \/ \E h \in Heights : Create(p, h)
         \/ \E s \in Slots :
              \/ Destroy(p, s) \/ Begin(p, s) \/ Commit(p, s) \/ Poll(p, s)
              \/ \E y \in Rows : Upload(p, s, {y})
              \/ \E text \in {"stdio", "terminal"} : Bind(p, s, text)
    \/ \E s \in Slots :
         \/ SendClose(s) \/ Enum(s)
         \/ \E h \in Heights, f \in Flags : Configure(s, h, f)
         \/ \E e \in Inputs : Send(s, e)
         \/ \E y \in Rows : Read(s, y)

Spec == Init /\ [][Next]_vars
-----------------------------------------------------------------------------
(* Properties *)

\* Only whole frames are shown: every row of a front was drawn for the same
\* frame, and what the server reads of a window under one generation belongs to
\* one frame, whatever the client uploads and commits between two reads.
WholeFrames ==
    /\ \A s \in Used : \A y, z \in DOMAIN windows[s].front :
          windows[s].front[y] = windows[s].front[z] /\ windows[s].front[y] # 0
    /\ reading # NotReading => Cardinality(reading.tags) <= 1

\* A client knows the size, the serial and the flags of its window or will be
\* told of them by POLL; it lives, and so does the server, which it is not; and
\* no two windows have the focus.  (And everything has its type.)
ClientsInformed ==
    /\ TypeOK
    /\ \A s \in Used :
          LET w == windows[s]
          IN  /\ w.configure_pending \/ w.told = w.size
              /\ w.focus_pending \/ w.toldFlags = w.flags
              /\ w.pid \in alive /\ server \in alive \ {w.pid}
    /\ \A s, t \in Used : windows[s].flags.focused /\ windows[t].flags.focused => s = t

\* What events say one after the other: the keys, the wheel steps and where the
\* button goes; motion changes nothing.
NothingYet == [changes |-> <<>>, down |-> {}]
Noticed(known, e) ==
    IF e.kind = "key" THEN [known EXCEPT !.changes = Append(@, <<"key">>)]
    ELSE [changes |-> IF e.wheel \/ known.down # {e.down}
                      THEN Append(known.changes, <<"pointer", e.down, e.wheel>>) ELSE known.changes,
          down |-> {e.down}]
Say(events) ==
    LET upTo[i \in 0 .. Len(events)] == IF i = 0 THEN NothingYet ELSE Noticed(upTo[i - 1], events[i])
    IN  upTo[Len(events)]
Changes(events) == Say(events).changes

\* "Merge motion only when no button transition or wheel step is lost": a client
\* gets every key, button and wheel step that was accepted for it, in order, and
\* the pointer's last place; keys wait only for the window with the focus, and
\* none of it outlives a lock.  The device queues, when they overflow, still end
\* with the modifiers and the buttons that are held.
InputKept ==
    /\ \A s \in Used :
          LET w == windows[s]
          IN  /\ Changes(w.sent) = Changes(w.read \o w.events)
              /\ w.events # <<>> => w.events[Len(w.events)] = w.sent[Len(w.sent)]
              /\ KeyEvent \in Range(w.events) => w.flags.focused
              /\ locked => w.events = <<>>
    /\ FreshestState
=============================================================================
