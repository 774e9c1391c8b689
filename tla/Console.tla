--------------------------------- MODULE Console -------------------------------
(***************************************************************************)
(* The screen, the keyboard and the pointer of Nuvora Core: who owns them, *)
(* and the two queues between the devices and their owner.  Translated     *)
(* from kernel/console.c and kernel/pointer.c.                             *)
(*                                                                         *)
(*  - owner, graphics  screen_owner (Nobody: the boot console) and whether *)
(*                     it took the display or the text screen              *)
(*  - locked           the session waits for its password; module Session  *)
(*                     has the rest of it                                  *)
(*  - input, alt       the key queue, and reported_modifiers, of which     *)
(*                     there is one here: Alt                              *)
(*  - queue, buttons, canMerge  the pointer's queue; buttons as last       *)
(*                     queued (one button; a pushed one is TRUE)           *)
(*  - seenAlt, seenButtons  what the last such event said that was read    *)
(*                     since the queue was emptied by force, {} for nothing *)
(*                     yet: these two are only watched                     *)
(*                                                                         *)
(* The devices' handlers note activity first, which locks a session whose  *)
(* idle time is over, and queue their event then.                          *)
(***************************************************************************)
EXTENDS Integers, SequencesExt

CONSTANTS
    Procs,       \* processes that may use the screen
    Manager,     \* the one that claimed the session
    Nobody,
    KeyRoom,     \* keys that fit into the queue: 255
    PointerRoom, \* reports that fit into the pointer's queue: 63
    Places       \* positions of the pointer

ASSUME ConsoleAssumption ==
    /\ Manager \in Procs /\ Nobody \notin Procs
    /\ KeyRoom \in Nat \ {0} /\ PointerRoom \in Nat \ {0}

VARIABLES alive, owner, graphics, locked,
          input, alt, seenAlt, queue, buttons, canMerge, seenButtons

keyboard == <<input, alt, seenAlt>>
pointer == <<queue, buttons, canMerge, seenButtons>>
console == <<alive, owner, graphics, locked, keyboard, pointer>>

Key == [kind : {"char"}] \cup [kind : {"modifiers"}, alt : BOOLEAN]
Char == [kind |-> "char"]
Modifiers(a) == [kind |-> "modifiers", alt |-> a]
Report == [at : Places, down : BOOLEAN]

ConsoleTypeOK ==
    /\ alive \subseteq Procs /\ owner \in alive \cup {Nobody}
    /\ graphics \in BOOLEAN /\ (owner = Nobody => ~graphics) /\ locked \in BOOLEAN
    /\ input \in Seq(Key) /\ Len(input) <= KeyRoom
    /\ queue \in Seq(Report) /\ Len(queue) <= PointerRoom
    /\ alt \in BOOLEAN /\ buttons \in BOOLEAN /\ canMerge \in BOOLEAN
    /\ seenAlt \subseteq BOOLEAN /\ seenButtons \subseteq BOOLEAN

ConsoleInit(procs) ==
    /\ alive = procs /\ owner = Nobody /\ graphics = FALSE /\ locked = FALSE
    /\ input = <<>> /\ alt = FALSE /\ seenAlt = {}
    /\ queue = <<>> /\ buttons = FALSE /\ canMerge = FALSE /\ seenButtons = {}

\* account_interactive_allowed and account_session_allowed
Interactive(p) == p = Manager \/ ~locked
InSession == ~locked
-----------------------------------------------------------------------------
(* The pointer's state as a record, for handlers that may reset it half-way *)

Pointer == [queue |-> queue, buttons |-> buttons, merge |-> canMerge, seen |-> seenButtons]
pointer_reset == [queue |-> <<>>, buttons |-> FALSE, merge |-> FALSE, seen |-> {}]
SetPointer(p) ==
    /\ queue' = p.queue /\ buttons' = p.buttons
    /\ canMerge' = p.merge /\ seenButtons' = p.seen

\* console_release
LeaveScreen(p) ==
    IF owner = p /\ p # Nobody
    THEN owner' = Nobody /\ graphics' = FALSE /\ SetPointer(pointer_reset)
    ELSE UNCHANGED <<owner, graphics, pointer>>

\* console_session_lock: the manager keeps the screen, nobody the old input.
ScreenLocked ==
    /\ owner' = IF owner = Manager THEN owner ELSE Nobody
    /\ graphics' = (graphics /\ owner = Manager)
InputDropped == input' = <<>> /\ seenAlt' = {} /\ SetPointer(pointer_reset)
console_session_lock ==
    /\ ScreenLocked /\ InputDropped /\ UNCHANGED <<alive, alt>>

\* The session ends, by a logout or with the manager: every other process ends
\* too (task_end_session).
EndScreen(left) ==
    /\ alive' = left
    /\ owner' = IF owner \in left THEN owner ELSE Nobody
    /\ graphics' = (graphics /\ owner \in left)
    /\ InputDropped /\ UNCHANGED alt

\* NV_SCREEN_ACQUIRE, NV_DISPLAY_ACQUIRE
Acquire(p, display) ==
    /\ p \in alive /\ Interactive(p) /\ owner = Nobody
    /\ owner' = p /\ graphics' = display
    /\ IF display THEN SetPointer(pointer_reset) ELSE UNCHANGED pointer
    /\ UNCHANGED <<alive, locked, keyboard>>

Release(p) ==
    /\ owner = p /\ LeaveScreen(p)
    /\ UNCHANGED <<alive, locked, keyboard>>
-----------------------------------------------------------------------------
(* Keyboard                                                                *)

\* queue_key: a full queue drops a key, but for modifiers its oldest entry.
queue_key(keys, k) ==
    IF Len(keys) < KeyRoom THEN Append(keys, k)
    ELSE IF k.kind = "modifiers" THEN Append(Tail(keys), k) ELSE keys

\* After the idle lock the queue holds that key alone.
Press(k, idle) ==
    /\ input' = queue_key(IF idle THEN <<>> ELSE input, k)
    /\ alt' = IF k.kind = "modifiers" THEN k.alt ELSE alt
    /\ locked' = (locked \/ idle)
    /\ IF idle THEN ScreenLocked /\ seenAlt' = {} /\ SetPointer(pointer_reset)
       ELSE UNCHANGED <<owner, graphics, seenAlt, pointer>>
    /\ UNCHANGED alive

Keys == {Char, Modifiers(~alt)}
Noted(k, seen) == IF k.kind = "modifiers" THEN {k.alt} ELSE seen

\* raw_key of the owner
ReadKey(p) ==
    /\ owner = p /\ p \in alive /\ Interactive(p) /\ input # <<>>
    /\ input' = Tail(input) /\ seenAlt' = Noted(Head(input), seenAlt)
    /\ UNCHANGED <<alive, owner, graphics, locked, alt, pointer>>

\* console_getc, without an owner: what is no character is passed over.
console_getc ==
    /\ owner = Nobody /\ InSession /\ input # <<>>
    /\ LET chars == {i \in DOMAIN input : input[i].kind = "char"}
           last == IF chars = {} THEN Len(input)
                   ELSE CHOOSE i \in chars : \A j \in chars : i <= j
           passed == {i \in 1 .. last : input[i].kind = "modifiers"}
       IN  /\ input' = SubSeq(input, last + 1, Len(input))
           /\ seenAlt' = IF passed = {} THEN seenAlt
                         ELSE {input[CHOOSE i \in passed : \A j \in passed : i >= j].alt}
    /\ UNCHANGED <<alive, owner, graphics, locked, alt, pointer>>
-----------------------------------------------------------------------------
(* Pointer                                                                 *)

\* pointer_push, of a report that says something new
Pushed(p, r) ==
    LET same == r.down = p.buttons
        n == Len(p.queue)
        room == IF n = PointerRoom THEN Tail(p.queue) ELSE p.queue
    IN  IF same /\ p.merge /\ n > 0
        THEN [p EXCEPT !.queue[n].at = r.at]
        ELSE [p EXCEPT !.queue = Append(room, r), !.buttons = r.down, !.merge = same]

Move(r, idle) ==
    /\ graphics
    /\ SetPointer(Pushed(IF idle THEN pointer_reset ELSE Pointer, r))
    /\ locked' = (locked \/ idle)
    /\ IF idle THEN ScreenLocked /\ input' = <<>> /\ seenAlt' = {}
       ELSE UNCHANGED <<owner, graphics, input, seenAlt>>
    /\ UNCHANGED <<alive, alt>>

\* NV_INPUT_POINTER_POLL
ReadPointer(p) ==
    /\ owner = p /\ p \in alive /\ graphics /\ Interactive(p) /\ queue # <<>>
    /\ SetPointer([Pointer EXCEPT !.queue = Tail(queue), !.seen = {Head(queue).down}])
    /\ UNCHANGED <<alive, owner, graphics, locked, keyboard>>
-----------------------------------------------------------------------------
\* The last modifiers in the queue, or else the last ones read, are those held;
\* the same of the pointer's buttons.  Only an emptied queue may have lost them.
FreshestState ==
    /\ LET told == {i \in DOMAIN input : input[i].kind = "modifiers"}
       IN  /\ told = {} => seenAlt \subseteq {alt}
           /\ \A i \in told : (\A j \in told : i >= j) => input[i].alt = alt
    /\ (IF queue = <<>> THEN seenButtons ELSE {queue[Len(queue)].down}) \subseteq {buttons}
=============================================================================
