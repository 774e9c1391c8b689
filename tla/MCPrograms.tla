------------------------------ MODULE MCPrograms ------------------------------
(***************************************************************************)
(* What programs share, for TLC: windows and the console (Window) or       *)
(* memory (Spaces); and what one does alone: the word processor (Editor).  *)
(* One of them runs, chosen at the start.                                  *)
(***************************************************************************)
EXTENDS MCWindow

VARIABLES part

(***************************************************************************)
(* Spaces                                                                  *)
(***************************************************************************)
CONSTANTS Memory, Levels, Fan, HeapMax, MapBase, VmaMax, MemoryMax, StackPages, Kinds, None, Kernel
VARIABLES mem, root, maps, heap, other, stack, failed
spacesVars == <<mem, root, maps, heap, other, stack, failed>>
Space == INSTANCE Spaces

\* The tables below a page, whatever the numbers of the pages are
RECURSIVE Shape(_, _)
Shape(t, depth) ==
    IF t = None THEN None
    ELSE [i \in Space!Slot |->
             LET e == mem.at[t][i]
             IN  IF ~Space!IsPage(e) THEN e
                 ELSE IF depth = 1 THEN <<e.can, mem.data[e.to]>> ELSE Shape(e.to, depth - 1)]

\* Pages and mappings agree, and no page is lost (memory64.c, linux_memory.h).
SpacesSound == part = "spaces" => Space!PagesAccounted /\ Space!MapsTrue
\* A call that fails has changed nothing (linux_memory.h, task.c).
FailsWhole == Space!FailsWhole

(***************************************************************************)
(* Editor                                                                  *)
(***************************************************************************)
CONSTANTS Width, PageRows, Depth, Works
VARIABLES work, doc, clip, hist, file, preview, job, tree, stable, said
editorVars == <<work, doc, clip, hist, file, preview, job, tree, stable, said>>
Folio == INSTANCE Editor WITH told <- said

Exercise(cap, chars, keys, names) == [cap |-> cap, chars |-> chars, keys |-> keys, names |-> names]
Home(ext) == [ext |-> ext, home |-> TRUE]
\* Formats of up to three cells; cutting, pasting and replacing; undo; saves that
\* fail; two formats of files
Documents ==
    {Exercise(3, {"a", "nl"}, {"type", "para", "move", "select"}, {}),
     Exercise(2, {"a", "nl"}, {"type", "font", "para", "move", "select"}, {}),
     Exercise(3, {"a", "sp"}, {"type", "tab", "clip", "move", "select", "replace"}, {}),
     Exercise(2, {"a", "sp"}, {"type", "undo", "move"}, {}),
     Exercise(2, {"a"}, {"type", "file", "power"}, {Home("nvd"), [ext |-> "nvd", home |-> FALSE]}),
     Exercise(1, {"a"}, {"type", "font", "file"}, {Home("nvd"), Home("txt")}),
     Exercise(1, {"a"}, {"type", "file", "export", "preview"}, {Home("txt"), Home("rtf")})}
Undone == "undo" \in work.keys

\* Documents can be opened again and files are whole (document.c, folio.c).
EditorSound == part = "editor" => Folio!Reopenable /\ Folio!FilesWhole /\ Folio!LayoutTrue
\* No edit is lost unasked, and undo and redo are exact (folio.c).
EditorPromise == Folio!NothingLost /\ Folio!Undoes

(***************************************************************************)
(* One of them                                                             *)
(***************************************************************************)
Unless(name, start) == part # name => start
MCInit ==
    /\ part \in {"windows", "spaces", "editor"}
    /\ Init
    /\ Unless("windows", workload = Devices)
    /\ Space!Init
    /\ Folio!Init
    /\ Unless("editor", Undone)

Of(name) == part = name /\ UNCHANGED part
OfWindows == Of("windows") /\ Next /\ UNCHANGED <<spacesVars, editorVars>>
OfSpaces  == Of("spaces") /\ Space!Next /\ UNCHANGED <<vars, editorVars>>
OfEditor  == Of("editor") /\ Folio!Next /\ UNCHANGED <<vars, spacesVars>>
MCNext == OfWindows \/ OfSpaces \/ OfEditor
MCSpec == MCInit /\ [][MCNext]_<<part, vars, spacesVars, editorVars>>

\* Which page is where, and a history that nobody asks for, are the same to every
\* later step.
Fingerprint ==
    <<part, tree, stable,
      CASE part = "windows" -> vars
        [] part = "spaces" -> <<Shape(root, Levels), Shape(other, Levels),
                                Cardinality(mem.free), mem.panic, maps, heap, Cardinality(stack)>>
        [] part = "editor" -> <<work, doc, clip, IF Undone THEN hist ELSE <<>>, file, preview, job>>>>
=============================================================================
