------------------------------- MODULE Editor -------------------------------
(***************************************************************************)
(* The word processor (user/folio.c, user/document.c): a document, its     *)
(* history, its file, and the steps of a save, between which other         *)
(* processes sync and power may fail.                                      *)
(*                                                                         *)
(* Positions count from 0, as in the code; a document's cells are a        *)
(* sequence, the last of which is the end.                                 *)
(***************************************************************************)
EXTENDS Integers, Sequences, FiniteSets, SequencesExt

CONSTANTS Width, PageRows,  \* DOC_WIDTH, DOC_PAGE_ROWS
          Depth,            \* UNDO_DEPTH
          Works,            \* what one behaviour exercises
          None

VARIABLES work,             \* capacity, characters, keys and names in use
          doc, clip,        \* the document, the clipboard
          hist,             \* history, hist_at, grouped
          file,             \* path, new_file, disk_pending, saved_hash, and where the text is from
          preview, job,     \* page preview; the save under way, if any
          tree, stable,     \* files as programs see them, and as they were last synced
          told              \* the last message or answer
textVars == <<doc, clip, hist, preview>>
editorVars == <<work, doc, clip, hist, file, preview, job, tree, stable, told>>

(***************************************************************************)
(* Documents (document.c)                                                  *)
(***************************************************************************)
End   == [ch |-> "end", font |-> {}, para |-> {}]
Blank == [cell |-> <<End>>, cursor |-> 0, anchor |-> None, typing |-> {}]
Lesser(x, y)  == IF x < y THEN x ELSE y
Greater(x, y) == IF x > y THEN x ELSE y

Length(d) == Len(d.cell) - 1
At(d, p)  == d.cell[p + 1]
Low(d)    == IF d.anchor = None THEN d.cursor ELSE Lesser(d.cursor, d.anchor)
High(d)   == IF d.anchor = None THEN d.cursor ELSE Greater(d.cursor, d.anchor)
Starts(d, p)    == p = 0 \/ At(d, p - 1).ch = "nl"
ParaStart(d, p) == CHOOSE s \in 0 .. p : Starts(d, s) /\ \A q \in s + 1 .. p : ~Starts(d, q)

\* The first cell of a paragraph has the format of all.
Normalized(d) ==
    [d EXCEPT !.cell = [n \in DOMAIN d.cell |->
        [d.cell[n] EXCEPT !.para = At(d, ParaStart(d, n - 1)).para,
                          !.ch = IF n = Len(d.cell) THEN "end" ELSE @]]]
Fits(d, n) == n <= work.cap - (Length(d) - (High(d) - Low(d)))
Put(d, cells) ==
    Normalized([d EXCEPT !.cell = SubSeq(@, 1, Low(d)) \o cells \o SubSeq(@, High(d) + 1, Len(@)),
                         !.cursor = Low(d) + Len(cells), !.anchor = None])
Insert(d, cells) == IF Fits(d, Len(cells)) THEN Put(d, cells) ELSE d

\* After a heading comes body text, and a page break is not repeated.
Next1(para) == para \ {"heading", "break"}
Type(d, c) ==
    LET para == At(d, d.cursor).para
        e == Insert(d, <<[ch |-> c, font |-> d.typing, para |-> para]>>)
    IN  IF c # "nl" \/ ~Fits(d, 1) THEN e
        ELSE Normalized([e EXCEPT !.cell[e.cursor + 1].para = Next1(para), !.typing = {}])
Delete(d, back) ==
    IF Low(d) # High(d) THEN Put(d, <<>>)
    ELSE IF back /\ d.cursor > 0 THEN Put([d EXCEPT !.anchor = d.cursor - 1], <<>>)
    ELSE IF ~back /\ d.cursor < Length(d) THEN Put([d EXCEPT !.anchor = d.cursor, !.cursor = @ + 1], <<>>)
    ELSE d
Toggled(set, flag) == IF flag \in set THEN set \ {flag} ELSE set \cup {flag}
Font(d, flag) ==
    LET chosen == Low(d) + 1 .. High(d)
        all == \A n \in chosen : flag \in d.cell[n].font
    IN  IF chosen = {} THEN [d EXCEPT !.typing = Toggled(@, flag)]
        ELSE [d EXCEPT !.cell = [n \in DOMAIN @ |->
                  IF n \notin chosen THEN @[n]
                  ELSE [@[n] EXCEPT !.font = IF all THEN @ \ {flag} ELSE @ \cup {flag}]]]
Paragraph(d, mask, value) ==
    LET last == IF Low(d) = High(d) THEN High(d) ELSE High(d) - 1
        Hit(p) == p \in ParaStart(d, Low(d)) .. last /\ Starts(d, p)
    IN  Normalized([d EXCEPT !.cell = [n \in DOMAIN @ |->
            IF Hit(n - 1) THEN [@[n] EXCEPT !.para = (@ \ mask) \cup value] ELSE @[n]]])

Matches(d, p, s) ==
    p + Len(s) <= Length(d) /\ \A i \in 1 .. Len(s) : d.cell[p + i].ch = s[i]
FirstOf(set) == CHOOSE p \in set : \A q \in set : p <= q
Find(d, s) ==
    LET hits == {p \in 0 .. Length(d) : Matches(d, p, s)}
        after == {p \in hits : p >= High(d)}
        p == FirstOf(IF after # {} THEN after ELSE hits)
    IN  IF s = <<>> \/ hits = {} THEN d ELSE [d EXCEPT !.anchor = p, !.cursor = p + Len(s)]

\* How often a word occurs, one place after the other
RECURSIVE Occurs(_, _, _)
Occurs(d, p, s) == IF p + Len(s) > Length(d) THEN 0
                   ELSE IF Matches(d, p, s) THEN 1 + Occurs(d, p + Len(s), s) ELSE Occurs(d, p + 1, s)
RECURSIVE Replaced(_, _, _, _)
Replaced(d, p, s, t) ==
    IF p + Len(s) > Length(d) THEN d
    ELSE IF ~Matches(d, p, s) THEN Replaced(d, p + 1, s, t)
    ELSE LET new == [i \in 1 .. Len(t) |-> [At(d, p) EXCEPT !.ch = t[i]]]
         IN  Replaced(Insert([d EXCEPT !.anchor = p, !.cursor = p + Len(s)], new), p + Len(t), s, t)
RoomFor(d, s, t) ==
    Len(t) > Len(s) => Occurs(d, 0, s) <= (work.cap - Length(d)) \div (Len(t) - Len(s))
ReplaceEach(d, s, t) == IF RoomFor(d, s, t) THEN Replaced(d, 0, s, t) ELSE d

(***************************************************************************)
(* Lines (document.c)                                                      *)
(***************************************************************************)
\* Where a line that begins at p ends: at the paragraph's end or after a word
ParaEnd(d, p) == CHOOSE e \in p .. Length(d) : At(d, e).ch \in {"nl", "end"}
                     /\ \A q \in p .. e - 1 : At(d, q).ch \notin {"nl", "end"}
LineEnd(d, p) ==
    LET end == ParaEnd(d, p)
        q == Lesser(end, p + Width)
        words == {w \in p + 1 .. q : At(d, w - 1).ch = "sp"}
    IN  IF q = end \/ words = {} THEN q ELSE CHOOSE w \in words : \A x \in words : x <= w

Row(v) == (v \div PageRows) * (PageRows + 3) + 1 + (v % PageRows)
OnNewPage(v) == IF v % PageRows = 0 THEN v ELSE v + PageRows - (v % PageRows)
RECURSIVE Lines(_, _, _)
Lines(d, p, v) ==
    LET row == IF "break" \in At(d, p).para /\ p > 0 /\ Starts(d, p) THEN OnNewPage(v) ELSE v
        q == LineEnd(d, p)
        line == [first |-> p, end |-> q, visual |-> Row(row)]
    IN  <<line>> \o IF At(d, q).ch = "end" THEN <<>>
                    ELSE IF At(d, q).ch = "nl" THEN Lines(d, q + 1, row + 2)
                    ELSE Lines(d, q, row + 1)
Layout(d) == Lines(d, 0, 0)
LineAt(lines, p) ==
    LET Of(n) == \/ p < lines[n].end
                 \/ p = lines[n].end /\ (n = Len(lines) \/ lines[n + 1].first # p)
    IN  FirstOf({n \in DOMAIN lines : Of(n)})

(***************************************************************************)
(* Editing (folio.c)                                                       *)
(***************************************************************************)
\* What the editor does: it waits for a key, it has been closed, or it saves.
Idle   == [step |-> "edit"]
Closed == [step |-> "closed"]
Editing == job = Idle /\ ~preview
Is(key) == key \in work.keys
Ungrouped == hist' = [hist EXCEPT !.grouped = FALSE]

Checkpoint(typing) ==
    LET before == SubSeq(hist.list, 1, hist.at)
        kept == IF hist.at = Depth THEN Tail(before) ELSE before
    IN  IF typing /\ hist.grouped THEN hist
        ELSE [list |-> Append(kept, doc), at |-> Len(kept) + 1, grouped |-> typing]
Edit(d, typing, closes) ==
    /\ Editing
    /\ doc' = d
    /\ hist' = [Checkpoint(typing) EXCEPT !.grouped = @ /\ ~closes]
    /\ told' = "" /\ UNCHANGED <<work, clip, file, preview, job, tree, stable>>

TypeKey == Is("type") /\ \E c \in work.chars : Edit(Type(doc, c), TRUE, c \in {"sp", "nl"})
\* two spaces, for four
TabKey ==
    /\ Is("tab")
    /\ Edit(Insert(doc, [i \in 1 .. 2 |-> [ch |-> "sp", font |-> doc.typing, para |-> At(doc, doc.cursor).para]]),
            TRUE, TRUE)
EraseKey == Is("type") /\ \E back \in BOOLEAN : Edit(Delete(doc, back), TRUE, FALSE)
BreakKey ==
    /\ Is("para")
    /\ LET d == Type(doc, "nl")
       IN  Edit(IF Fits(doc, 1) THEN Paragraph(d, {"break"}, {"break"}) ELSE d, FALSE, TRUE)
FontKey == Is("font") /\ Edit(Font(doc, "bold"), FALSE, TRUE)
StyleKey == Is("para") /\ \E style \in {{}, {"heading"}} : Edit(Paragraph(doc, {"heading"}, style), FALSE, TRUE)
MarkKey ==
    /\ Is("para")
    /\ Edit(Paragraph(doc, {"break"}, {"break"} \ At(doc, doc.cursor).para), FALSE, TRUE)
ReplaceKey == Is("replace") /\ \E t \in {<<>>, <<"a", "a">>} : Edit(ReplaceEach(doc, <<"a">>, t), FALSE, TRUE)
PasteKey == Is("clip") /\ clip # <<>> /\ Edit(Insert(doc, clip), FALSE, TRUE)
Chosen == SubSeq(doc.cell, Low(doc) + 1, High(doc))
CopyKey ==
    /\ Editing /\ Is("clip") /\ Chosen # <<>>
    /\ clip' = Chosen /\ told' = ""
    /\ \/ Ungrouped /\ UNCHANGED doc
       \/ doc' = Delete(doc, FALSE) /\ hist' = Checkpoint(FALSE)
    /\ UNCHANGED <<work, file, preview, job, tree, stable>>

\* What moves the cursor: keys, with the shift key or without; a search
Look(d) ==
    /\ Editing
    /\ doc' = d /\ Ungrouped
    /\ told' = "" /\ UNCHANGED <<work, clip, file, preview, job, tree, stable>>
Under(d) == At(d, IF d.cursor < Length(d) THEN d.cursor ELSE IF d.cursor > 0 THEN d.cursor - 1 ELSE 0).font
Moved(p, shift) ==
    LET d == [doc EXCEPT !.cursor = p, !.anchor = IF ~shift THEN None ELSE IF @ = None THEN doc.cursor ELSE @]
    IN  [d EXCEPT !.typing = Under(d)]
MoveKey == Is("move") /\ \E p \in 0 .. Length(doc), shift \in {Is("select"), FALSE} : Look(Moved(p, shift))
AllKey  == Is("select") /\ Look([doc EXCEPT !.anchor = 0, !.cursor = Length(doc)])
FindKey == Is("replace") /\ Look(Find(doc, <<"a">>))

UndoKey ==
    /\ Editing /\ Is("undo")
    /\ \/ /\ hist.at > 0
          /\ doc' = hist.list[hist.at]
          /\ hist' = [list |-> [hist.list EXCEPT ![hist.at] = doc], at |-> hist.at - 1, grouped |-> FALSE]
       \/ /\ hist.at < Len(hist.list)
          /\ doc' = hist.list[hist.at + 1]
          /\ hist' = [list |-> [hist.list EXCEPT ![hist.at + 1] = doc], at |-> hist.at + 1, grouped |-> FALSE]
    /\ told' = "" /\ UNCHANGED <<work, clip, file, preview, job, tree, stable>>
PreviewKey ==
    /\ job = Idle /\ Is("preview")
    /\ preview' = ~preview /\ Ungrouped
    /\ told' = "" /\ UNCHANGED <<work, doc, clip, file, job, tree, stable>>
Edits ==
    \/ TypeKey \/ TabKey \/ EraseKey \/ BreakKey \/ FontKey \/ StyleKey \/ MarkKey \/ ReplaceKey
    \/ PasteKey \/ CopyKey \/ MoveKey \/ AllKey \/ FindKey \/ UndoKey \/ PreviewKey

(***************************************************************************)
(* Files (folio.c)                                                         *)
(***************************************************************************)
\* A name has an extension and lies below /home or not; "temp" is the name that
\* atomic_write makes up.
Name(ext, home) == [ext |-> ext, home |-> home]
Temp(name) == Name("temp", name.home)
Default == Name("nvd", TRUE)
AllNames == [ext : {"nvd", "txt", "rtf", "temp"}, home : BOOLEAN]

PlainCell(c) == [ch |-> c, font |-> {}, para |-> {}]
Formatted(d) == \E n \in DOMAIN d.cell : d.cell[n].font # {} \/ d.cell[n].para # {}
Encoded(d, native) == IF native THEN [magic |-> TRUE, cell |-> d.cell]
                      ELSE [magic |-> FALSE, cell |-> [n \in 1 .. Length(d) |-> PlainCell(d.cell[n].ch)]]
Rtf  == [magic |-> FALSE, cell |-> <<PlainCell("rtf")>>]
Part == [magic |-> FALSE, cell |-> <<PlainCell("part")>>]

\* What doc_decode asks of the cells of a native file
Valid(cells) ==
    /\ Len(cells) - 1 <= work.cap
    /\ \A n \in DOMAIN cells : (n = Len(cells)) <=> (cells[n].ch = "end")
    /\ \A n \in 2 .. Len(cells) : cells[n - 1].ch # "nl" => cells[n].para = cells[n - 1].para
\* The cells that reading a file gives, or none
Decoded(content, name) ==
    IF content = None THEN <<>>
    ELSE IF content.magic THEN IF Valid(content.cell) THEN content.cell ELSE <<>>
    ELSE IF name.ext = "nvd" \/ \E n \in DOMAIN content.cell : content.cell[n].ch \in {"rtf", "part"} THEN <<>>
    ELSE Append(content.cell, End)

Fresh(path) == [path |-> path, fresh |-> TRUE, pending |-> FALSE, saved |-> Blank.cell, from |-> "new"]
NoHistory == [list |-> <<>>, at |-> 0, grouped |-> FALSE]
Emptied(path) == doc' = Blank /\ file' = Fresh(path) /\ hist' = NoHistory
Read(name) ==
    LET cells == Decoded(tree[name], name)
    IN  /\ cells # <<>>
        /\ doc' = [Blank EXCEPT !.cell = cells]
        /\ file' = [path |-> name, fresh |-> FALSE, pending |-> FALSE, saved |-> cells, from |-> "read"]
        /\ hist' = NoHistory /\ preview' = FALSE

\* user_main
Start ==
    /\ job = Closed
    /\ job' = Idle /\ told' = "" /\ clip' = <<>>
    /\ \/ Emptied(None) /\ preview' = FALSE
       \/ \E name \in work.names : Read(name)
       \/ \E name \in work.names : tree[name] = None /\ Emptied(name) /\ preview' = FALSE
    /\ UNCHANGED <<work, tree, stable>>

\* save, up to the write: a name is asked for where it is needed.  Who cancels, or
\* does not want an existing file replaced, has changed nothing.
Job(name, content, next) == [name |-> name, content |-> content, next |-> next, step |-> "create"]
Named(as) ==
    LET start == IF file.path = None THEN Default ELSE file.path
        needed == as \/ file.fresh \/ (Formatted(doc) /\ start.ext # "nvd")
    IN  IF needed THEN work.names ELSE {start}
SaveTo(name, next) ==
    /\ name.ext \in {"nvd", "txt"}
    /\ name.ext # "nvd" => ~Formatted(doc)
    /\ job' = Job(name, Encoded(doc, name.ext = "nvd"), next)
Save(next) == \E as \in BOOLEAN : \E name \in Named(as) : SaveTo(name, next)

Dirty == doc.cell # file.saved
\* mutated: a failed sync is forgotten.
MayLeaveClean == ~Dirty
MayLeave == ~Dirty /\ ~file.pending
\* What follows when the document may be left
Quits == job' = Closed /\ UNCHANGED <<doc, file, hist, preview>>
News  == job' = Idle /\ Emptied(None) /\ UNCHANGED preview
Opens == job' = Idle /\ \E name \in work.names : Read(name)
Follow(next) ==
    \/ next = "quit" /\ Quits
    \/ next = "new" /\ News
    \/ next = "open" /\ (Opens \/ (job' = Idle /\ Ungrouped /\ UNCHANGED <<doc, file, preview>>))

SaveKey ==
    /\ Editing /\ Is("file") /\ Save("stay")
    /\ told' = "" /\ Ungrouped /\ UNCHANGED <<work, doc, clip, file, preview, tree, stable>>
ExportKey ==
    /\ Editing /\ Is("export")
    /\ \E name \in {n \in work.names : n.ext = "rtf"} :
           job' = Job(name, Rtf, "export")
    /\ told' = "" /\ Ungrouped /\ UNCHANGED <<work, doc, clip, file, preview, tree, stable>>
\* Help, or a question that is answered by Esc
AskKey ==
    /\ Editing /\ Is("file") /\ Ungrouped
    /\ told' = "" /\ UNCHANGED <<work, doc, clip, file, preview, job, tree, stable>>
LeaveKey ==
    /\ job = Idle /\ Is("file")
    /\ \E next \in {"quit"} \cup IF preview THEN {} ELSE {"new", "open"} :
        \/ MayLeave /\ Follow(next) /\ told' = "left"
        \/ ~MayLeave /\ Follow(next) /\ told' = "discarded"
        \/ ~MayLeave /\ Save(next) /\ told' = "" /\ Ungrouped /\ UNCHANGED <<doc, file, preview>>
    /\ UNCHANGED <<work, clip, tree, stable>>

\* atomic_write, and the sync after it
Saving(step) == job.step = step
Goes(step) == job' = [job EXCEPT !.step = step]
\* mutated: the file itself is written.
WrittenInPlace == job.name
Written == Temp(job.name)
Create ==
    /\ Saving("create") /\ Goes("write")
    /\ tree' = [tree EXCEPT ![Written] = Part]
    /\ UNCHANGED <<work, textVars, file, stable, told>>
Fill ==
    /\ Saving("write") /\ Goes("replace")
    /\ tree' = [tree EXCEPT ![Written] = job.content]
    /\ UNCHANGED <<work, textVars, file, stable, told>>
SwapIn ==
    /\ Saving("replace") /\ Goes("sync")
    /\ tree' = [tree EXCEPT ![job.name] = tree[Written], ![Written] = None]
    /\ file' = IF job.next = "export" THEN file
               ELSE [file EXCEPT !.path = job.name, !.fresh = FALSE, !.saved = doc.cell, !.from = "written"]
    /\ UNCHANGED <<work, textVars, stable, told>>
WriteFails ==
    /\ job.step \in {"create", "write", "replace"}
    /\ tree' = [tree EXCEPT ![Written] = None]
    /\ job' = Idle /\ told' = "failed"
    /\ UNCHANGED <<work, textVars, file, stable>>
Synced == [n \in AllNames |-> IF n.home /\ n.ext # "temp" THEN tree[n] ELSE None]
Sync(works) ==
    /\ Saving("sync")
    /\ stable' = IF works THEN Synced ELSE stable
    /\ LET lasting == works /\ job.name.home
       IN  /\ told' = IF lasting THEN "disk" ELSE "ram"
           /\ \/ /\ job.next \in {"stay", "export"} \/ ~lasting
                 /\ job' = Idle
                 /\ file' = IF job.next = "export" THEN file ELSE [file EXCEPT !.pending = ~lasting]
                 /\ UNCHANGED <<doc, hist, preview>>
              \/ /\ job.next \notin {"stay", "export"} /\ lasting
                 /\ Follow(job.next)
    /\ UNCHANGED <<work, clip, tree>>
Saves == Create \/ Fill \/ SwapIn \/ WriteFails \/ \E works \in BOOLEAN : Sync(works)

\* Another process syncs; power fails.
OthersSync == Is("power") /\ stable' = Synced /\ UNCHANGED <<work, textVars, file, job, tree, told>>
PowerLoss ==
    /\ Is("power")
    /\ tree' = stable /\ job' = Closed /\ told' = ""
    /\ doc' = Blank /\ file' = Fresh(None) /\ hist' = NoHistory /\ clip' = <<>> /\ preview' = FALSE
    /\ UNCHANGED <<work, stable>>

Init ==
    /\ work \in Works
    /\ doc = Blank /\ clip = <<>> /\ hist = NoHistory /\ preview = FALSE
    /\ file = Fresh(None) /\ job = Idle /\ told = ""
    /\ tree = [n \in AllNames |-> None] /\ stable = tree
Next == Edits \/ Start \/ SaveKey \/ ExportKey \/ AskKey \/ LeaveKey \/ Saves \/ OthersSync \/ PowerLoss
Spec == Init /\ [][Next]_editorVars

(***************************************************************************)
(* Properties                                                              *)
(***************************************************************************)
\* Every document, also in the history, is one that its own file format accepts
\* (doc_decode), so that what was saved can be opened again.
Reopenable == Valid(doc.cell) /\ \A n \in DOMAIN hist.list : Valid(hist.list[n].cell)
\* A file is never seen half written, by a program or after a power loss (atomic_write).
FilesWhole == \A n \in AllNames : n.ext # "temp" => Part \notin {tree[n], stable[n]}
\* The lines are the document, each place is in one of them, and rows are in order
\* and within pages (doc_layout, doc_line_at).
LayoutTrue ==
    LET lines == Layout(doc)
    IN  /\ lines[1].first = 0 /\ Last(lines).end = Length(doc)
        /\ \A n \in 2 .. Len(lines) :
               /\ lines[n].first = lines[n - 1].end + IF At(doc, lines[n - 1].end).ch = "nl" THEN 1 ELSE 0
               /\ lines[n - 1].visual < lines[n].visual
        /\ \A n \in DOMAIN lines :
               lines[n].end - lines[n].first <= Width /\ lines[n].visual % (PageRows + 3) \in 1 .. PageRows
        /\ \A p \in 0 .. Length(doc) :
               LET l == lines[LineAt(lines, p)] IN l.first <= p /\ p <= l.end

\* A document that is left unasked is a new one that is empty, or one that its file
\* holds, on the disk if this editor has written it; and what is called saved to disk
\* is there (can_leave, save).
Holds(files, name) == name # None /\ Decoded(files[name], name) = doc.cell
NothingLost ==
    [][/\ LeaveKey /\ told' = "left" =>
              \/ file.from = "new" /\ doc.cell = Blank.cell
              \/ file.from # "new" /\ Holds(tree, file.path) /\ (file.from = "written" => Holds(stable, file.path))
       /\ (\E works \in BOOLEAN : Sync(works)) /\ told' = "disk" /\ job.next # "export" =>
              Holds(stable', job.name)]_editorVars

\* Undo and redo keep their promise.
Cells(documents) == [n \in DOMAIN documents |-> documents[n].cell]
History == INSTANCE Timeline WITH
    past <- Cells(SubSeq(hist.list, 1, hist.at)), present <- doc.cell,
    future <- Cells(SubSeq(hist.list, hist.at + 1, Len(hist.list)))
Undoes == History!Spec
=============================================================================
