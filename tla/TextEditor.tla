------------------------------ MODULE TextEditor ------------------------------
(* The text editor, from the lines of its buffer to what its keys do, and its  *)
(* highlighter.                                                                *)
EXTENDS Integers, Sequences, FiniteSets, SequencesExt, FiniteSetsExt

-------------------------------------------------------------------------------
(***************************************************************************)
(* The text buffer of the editor (apps/text_editor/buffer.c): a gap buffer *)
(* with a cursor, a mark, a cache of line starts and a stack of undo       *)
(* records.  The functions of the buffer are operators from one value of   *)
(* the structure to the next; the programs that call them are the editor  *)
(* and the engine further down.                                            *)
(*                                                                         *)
(* data holds the bytes with the gap in it; what the gap holds is Junk.    *)
(* Positions count from 0, as in the code.                                 *)
(*                                                                         *)
(* Three fields are not the structure's.  heap is how many more copies of  *)
(* a text the heap has memory for: an edit needs up to three, and what it  *)
(* cannot get it goes without.  The others are history: unlogged, an edit  *)
(* or its undoing has not been recorded; torn, a file was read in part (a  *)
(* save may have spread what that left).                                   *)
(*                                                                         *)
(* The stack grows once it is full and the new records are never           *)
(* initialised: what is pushed, redone or freed after that uses whatever   *)
(* their text pointers are.  C gives that no meaning; the buffer is wild   *)
(* then and the behaviour ends.                                            *)
(***************************************************************************)

CONSTANTS
    Junk,          \* what a byte of the gap holds
    NoFile,        \* no file name
    GapSize,       \* GAP_INITIAL and GAP_GROW
    MaxAlloc,      \* bytes the heap has for one buffer
    UNDO_CAP       \* records before the stack grows

ASSUME BufferConstants ==
    GapSize \in Nat \ {0} /\ MaxAlloc \in Nat /\ UNDO_CAP \in Nat \ {0}

Gap(n) == [i \in 1 .. n |-> Junk]

Smaller(m, n) == IF m <= n THEN m ELSE n
Larger(m, n) == IF m >= n THEN m ELSE n

-----------------------------------------------------------------------------
\* The gap.

Alloc(b) == Len(b.data)
buf_length(b) == Alloc(b) - (b.gap_end - b.gap_start)

gap_move(b, pos) ==
    LET move == IF pos < b.gap_start THEN b.gap_start - pos ELSE pos - b.gap_start
        size == b.gap_end - b.gap_start
    IN  IF pos < b.gap_start
        THEN [b EXCEPT !.data = SubSeq(@, 1, pos) \o Gap(size) \o SubSeq(@, pos + 1, b.gap_start)
                                  \o SubSeq(@, b.gap_end + 1, Len(@)),
                       !.gap_start = @ - move, !.gap_end = @ - move]
        ELSE [b EXCEPT !.data = SubSeq(@, 1, b.gap_start) \o SubSeq(@, b.gap_end + 1, b.gap_end + move)
                                  \o Gap(size) \o SubSeq(@, b.gap_end + move + 1, Len(@)),
                       !.gap_start = @ + move, !.gap_end = @ + move]

GapGrowth(b, needed) ==
    IF b.gap_end - b.gap_start >= needed THEN 0
    ELSE needed - (b.gap_end - b.gap_start) + GapSize

HasRoom(b, needed) == Alloc(b) + GapGrowth(b, needed) <= MaxAlloc

\* gap_ensure, when the memory is there.
gap_ensure(b, needed) ==
    LET grow == GapGrowth(b, needed)
    IN  [b EXCEPT !.data = SubSeq(@, 1, b.gap_end) \o Gap(grow) \o SubSeq(@, b.gap_end + 1, Len(@)),
                  !.gap_end = @ + grow]

phys(b, pos) == IF pos < b.gap_start THEN pos ELSE pos + (b.gap_end - b.gap_start)

buffer_char_at(b, pos) == IF pos >= buf_length(b) THEN "0" ELSE b.data[phys(b, pos) + 1]

\* The text as the program reads it, and a part of it.  Past its end it reads 0s.
Contents(b) == [i \in 1 .. buf_length(b) |-> buffer_char_at(b, i - 1)]
Extract(b, start, len) == [i \in 1 .. len |-> buffer_char_at(b, start + i - 1)]

-----------------------------------------------------------------------------
\* The cache of line starts.

LineStarts(text) ==
    SetToSortSeq({0} \cup {i \in 1 .. Len(text) : text[i] = "nl"}, LAMBDA m, n : m < n)

lines_mark_dirty(b) == [b EXCEPT !.lines_dirty = TRUE]

\* lines_ensure with lines_rebuild.
lines_ensure(b) ==
    IF b.lines_dirty THEN [b EXCEPT !.lines = LineStarts(Contents(b)), !.lines_dirty = FALSE] ELSE b

\* The queries of lines below take a buffer on which lines_ensure was called.
line_count(b) == Len(b.lines)
Clamped(b, line) == Larger(0, Smaller(line, line_count(b) - 1))

\* The binary search of buffer_pos_to_lc finds the last line that starts at or
\* before the position.
LineOf(b, pos) == Cardinality({i \in DOMAIN b.lines : b.lines[i] <= pos}) - 1
ColumnOf(b, pos) == pos - b.lines[LineOf(b, pos) + 1]

buffer_line_start(b, line) == b.lines[Clamped(b, line) + 1]

\* Where the next line starts, or the end of the text.
NextStart(b, line) == IF line + 1 < line_count(b) THEN b.lines[line + 2] ELSE buf_length(b)

\* A negative column is a huge one: the comparison is unsigned.
buffer_lc_to_pos(b, line, col) ==
    LET l == Clamped(b, line)
        start == b.lines[l + 1]
        end == IF l + 1 < line_count(b) THEN b.lines[l + 2] - 1 ELSE buf_length(b)
    IN  start + (IF col < 0 \/ col > end - start THEN end - start ELSE col)

buffer_line_end(b, line) ==
    LET next == NextStart(b, Clamped(b, line))
    IN  IF next > 0 /\ buffer_char_at(b, next - 1) = "nl" THEN next - 1 ELSE next

\* An empty last line ends one before it starts (its end is looked for behind the
\* newline that precedes it); buffer_line_text then asks for no memory, gets NULL
\* and returns it.
HasText(b, line) == buffer_line_end(b, line) >= buffer_line_start(b, line)

buffer_line_text(b, line) ==
    LET start == buffer_line_start(b, line)
    IN  Extract(b, start, Larger(0, buffer_line_end(b, line) - start))

-----------------------------------------------------------------------------
\* The cursor.

buffer_cursor_set(b, pos) == [b EXCEPT !.cursor = Smaller(pos, buf_length(b))]

buffer_cursor_move(b, delta) ==
    [b EXCEPT !.cursor = IF delta < 0 THEN Larger(@ + delta, 0) ELSE Smaller(@ + delta, buf_length(b))]

buffer_cursor_line(b, delta) ==
    LET c == lines_ensure(b)
    IN  [c EXCEPT !.cursor = buffer_lc_to_pos(c, LineOf(c, @) + delta, ColumnOf(c, @))]

buffer_cursor_home(b) ==
    LET c == lines_ensure(b) IN [c EXCEPT !.cursor = buffer_line_start(c, LineOf(c, @))]

buffer_cursor_end(b) ==
    LET c == lines_ensure(b) IN [c EXCEPT !.cursor = buffer_line_end(c, LineOf(c, @))]

\* Positions past the end stay where they are: both loops end at once.
buffer_cursor_word_forward(b) ==
    LET len == buf_length(b)
        word == Min({len} \cup {p \in b.cursor .. len - 1 : buffer_char_at(b, p) # "sp"})
        end == Min({len} \cup {p \in word .. len - 1 : buffer_char_at(b, p) \in {"sp", "nl"}})
    IN  IF b.cursor >= len THEN b ELSE [b EXCEPT !.cursor = end]

buffer_cursor_word_back(b) ==
    LET last == Max({0} \cup {p \in 1 .. b.cursor - 1 : buffer_char_at(b, p) # "sp"})
        start == Max({0} \cup {p \in 1 .. last : buffer_char_at(b, p - 1) \in {"sp", "nl"}})
    IN  IF b.cursor = 0 THEN b ELSE [b EXCEPT !.cursor = start]

-----------------------------------------------------------------------------
\* Undo records, insertion and deletion.  log is in_undo negated.

\* A mistake: what could be redone stays.
undo_push_keeps(b, type, pos, text, held) ==
    [b EXCEPT !.stack = Append(@, [type |-> type, pos |-> pos, text |-> text]), !.undo_top = @ + 1]

\* undo_push, by a caller that holds so many copies: what could be redone is
\* forgotten, a full stack grows, and the record is made if there is memory for both.
undo_push(b, type, pos, text, held) ==
    LET kept == SubSeq(b.stack, 1, b.undo_top)
        full == ~b.grown /\ b.undo_top >= UNDO_CAP
        made == b.heap > held + (IF full THEN 1 ELSE 0)
    IN  [b EXCEPT !.stack = IF made THEN Append(kept, [type |-> type, pos |-> pos, text |-> text]) ELSE kept,
                  !.undo_top = IF made THEN @ + 1 ELSE @,
                  !.unlogged = @ \/ ~made,
                  !.grown = @ \/ (full /\ b.heap > held),
                  !.wild = @ \/ b.grown]

Inserted(b, at, text, log) ==
    LET pos == Smaller(at, buf_length(b))
        c == gap_move(gap_ensure(b, Len(text)), pos)
        d == [c EXCEPT !.data = SubSeq(@, 1, c.gap_start) \o text
                                  \o SubSeq(@, c.gap_start + Len(text) + 1, Len(@)),
                       !.gap_start = @ + Len(text),
                       !.cursor = IF @ >= pos THEN @ + Len(text) ELSE @,
                       !.modified = TRUE]
        e == lines_mark_dirty(d)
    IN  IF Len(text) = 0 \/ ~HasRoom(b, Len(text)) THEN b
        ELSE IF log THEN undo_push(e, "INSERT", pos, text, 0) ELSE e

buffer_insert(b, at, text) == Inserted(b, at, text, TRUE)

\* What is deleted is copied first; without memory for it nothing is deleted, and
\* buffer_undo and buffer_redo, which do not ask, count it as done.
Deleted(b, pos, length, log) ==
    LET len == Smaller(length, buf_length(b) - pos)
        c == IF log THEN undo_push(b, "DELETE", pos, Extract(b, pos, len), 1) ELSE b
        d == gap_move(c, pos)
        e == [d EXCEPT !.data = SubSeq(@, 1, d.gap_end) \o Gap(len) \o SubSeq(@, d.gap_end + len + 1, Len(@)),
                       !.gap_end = @ + len,
                       !.cursor = IF @ > pos + len THEN @ - len ELSE Smaller(@, pos),
                       !.modified = TRUE]
    IN  IF length = 0 \/ pos >= buf_length(b) THEN b
        ELSE IF b.heap = 0 THEN [b EXCEPT !.unlogged = @ \/ ~log]
        ELSE lines_mark_dirty(e)

buffer_delete(b, pos, length) == Deleted(b, pos, length, TRUE)

buffer_delete_line(b, line) ==
    LET c == lines_ensure(b)
        start == buffer_line_start(c, line)
    IN  IF line < 0 \/ line >= line_count(c) THEN c
        ELSE buffer_delete(c, start, NextStart(c, line) - start)

-----------------------------------------------------------------------------
\* The selection and the clipboard.

buffer_mark_set(b, pos) == [b EXCEPT !.mark = pos, !.mark_active = TRUE]
buffer_mark_clear(b) == [b EXCEPT !.mark_active = FALSE]
buffer_has_selection(b) == b.mark_active /\ b.mark # b.cursor

SelectionStart(b) == Smaller(b.cursor, b.mark)
SelectionEnd(b) == Larger(b.cursor, b.mark)

\* buffer_copy: the length is that of the C string, which ends at the first 0.
buffer_copy(b) ==
    LET text == Extract(b, SelectionStart(b), SelectionEnd(b) - SelectionStart(b))
    IN  SelectSeq(text, LAMBDA c : c # "0")

buffer_delete_selection(b) ==
    LET start == SelectionStart(b)
        c == [buffer_mark_clear(b) EXCEPT !.cursor = start]
    IN  IF buffer_has_selection(b) THEN buffer_delete(c, start, SelectionEnd(b) - start) ELSE b

\* The cursor moves with the insertion and then once more.
buffer_paste(b, text) ==
    LET c == buffer_delete_selection(b)
        d == buffer_insert(c, c.cursor, text)
    IN  IF Len(text) = 0 THEN b
        ELSE IF HasRoom(c, Len(text)) THEN [d EXCEPT !.cursor = @ + Len(text)] ELSE d

-----------------------------------------------------------------------------
\* Undo and redo.

buffer_undo(b) ==
    LET r == b.stack[b.undo_top]
        c == IF r.type = "INSERT"
             THEN [Deleted(b, r.pos, Len(r.text), FALSE) EXCEPT !.cursor = r.pos]
             ELSE [Inserted(b, r.pos, r.text, FALSE) EXCEPT !.cursor = r.pos + Len(r.text)]
    IN  IF b.undo_top = 0 THEN b ELSE [c EXCEPT !.undo_top = @ - 1]

buffer_redo(b) ==
    LET r == b.stack[b.undo_top + 1]
        c == IF r.type = "INSERT"
             THEN [Inserted(b, r.pos, r.text, FALSE) EXCEPT !.cursor = r.pos + Len(r.text)]
             ELSE [Deleted(b, r.pos, Len(r.text), FALSE) EXCEPT !.cursor = r.pos]
    IN  IF b.grown /\ b.undo_top > UNDO_CAP THEN [b EXCEPT !.wild = TRUE]
        ELSE IF b.undo_top = Len(b.stack) THEN b ELSE [c EXCEPT !.undo_top = @ + 1]

-----------------------------------------------------------------------------
\* Searching; letters are compared without case.

Lower(c) == IF c = "X" THEN "x" ELSE c

MatchesAt(b, i, needle) ==
    \A j \in DOMAIN needle : Lower(buffer_char_at(b, i + j - 1)) = Lower(needle[j])

\* buffer_find and buffer_find_prev; -1 is BUFFER_NPOS.
buffer_find(b, from, needle) ==
    LET hits == {i \in from .. buf_length(b) - Len(needle) : MatchesAt(b, i, needle)}
    IN  IF needle = << >> \/ hits = {} THEN -1 ELSE Min(hits)

buffer_find_prev(b, from, needle) ==
    LET hits == {i \in 0 .. from - Len(needle) : MatchesAt(b, i, needle)}
    IN  IF needle = << >> \/ hits = {} THEN -1 ELSE Max(hits)

\* buffer_replace_all: the search goes on behind the replacement, until -1.
buffer_replace_all(b, needle, replacement) ==
    LET Replace(s, i) ==
            LET found == IF s.pos = -1 THEN -1 ELSE buffer_find(s.b, s.pos, needle)
                c == buffer_delete(s.b, found, Len(needle))
            IN  IF found = -1 THEN [s EXCEPT !.pos = -1]
                ELSE [b |-> buffer_insert(c, found, replacement), pos |-> found + Len(replacement)]
    IN  FoldLeft(Replace, [b |-> b, pos |-> 0], [i \in 1 .. buf_length(b) |-> i]).b

-----------------------------------------------------------------------------
\* New buffers and files.

buffer_new ==
    [data |-> Gap(GapSize), gap_start |-> 0, gap_end |-> GapSize, cursor |-> 0,
     mark |-> 0, mark_active |-> FALSE, modified |-> FALSE, filename |-> NoFile,
     stack |-> << >>, undo_top |-> 0, lines |-> << >>, lines_dirty |-> TRUE,
     heap |-> 3, unlogged |-> FALSE, torn |-> FALSE, grown |-> FALSE, wild |-> FALSE]

\* buffer_load of a file of which n characters arrive.  An empty file leaves the
\* text and the undo records as they are; any other leaves the records and resets
\* the top.  When the file became shorter after it was measured, the old bytes are
\* resized and partly overwritten and everything else stays, so that the gap may lie
\* outside them.
buffer_load(b, name, text, n) ==
    LET opened == [b EXCEPT !.filename = name, !.modified = FALSE, !.cursor = 0]
        alloc == Len(text) + GapSize
        mixed == [i \in 1 .. alloc |-> IF i <= n THEN text[i] ELSE IF i <= Alloc(b) THEN b.data[i] ELSE Junk]
    IN  IF text = << >> THEN lines_mark_dirty(opened)
        ELSE IF n < Len(text) THEN [b EXCEPT !.data = mixed, !.torn = TRUE, !.wild = @ \/ b.gap_end > alloc]
        ELSE lines_mark_dirty([opened EXCEPT !.data = text \o Gap(GapSize), !.gap_start = Len(text),
                                             !.gap_end = alloc, !.undo_top = 0,
                                             !.unlogged = FALSE])

Loadable(text) == Len(text) + GapSize <= MaxAlloc

\* A mistake: the buffer keeps its old name.
buffer_save_unnamed(b, name) == [b EXCEPT !.modified = FALSE]

buffer_save(b, name) == [b EXCEPT !.filename = name, !.modified = FALSE]

-----------------------------------------------------------------------------
\* What a record does to a plain sequence of characters.
Applied(text, r) ==
    IF r.type = "INSERT"
    THEN SubSeq(text, 1, r.pos) \o r.text \o SubSeq(text, r.pos + 1, Len(text))
    ELSE SubSeq(text, 1, r.pos) \o SubSeq(text, r.pos + Len(r.text) + 1, Len(text))

Replayed(text, records) == FoldLeft(Applied, text, records)

-------------------------------------------------------------------------------
(***************************************************************************)
(* The text editor (apps/text_editor/main.c): what keys, the mouse and the *)
(* tool bar do to the buffer and to files.  Drawing, scrolling, the status *)
(* line and highlighting are left out: they only read the buffer, but for  *)
(* the cache of line starts, which update_status brings up to date.        *)
(*                                                                         *)
(* A dialog is answered or cancelled; a file is written completely.        *)
(***************************************************************************)

CONSTANTS
    Typed,        \* characters typed
    TabText,      \* what the tab key inserts
    Names,        \* file names
    FileTexts,    \* what files hold at first: functions from Names to texts
    Needles,      \* what is searched for
    Rows,         \* VISIBLE_ROWS
    Points,       \* <<row, column>> where the mouse is pressed
    MaxEvents     \* bound on the events of a behaviour

VARIABLES
    buf,          \* te->buf
    files,        \* the files' contents
    clipboard,    \* the clipboard of the window system
    find_query,
    events,       \* how many there were
    opened,       \* history: the text of the buffer when it was opened
    reopened,     \* history: the records to redo are those of another file
    crossed       \* history: such a record was redone

editorVars == <<buf, files, clipboard, find_query, events, opened, reopened, crossed>>

\* main, without or with a file to open.
TextEditorInit ==
    /\ files \in FileTexts
    /\ \/ buf = lines_ensure(buffer_new) /\ opened = << >>
       \/ \E name \in Names :
             /\ buf = lines_ensure(buffer_load(buffer_new, name, files[name], Len(files[name])))
             /\ opened = files[name]
    /\ clipboard = << >> /\ find_query = << >> /\ events = 0
    /\ reopened = FALSE /\ crossed = FALSE

\* An event after which the buffer is b, within the bounds.
Becomes(b) ==
    /\ events < MaxEvents /\ ~buf.wild
    /\ events' = events + 1
    /\ buf' = IF b.wild THEN [buf EXCEPT !.wild = TRUE, !.grown = b.grown, !.torn = b.torn] ELSE b

\* update_status asks for the cursor's line.
Shown(b) == lines_ensure(b)

\* A step that edits or moves: new records replace those to redo.
Edits(b) ==
    /\ Becomes(Shown(b))
    /\ reopened' = (reopened /\ b.stack = buf.stack)
    /\ UNCHANGED <<files, clipboard, find_query, opened, crossed>>

-----------------------------------------------------------------------------
\* Keys that edit.

key_return ==
    LET b == buffer_delete_selection(buf)
        pos == b.cursor
    IN  Edits(buffer_cursor_set(buffer_insert(b, pos, <<"nl">>), pos + 1))

\* Inserting has moved the cursor already; it moves once more unless at the end.
key_char(c) ==
    LET b == buffer_delete_selection(buf)
    IN  Edits(buffer_cursor_move(buffer_insert(b, b.cursor, <<c>>), 1))

key_tab ==
    LET b == buffer_delete_selection(buf)
    IN  Edits(buffer_cursor_move(buffer_insert(b, b.cursor, TabText), Len(TabText)))

key_backspace ==
    LET pos == buf.cursor
    IN  Edits(IF buffer_has_selection(buf) THEN buffer_delete_selection(buf)
              ELSE IF pos = 0 THEN buf
              ELSE buffer_cursor_set(buffer_delete(buf, pos - 1, 1), pos - 1))

key_delete ==
    Edits(IF buffer_has_selection(buf) THEN buffer_delete_selection(buf)
          ELSE buffer_delete(buf, buf.cursor, 1))

-----------------------------------------------------------------------------
\* Keys that move; with shift they begin or extend a selection.

Marked(shift) ==
    IF ~shift THEN buffer_mark_clear(buf)
    ELSE IF buffer_has_selection(buf) THEN buf ELSE buffer_mark_set(buf, buf.cursor)

\* Word movement needs control, and control is handled before these keys.
key_left(shift) == Edits(buffer_cursor_move(Marked(shift), -1))
key_right(shift) == Edits(buffer_cursor_move(Marked(shift), 1))
key_up(shift) == Edits(buffer_cursor_line(Marked(shift), -1))
key_down(shift) == Edits(buffer_cursor_line(Marked(shift), 1))
key_home(shift) == Edits(buffer_cursor_home(Marked(shift)))
key_end(shift) == Edits(buffer_cursor_end(Marked(shift)))

\* The page keys leave the mark.
key_page(delta) == Edits(buffer_cursor_line(buf, delta))

\* Control G with a line number.
go_to_line(line) ==
    LET b == lines_ensure(buf) IN Edits(buffer_cursor_set(b, buffer_lc_to_pos(b, line, 0)))

\* on_mouse_down in the text.
mouse_down(line, col, shift) ==
    LET b == lines_ensure(buf)
        pos == buffer_lc_to_pos(b, line, col)
    IN  Edits(buffer_cursor_set(IF ~shift THEN buffer_mark_clear(b)
                                ELSE IF buffer_has_selection(b) THEN b
                                ELSE buffer_mark_set(b, b.cursor), pos))

select_all == Edits(buffer_cursor_set(buffer_mark_set(buf, 0), buf_length(buf)))

-----------------------------------------------------------------------------
\* Control keys and the tool bar.

undo ==
    /\ Becomes(Shown(buffer_undo(buf)))
    /\ UNCHANGED <<files, clipboard, find_query, opened, reopened, crossed>>

redo ==
    /\ Becomes(Shown(buffer_redo(buf)))
    /\ crossed' = (crossed \/ (reopened /\ buf.undo_top < Len(buf.stack)))
    /\ UNCHANGED <<files, clipboard, find_query, opened, reopened>>

copy ==
    /\ buffer_has_selection(buf) /\ buf.heap > 0
    /\ clipboard' = buffer_copy(buf)
    /\ Becomes(Shown(buf))
    /\ UNCHANGED <<files, find_query, opened, reopened, crossed>>

cut ==
    /\ buffer_has_selection(buf) /\ buf.heap > 0
    /\ clipboard' = buffer_copy(buf)
    /\ LET b == buffer_delete_selection(buf)
       IN  Becomes(Shown(b)) /\ reopened' = (reopened /\ b.stack = buf.stack)
    /\ UNCHANGED <<files, find_query, opened, crossed>>

paste == Edits(buffer_paste(buf, clipboard))

\* The cursor goes to the match after it, or to the first one.
Found(b, needle) ==
    LET ahead == buffer_find(b, b.cursor + 1, needle)
        found == IF ahead # -1 THEN ahead ELSE buffer_find(b, 0, needle)
    IN  IF found = -1 THEN b ELSE buffer_cursor_set(b, found)

\* find_prompt; find_next and find_prev are F3.
find_prompt(needle) ==
    /\ find_query' = needle
    /\ Becomes(Shown(Found(buf, needle)))
    /\ UNCHANGED <<files, clipboard, opened, reopened, crossed>>

find_next == find_query # << >> /\ Edits(Found(buf, find_query))

find_prev ==
    LET found == buffer_find_prev(buf, buf.cursor, find_query)
    IN  find_query # << >> /\ found # -1 /\ Edits(buffer_cursor_set(buf, found))

replace_prompt(needle, replacement) == Edits(buffer_replace_all(buf, needle, replacement))

\* Changes are discarded after a question; a no is a step that changes nothing.
\* buffer_free frees the text of every record there is room for.
file_new ==
    /\ Becomes(Shown([buffer_new EXCEPT !.heap = buf.heap, !.torn = buf.torn, !.wild = buf.grown, !.grown = buf.grown]))
    /\ opened' = << >> /\ reopened' = FALSE /\ crossed' = FALSE
    /\ UNCHANGED <<files, clipboard, find_query>>

file_open(name) ==
    /\ Loadable(files[name])
    /\ Becomes(Shown(buffer_load(buf, name, files[name], Len(files[name]))))
    /\ IF files[name] = << >> THEN UNCHANGED <<opened, reopened, crossed>>
       ELSE opened' = files[name] /\ reopened' = (buf.stack # << >>) /\ crossed' = FALSE
    /\ UNCHANGED <<files, clipboard, find_query>>

\* file_open of a file that someone truncates after buffer_load has measured it.
file_open_short(name) ==
    /\ Loadable(files[name])
    /\ \E n \in 0 .. Len(files[name]) - 1 :
          /\ files' = [files EXCEPT ![name] = SubSeq(@, 1, n)]
          /\ Becomes(buffer_load(buf, name, files[name], n))
    /\ UNCHANGED <<clipboard, find_query, opened, reopened, crossed>>

\* The rest of the program takes memory or gives it back.
heap_changes ==
    /\ \E n \in 0 .. 3 : Becomes([buf EXCEPT !.heap = n])
    /\ UNCHANGED <<files, clipboard, find_query, opened, reopened, crossed>>

\* file_save_as, and file_save of a buffer that has no name yet.
file_save_as(name) ==
    /\ files' = [files EXCEPT ![name] = Contents(buf)]
    /\ Becomes(Shown(buffer_save(buf, name)))
    /\ UNCHANGED <<clipboard, find_query, opened, reopened, crossed>>

file_save ==
    /\ buf.filename # NoFile
    /\ file_save_as(buf.filename)

TextEditorNext ==
    \/ key_return \/ key_tab \/ key_backspace \/ key_delete
    \/ \E c \in Typed : key_char(c)
    \/ \E shift \in BOOLEAN :
          \/ key_left(shift) \/ key_right(shift) \/ key_up(shift) \/ key_down(shift)
          \/ key_home(shift) \/ key_end(shift)
          \/ \E p \in Points : mouse_down(p[1], p[2], shift)
    \/ key_page(0 - Rows) \/ key_page(Rows) \/ go_to_line(-1) \/ go_to_line(1) \/ select_all
    \/ undo \/ redo \/ copy \/ cut \/ paste
    \/ find_next \/ find_prev \/ \E needle \in Needles : find_prompt(needle)
    \/ \E needle \in Needles, replacement \in Needles \cup {<< >>} : replace_prompt(needle, replacement)
    \/ file_new \/ file_save \/ \E name \in Names : file_open(name) \/ file_open_short(name) \/ file_save_as(name)
    \/ heap_changes

TextEditorSpec == TextEditorInit /\ [][TextEditorNext]_editorVars

-----------------------------------------------------------------------------
\* Whatever is typed, pasted, replaced, undone and redone, the text the gap buffer
\* holds is what the recorded edits up to undo_top make of the text that was opened,
\* so that undo and redo lead exactly through the texts there were; and the cached
\* line starts are those of that text.  The exceptions the code makes: records of an
\* earlier file survive buffer_load and can be redone, and an edit for whose record
\* there is no memory stands without it (undo_push).  Even then undo and redo stay
\* inside the text.  A file that is read in part (buffer_load) spoils the buffer.
TextIsEdits ==
    ~buf.torn =>
        /\ ~crossed /\ ~buf.unlogged => Contents(buf) = Replayed(opened, SubSeq(buf.stack, 1, buf.undo_top))
        /\ Junk \notin ToSet(Contents(buf))
        /\ buf.lines_dirty \/ buf.lines = LineStarts(Contents(buf))

\* The buffer uses memory that nothing has been written to, or that is not its own,
\* only after more edits in a row than UNDO_CAP or after a file that is read in part
\* (undo_clear_from, buffer_redo, buffer_load).
MemoryIsOwn == buf.wild => buf.grown \/ buf.torn

\* An unmodified buffer with a name is what its file holds (so that file_new and
\* file_open, which ask only about modified buffers, lose nothing).  The exception
\* the code makes: opening an empty file keeps the old text.
CleanIsSaved ==
    ~buf.modified /\ ~buf.torn /\ buf.filename # NoFile =>
        files[buf.filename] \in {Contents(buf), << >>}

-------------------------------------------------------------------------------
(***************************************************************************)
(* The editing engine (apps/text_editor/editor.c), a second set of         *)
(* commands over the same buffer: pairs of brackets, indentation, moving   *)
(* of lines, comments.  It shares the buffer, the undo records and the     *)
(* history of module TextEditor.                                           *)
(***************************************************************************)

CONSTANTS
    EngineTyped,  \* characters typed
    Config,       \* [auto_indent, auto_pair, use_spaces, tab_width]
    Prefix,       \* comment_prefix of the language
    EngineTexts   \* texts to work on

OpenBrackets == {"("}
CloseOf(c) == IF c = "(" THEN ")" ELSE c
Quotes == {"q"}
is_open(c) == c \in OpenBrackets \cup Quotes
is_close(c) == c = ")"

Spaces(n) == [i \in 1 .. n |-> "sp"]

EngineInit ==
    /\ \E text \in EngineTexts :
          /\ buf = lines_ensure(buffer_load(buffer_new, "f", text, Len(text)))
          /\ files = [n \in Names |-> IF n = "f" THEN text ELSE << >>]
          /\ opened = text
    /\ clipboard = << >> /\ find_query = << >> /\ events = 0
    /\ reopened = FALSE /\ crossed = FALSE

-----------------------------------------------------------------------------
\* Indentation; b has its line starts.

\* The characters of a line before the first that is neither space nor tab.
Margin(b, line) ==
    LET text == buffer_line_text(b, line)
        n == Min({Len(text) + 1} \cup {i \in DOMAIN text : text[i] \notin {"sp", "tab"}}) - 1
    IN  SubSeq(text, 1, n)

line_indent_level(b, line) ==
    FoldLeft(LAMBDA n, c : n + (IF c = "tab" THEN 4 ELSE 1), 0, Margin(b, line))

line_last_nonspace(b, line) ==
    LET text == buffer_line_text(b, line)
        marks == {i \in DOMAIN text : text[i] \notin {"sp", "tab"}}
    IN  IF marks = {} THEN "0" ELSE text[Max(marks)]

compute_new_indent(b, line) ==
    line_indent_level(b, line)
        + (IF line_last_nonspace(b, line) \in OpenBrackets THEN Config.tab_width ELSE 0)

-----------------------------------------------------------------------------
\* Typing.

editor_type_char(c) ==
    LET b == buffer_delete_selection(buf)
        pos == b.cursor
        next == buffer_char_at(b, pos)
        stepped == buffer_cursor_move(b, 1)
        paired == buffer_cursor_set(buffer_insert(b, pos, <<c, CloseOf(c)>>), pos + 1)
        plain == buffer_cursor_move(buffer_insert(b, pos, <<c>>), 1)
    IN  Edits(IF Config.auto_pair /\ is_open(c)
              THEN IF c \in Quotes /\ next = c THEN stepped ELSE paired
              ELSE IF Config.auto_pair /\ is_close(c) /\ next = c THEN stepped ELSE plain)

\* A closing bracket right behind the new line goes to a line of its own.  The
\* brace is the bracket the code asks for here.
key_return_brace(indented, line, pos) ==
    LET outer == lines_ensure(buffer_insert(indented, pos, <<"nl">>)) IN
    IF line_last_nonspace(indented, line) = "(" /\ buffer_char_at(indented, pos) = ")"
    THEN buffer_cursor_set(buffer_insert(outer, pos + 1, Spaces(line_indent_level(outer, line))), pos)
    ELSE buffer_cursor_set(indented, pos)

key_return_indent(split, line, at, indent) ==
    key_return_brace(lines_ensure(buffer_insert(split, at, Spaces(indent))), line, at + indent)

key_return_split(split, line, at) ==
    IF Config.auto_indent THEN key_return_indent(split, line, at, compute_new_indent(split, line))
    ELSE buffer_cursor_set(split, at)

editor_key_return ==
    LET b == lines_ensure(buffer_delete_selection(buf)) IN
    Edits(key_return_split(lines_ensure(buffer_insert(b, b.cursor, <<"nl">>)), LineOf(b, b.cursor), b.cursor + 1))

editor_key_backspace ==
    LET b == lines_ensure(buf)
        pos == b.cursor
        col == ColumnOf(b, pos)
        prev == buffer_char_at(b, pos - 1)
        Erase(n) == buffer_cursor_set(buffer_delete(b, pos - n, n), pos - n)
    IN  Edits(IF buffer_has_selection(buf) THEN buffer_delete_selection(buf)
              ELSE IF pos = 0 THEN buf
              ELSE IF Config.auto_pair /\ is_open(prev) /\ buffer_char_at(b, pos) = CloseOf(prev)
              THEN buffer_cursor_set(buffer_delete(b, pos - 1, 2), pos - 1)
              ELSE IF /\ Config.use_spaces /\ col > 0 /\ col % Config.tab_width = 0
                      /\ \A i \in pos - col .. pos - 1 : buffer_char_at(b, i) = "sp"
              THEN Erase(Config.tab_width)
              ELSE Erase(1))

\* The lines a selection touches, or the cursor's line, as a sequence.
Touched(b) ==
    LET first == IF buffer_has_selection(b) THEN LineOf(b, SelectionStart(b)) ELSE LineOf(b, b.cursor)
        last == IF buffer_has_selection(b) THEN LineOf(b, SelectionEnd(b)) ELSE first
    IN  [i \in 1 .. last - first + 1 |-> first + i - 1]

Indented(b, line) ==
    LET c == lines_ensure(b)
        text == IF Config.use_spaces THEN Spaces(Config.tab_width) ELSE <<"tab">>
    IN  buffer_insert(c, buffer_line_start(c, line), text)

\* Each character removed is a deletion, and a record, of its own.
Unindented(b, line) ==
    LET c == lines_ensure(b)
        start == buffer_line_start(c, line)
        Strip(s, i) ==
            LET ch == buffer_char_at(s.b, start)
            IN  IF s.removed >= Config.tab_width \/ ch \notin {"sp", "tab"}
                THEN [s EXCEPT !.removed = Config.tab_width]
                ELSE [b |-> buffer_delete(s.b, start, 1),
                      removed |-> IF ch = "sp" THEN s.removed + 1 ELSE Config.tab_width]
    IN  FoldLeft(Strip, [b |-> c, removed |-> 0], Spaces(Config.tab_width)).b

editor_key_tab(shift) ==
    LET b == lines_ensure(buf)
        fill == IF Config.use_spaces
                THEN Spaces(Config.tab_width - (ColumnOf(b, b.cursor) % Config.tab_width))
                ELSE <<"tab">>
    IN  Edits(IF buffer_has_selection(b)
              THEN FoldLeft(LAMBDA c, line : IF shift THEN Unindented(c, line) ELSE Indented(c, line),
                            b, Touched(b))
              ELSE buffer_cursor_move(buffer_insert(b, b.cursor, fill), Len(fill)))

-----------------------------------------------------------------------------
\* Moving and selecting; maybe_set_mark is Marked.  editor_move_left, _right, _up,
\* _down, _end, _doc_start and _doc_end without word movement are the keys of
\* TextEditor.

editor_move_word(extend, forward) ==
    Edits(IF forward THEN buffer_cursor_word_forward(Marked(extend))
          ELSE buffer_cursor_word_back(Marked(extend)))

\* Between the first column and the first character of the line.
editor_move_home(extend) ==
    LET b == lines_ensure(Marked(extend))
        pos == b.cursor
        line == LineOf(b, pos)
        first == buffer_line_start(b, line) + Len(Margin(b, line))
    IN  Edits(IF pos = first \/ ColumnOf(b, pos) = 0 THEN buffer_cursor_home(b)
              ELSE buffer_cursor_set(b, first))

WordChar(c) == c = "x" \/ c = "X"

editor_select_word ==
    LET len == buf_length(buf)
        pos == buf.cursor
        start == Max({0} \cup {p \in 1 .. pos : ~WordChar(buffer_char_at(buf, p - 1))})
        end == IF pos >= len THEN pos
               ELSE Min({len} \cup {p \in pos .. len - 1 : ~WordChar(buffer_char_at(buf, p))})
    IN  end > start /\ Edits(buffer_cursor_set(buffer_mark_set(buf, start), end))

editor_select_line ==
    LET b == lines_ensure(buf)
        line == LineOf(b, b.cursor)
    IN  Edits(buffer_cursor_set(buffer_mark_set(b, buffer_line_start(b, line)), NextStart(b, line)))

-----------------------------------------------------------------------------
\* Lines.

editor_duplicate_line ==
    LET b == lines_ensure(buf)
        line == LineOf(b, b.cursor)
        c == lines_ensure(buffer_insert(b, NextStart(b, line), Append(buffer_line_text(b, line), "nl")))
    IN  /\ HasText(b, line)
        /\ Edits(buffer_cursor_set(c, buffer_lc_to_pos(c, line + 1, ColumnOf(b, b.cursor))))

editor_delete_line ==
    LET b == lines_ensure(buf)
        line == LineOf(b, b.cursor)
        c == lines_ensure(buffer_delete_line(b, line))
    IN  Edits(buffer_cursor_set(c, buffer_lc_to_pos(c, IF line < line_count(c) THEN line ELSE line - 1, 0)))

\* Lines first and first + 1 change places; both end in a newline then.
Swapped(b, first) ==
    LET block == Append(buffer_line_text(b, first + 1), "nl") \o Append(buffer_line_text(b, first), "nl")
        start == buffer_line_start(b, first)
    IN  lines_ensure(buffer_insert(buffer_delete(b, start, Len(block)), start, block))

editor_move_line(up) ==
    LET b == lines_ensure(buf)
        line == LineOf(b, b.cursor)
        c == Swapped(b, IF up THEN line - 1 ELSE line)
        to == IF up THEN line - 1 ELSE line + 1
    IN  /\ IF up THEN line > 0 ELSE line + 1 < line_count(b)
        /\ HasText(b, line) /\ HasText(b, to)
        /\ Edits(buffer_cursor_set(c, buffer_lc_to_pos(c, to, ColumnOf(b, b.cursor))))

HasPrefix(text) == SubSeq(text, 1, Smaller(Len(Prefix), Len(text))) = Prefix

AllCommented(b) ==
    \A i \in DOMAIN Touched(b) :
        HasText(b, Touched(b)[i]) => HasPrefix(buffer_line_text(b, Touched(b)[i]))

Commented(b, line) ==
    LET c == lines_ensure(b) IN buffer_insert(c, buffer_line_start(c, line), Prefix)

Uncommented(b, line) ==
    LET c == lines_ensure(b)
    IN  IF HasPrefix(buffer_line_text(c, line)) THEN buffer_delete(c, buffer_line_start(c, line), Len(Prefix))
        ELSE c

Toggled(a) ==
    LET b == lines_ensure(a)
    IN  IF AllCommented(b) THEN FoldLeft(Uncommented, b, Touched(b)) ELSE FoldLeft(Commented, b, Touched(b))

editor_toggle_comment == Edits(Toggled(buf))

-----------------------------------------------------------------------------
\* editor_find_matching_bracket from pos; -1 is BUFFER_NPOS.  The depth after
\* passing the characters of a range, in the direction of the search.
Count(b, S, c) == Cardinality({i \in S : buffer_char_at(b, i) = c})

\* A mistake: the depth is not counted.
Balanced_flat(b, S) == TRUE

Balanced(b, S) == Count(b, S, "(") = Count(b, S, ")")

editor_find_matching_bracket(b, pos) ==
    LET c == buffer_char_at(b, pos)
        ahead == {i \in pos + 1 .. buf_length(b) - 1 :
                     buffer_char_at(b, i) = ")" /\ Balanced(b, pos .. i)}
        behind == {i \in 0 .. pos - 1 : buffer_char_at(b, i) = "(" /\ Balanced(b, i .. pos)}
    IN  CASE c = "(" /\ ahead # {} -> Min(ahead)
          [] c = ")" /\ behind # {} -> Max(behind)
          [] OTHER -> -1

EngineNext ==
    \/ \E c \in EngineTyped : editor_type_char(c)
    \/ editor_key_return \/ editor_key_backspace \/ key_delete \/ \E shift \in BOOLEAN : editor_key_tab(shift)
    \/ \E extend \in BOOLEAN :
          \/ key_left(extend) \/ key_right(extend) \/ key_down(extend) \/ editor_move_home(extend)
          \/ \E forward \in BOOLEAN : editor_move_word(extend, forward)
    \/ editor_select_word \/ editor_select_line \/ editor_duplicate_line \/ editor_delete_line
    \/ editor_move_line(TRUE) \/ editor_move_line(FALSE) \/ editor_toggle_comment
    \/ copy \/ cut \/ paste \/ undo \/ redo

-----------------------------------------------------------------------------
\* Toggling comments twice restores the text unless all lines had them already,
\* although the cursor moves with the insertions and the mark does not: it is the
\* selection made backwards for which the second toggle touches other lines.
CommentsToggle ==
    LET b == lines_ensure(buf)
        once == Toggled(b)
    IN  ~AllCommented(b) /\ (buffer_has_selection(b) => b.mark < b.cursor)
            /\ HasRoom(b, Len(Touched(b)) * Len(Prefix))
        => Contents(Toggled(once)) = Contents(b)

LineBag(b) ==
    LET c == lines_ensure(b)
        texts == [l \in 1 .. line_count(c) |-> buffer_line_text(c, l - 1)]
        kept == {l \in DOMAIN texts : texts[l] # << >>}
    IN  [t \in {texts[l] : l \in kept} |-> Cardinality({l \in kept : texts[l] = t})]

\* Moving a line up or down loses, doubles and joins no line, the last one (which
\* may have no newline) included.
LinesKept ==
    \A first \in 0 .. line_count(lines_ensure(buf)) - 2 :
        HasRoom(buf, 1) /\ HasText(lines_ensure(buf), first + 1) =>
        LineBag(Swapped(lines_ensure(buf), first)) = LineBag(buf)

\* A bracket is the match of its match.
MatchIsMutual ==
    \A pos \in 0 .. buf_length(buf) - 1 :
        LET m == editor_find_matching_bracket(buf, pos)
        IN  m # -1 => editor_find_matching_bracket(buf, m) = pos

\* The laws of the commands, of whatever text and selection editing leads to:
\* comments toggle, lines are kept and brackets match (editor_toggle_comment,
\* editor_move_line_up and _down, editor_find_matching_bracket).  A command takes
\* several edits, and what it does without memory for them is not promised.
EngineLaws == buf.heap = 3 /\ ~buf.torn => CommentsToggle /\ LinesKept /\ MatchIsMutual

-------------------------------------------------------------------------------
(***************************************************************************)
(* The highlighter of the text editor (apps/text_editor/syntax.c) and the  *)
(* handler that draws the visible lines with it (main.c, draw_content).     *)
(*                                                                         *)
(* A line is a sequence of characters, columns count from 0.  Each         *)
(* highlight function is a loop that tries its rules in a fixed order at   *)
(* column i; here a language is the sequence of its rules, and a rule says *)
(* where it applies, where its token ends and which kind it is.  What a    *)
(* line leaves open (in_block_comment, or in_string with string_char) is   *)
(* the value open that the next line begins with.                          *)
(***************************************************************************)

CONSTANTS
    SyntaxTexts,   \* the files that are opened: records of a path and lines
    SyntaxPaths,   \* the paths that the text is saved under
    Keywords,      \* the keyword table of each language
    TypeNames,     \* C_TYPES
    SyntaxRows,    \* lines in view
    MaxDraws       \* bound on the events followed

VARIABLES
    edited,        \* path and lines
    language,      \* the language it is taken for
    open,          \* what the highlighter believes to be inside of
    painted,         \* the rows drawn last, each with its tokens
    draws

syntaxVars == <<edited, language, open, painted, draws>>

Closed == "none"
Digit == {"0", "1"}
HexDigit == Digit \cup {"a", "e", "f"}
WordChars == HexDigit \cup {"k", "t", "x", "u", "h", "_"}
QuoteChars == {"\"", "'"}
Grave == "grave"   \* the backquote

Char(l, i) == IF i < Len(l) THEN l[i + 1] ELSE "none"
Pair(l, i, c, d) == Char(l, i) = c /\ Char(l, i + 1) = d

\* while (i < len && the character is one of cs) i++
Past(l, i, cs) == Min({j \in i .. Len(l) : Char(l, j) \notin cs} \cup {Max({i, Len(l)})})

\* The next c and one further, or the end of the line.
PastNext(l, i, c) ==
    LET at == {j \in i .. Len(l) - 1 : Char(l, j) = c}
    IN  IF at = {} THEN Max({i, Len(l)}) ELSE Min(at) + 1

\* A backslash skips a character, which may be the end of the line.
Quoted(l, from, q) ==
    LET scan[i \in 0 .. Len(l) + 1] ==
            IF i >= Len(l) THEN [end |-> i, closed |-> FALSE]
            ELSE IF Char(l, i) = "\\" THEN scan[i + 2]
            ELSE IF Char(l, i) = q THEN [end |-> i + 1, closed |-> TRUE]
            ELSE scan[i + 1]
    IN  IF from > Len(l) THEN [end |-> from, closed |-> FALSE] ELSE scan[from]

\* Mutant: the star of the opening mark also closes.
BlockEnd_near(l, i) ==
    LET at == {j \in Max({i - 1, 0}) .. Len(l) - 2 : Pair(l, j, "*", "/")}
    IN  IF at = {} THEN [end |-> Max({i, Len(l)}), closed |-> FALSE]
        ELSE [end |-> Min(at) + 2, closed |-> TRUE]

BlockEnd(l, i) ==
    LET at == {j \in i .. Len(l) - 2 : Pair(l, j, "*", "/")}
    IN  IF at = {} THEN [end |-> Max({i, Len(l)}), closed |-> FALSE]
        ELSE [end |-> Min(at) + 2, closed |-> TRUE]

Triple(l, i) == i + 2 < Len(l) /\ Char(l, i) \in QuoteChars /\ \A d \in {1, 2} : Char(l, i + d) = Char(l, i)

-------------------------------------------------------------------------------
(* The rules.                                                              *)

CommentSign == [PYTHON |-> "#", SHELL |-> "#", ASM |-> ";"]
NumberChar ==
    [C |-> Digit \cup {".", "f", "u"}, PYTHON |-> Digit \cup {".", "_", "e"}, JS |-> HexDigit \cup {".", "x"},
     SHELL |-> Digit, ASM |-> Digit \cup {"h"}, JSON |-> Digit \cup {".", "e", "+", "-"}]

Rules ==
    [C |-> <<"slashes", "block", "pre", "carried_string", "number", "word">>,
     PYTHON |-> <<"comment", "triple", "string", "number", "decorator", "word">>,
     JS |-> <<"slashes", "block", "template", "string", "number", "word">>,
     SHELL |-> <<"comment", "variable", "shell_string", "number", "word">>,
     ASM |-> <<"comment", "plain_string", "number", "register", "word">>,
     JSON |-> <<"key_or_string", "number", "word">>,
     MARKDOWN |-> <<"emphasis", "code", "link">>,
     MAKEFILE |-> <<"variable">>]

Applies(lang, rule, l, i) ==
    LET c == Char(l, i) IN
    CASE rule = "slashes" -> Pair(l, i, "/", "/")
      [] rule = "block" -> Pair(l, i, "/", "*")
      [] rule = "comment" -> c = CommentSign[lang]
      [] rule = "pre" -> c = "#"
      [] rule = "triple" -> Triple(l, i)
      [] rule \in {"string", "carried_string", "shell_string", "plain_string"} -> c \in QuoteChars
      [] rule = "key_or_string" -> c = "\""
      [] rule \in {"template", "code"} -> c = Grave
      [] rule = "number" -> c \in Digit \/ (lang = "JSON" /\ c = "-")
      [] rule = "decorator" -> c = "@"
      [] rule = "variable" -> c = "$"
      [] rule = "register" -> c = "%"
      [] rule = "emphasis" -> c \in {"*", "_"}
      [] rule = "link" -> c = "["
      [] rule = "word" -> c \in WordChars

Hex(lang, l, i) == lang \in {"C", "ASM"} /\ Pair(l, i, "0", "x")

TokenEnd(lang, rule, l, i) ==
    LET c == Char(l, i) IN
    CASE rule \in {"slashes", "comment", "pre"} -> Len(l)
      [] rule = "block" -> BlockEnd(l, i + 2).end
      [] rule = "triple" ->
           LET at == {j \in i + 3 .. Len(l) - 3 : \A d \in 0 .. 2 : Char(l, j + d) = c}
           IN  IF at = {} THEN Max({i + 3, Len(l) - 2}) ELSE Min(at) + 3
      [] rule \in {"string", "carried_string", "key_or_string", "template"} -> Quoted(l, i + 1, c).end
      [] rule = "shell_string" -> IF c = "'" THEN PastNext(l, i + 1, c) ELSE Quoted(l, i + 1, c).end
      [] rule \in {"plain_string", "code"} -> PastNext(l, i + 1, c)
      [] rule = "link" -> PastNext(l, i + 1, "]")
      [] rule = "number" ->
           IF Hex(lang, l, i) THEN Past(l, i + 2, HexDigit) ELSE Past(l, i + 1, NumberChar[lang])
      [] rule = "variable" /\ Char(l, i + 1) = "(" -> PastNext(l, i + 2, ")")
      [] rule = "variable" /\ Char(l, i + 1) = "{" /\ lang = "SHELL" -> PastNext(l, i + 2, "}")
      [] rule \in {"decorator", "register", "variable"} -> Past(l, i + 1, WordChars)
      [] rule = "emphasis" ->
           LET bold == Char(l, i + 1) = c
               from == i + (IF bold THEN 2 ELSE 1)
               at == {j \in from .. Len(l) - 1 : Char(l, j) = c /\ (bold => Char(l, j + 1) = c)}
           IN  IF at = {} THEN Max({from, Len(l)}) ELSE Min(at) + (IF bold THEN 2 ELSE 1)
      [] rule = "word" -> Past(l, i, WordChars)

TokenType(lang, rule, l, i, end) ==
    LET text == SubSeq(l, i + 1, Min({end, Len(l)})) IN
    CASE rule \in {"slashes", "block", "comment"} -> "COMMENT"
      [] rule = "pre" -> "PREPROCESSOR"
      [] rule = "key_or_string" /\ Char(l, Past(l, end, {" "})) = ":" -> "FUNCTION"
      [] rule \in {"triple", "string", "carried_string", "shell_string", "plain_string", "template", "code"} -> "STRING"
      [] rule = "key_or_string" -> "STRING"
      [] rule = "number" -> "NUMBER"
      [] rule = "decorator" -> "DECORATOR"
      [] rule \in {"variable", "register"} -> "VARIABLE"
      [] rule = "emphasis" -> IF Char(l, i + 1) = Char(l, i) THEN "BOLD" ELSE "ITALIC"
      [] rule = "link" -> "FUNCTION"
      [] rule = "word" /\ lang = "ASM" /\ Char(l, end) = ":" -> "LABEL"
      [] rule = "word" /\ text \in Keywords[lang] -> "KEYWORD"
      [] rule = "word" /\ lang = "C" /\ text \in TypeNames -> "TYPE"
      [] rule = "word" /\ lang \in {"C", "PYTHON", "JS"} /\ Char(l, end) = "(" -> "FUNCTION"
      [] OTHER -> "NORMAL"

\* Mutant: every unfinished string goes on.
LeftOpen_string(rule, l, i) ==
    IF rule = "block" /\ ~BlockEnd(l, i + 2).closed THEN "block"
    ELSE IF rule \in {"carried_string", "string"} /\ ~Quoted(l, i + 1, Char(l, i)).closed
    THEN Char(l, i) ELSE Closed

\* What a token leaves open: an unfinished block comment; in C, an unfinished
\* string, unless the line happens to end in its quote.
LeftOpen(rule, l, i) ==
    IF rule = "block" /\ ~BlockEnd(l, i + 2).closed THEN "block"
    ELSE IF rule = "carried_string" /\ Quoted(l, i + 1, Char(l, i)).end >= Len(l) /\ Last(l) # Char(l, i)
    THEN Char(l, i) ELSE Closed

-------------------------------------------------------------------------------
(* The highlighters.                                                       *)

Token(start, end, type) == [start |-> start, end |-> end, type |-> type]
token_push(tokens, start, end, type) == IF end <= start THEN tokens ELSE Append(tokens, Token(start, end, type))

\* The first rule that applies at column i, or none.
FirstRule(lg, l, i) == SelectSeq(Rules[lg], LAMBDA rule : Applies(lg, rule, l, i))

Lexed(lg, rule, l, i, end) ==
    [token |-> Token(i, end, TokenType(lg, rule, l, i, end)), left |-> LeftOpen(rule, l, i)]
Lex(lg, rule, l, i) == Lexed(lg, rule, l, i, TokenEnd(lg, rule, l, i))

Ahead(lexed, rest) ==
    [tokens |-> <<lexed.token>> \o rest.tokens, open |-> IF lexed.left = Closed THEN rest.open ELSE lexed.left]

\* The loop of a highlighter from column i: the first rule that applies makes a
\* token, and a character no rule wants is passed over.
Scan(lg, l, from, given) ==
    LET scan[i \in 0 .. Len(l) + 1] ==
            LET fit == IF i < Len(l) THEN FirstRule(lg, l, i) ELSE << >>
                lexed == Lex(lg, fit[1], l, i)
            IN  IF i >= Len(l) THEN [tokens |-> << >>, open |-> Closed]
                ELSE IF fit = << >> THEN scan[i + 1]
                ELSE Ahead(lexed, scan[lexed.token.end])
    IN  [scan[from] EXCEPT !.tokens = given \o @]

\* A line that begins inside of a comment or a string of the lines above.
Resumed(lg, l, was) ==
    LET part == IF was = "block" THEN BlockEnd(l, 0) ELSE Quoted(l, 0, was)
        token == Token(0, part.end, IF was = "block" THEN "COMMENT" ELSE "STRING")
    IN  IF l = << >> THEN [tokens |-> << >>, open |-> was]
        ELSE IF part.closed THEN Scan(lg, l, part.end, <<token>>)
        ELSE [tokens |-> <<token>>, open |-> was]

highlight_c(l, was) == IF was = Closed THEN Scan("C", l, 0, << >>) ELSE Resumed("C", l, was)
highlight_js(l, was) == IF was = "block" THEN Resumed("JS", l, was) ELSE Scan("JS", l, 0, << >>)
highlight_python(l) == Scan("PYTHON", l, 0, << >>)
highlight_shell(l) == Scan("SHELL", l, 0, << >>)
highlight_asm(l) == Scan("ASM", l, 0, << >>)
highlight_json(l) == Scan("JSON", l, 0, << >>)

Whole(l, type) == [tokens |-> token_push(<< >>, 0, Len(l), type), open |-> Closed]

\* What is before column i, and the rest of the line.
Split(given, l, i, type) ==
    [tokens |-> token_push(token_push(given, 0, i, type), i, Len(l), "NORMAL"), open |-> Closed]

highlight_markdown(l) ==
    LET level == Past(l, 0, {"#"})
        number == Past(l, 0, Digit)
    IN  IF l = << >> THEN Whole(l, "NORMAL")
        ELSE IF level > 0
        THEN Whole(l, IF level = 1 THEN "HEADING1" ELSE IF level = 2 THEN "HEADING2" ELSE "HEADING3")
        ELSE IF Len(l) >= 3 /\ \A d \in 0 .. 2 : Char(l, d) = Grave THEN Whole(l, "COMMENT")
        ELSE IF Char(l, 0) \in {"-", "*", "+"} /\ Char(l, 1) = " " THEN Split(<< >>, l, 1, "KEYWORD")
        ELSE IF number > 0 /\ Char(l, number) = "." THEN Split(<< >>, l, number + 1, "NUMBER")
        ELSE Scan("MARKDOWN", l, 0, << >>)

\* The loop ends at the first ':' or '=' that no variable contains; its tokens then
\* come after those of the variables, which they overlap.
MakeLine(l, vars) ==
    LET ends == {i \in 0 .. Len(l) - 1 :
                    Char(l, i) \in {":", "="} /\ \A k \in DOMAIN vars : i \notin vars[k].start .. vars[k].end - 1}
        stop == Min(ends)
        before == SelectSeq(vars, LAMBDA t : t.start < stop)
    IN  IF ends = {} THEN [tokens |-> token_push(vars, 0, Len(l), "NORMAL"), open |-> Closed]
        ELSE Split(before, l, stop, IF Char(l, stop) = ":" THEN "LABEL" ELSE "VARIABLE")

highlight_makefile(l) ==
    CASE l = << >> -> Whole(l, "NORMAL")
      [] Char(l, 0) = "#" -> Whole(l, "COMMENT")
      [] Char(l, 0) = "tab" -> Whole(l, "PREPROCESSOR")
      [] OTHER -> MakeLine(l, Scan("MAKEFILE", l, 0, << >>).tokens)

syntax_highlight_line(lg, l, was) ==
    CASE lg = "C" -> highlight_c(l, was)
      [] lg = "JS" -> highlight_js(l, was)
      [] lg = "PYTHON" -> highlight_python(l)
      [] lg = "SHELL" -> highlight_shell(l)
      [] lg = "ASM" -> highlight_asm(l)
      [] lg = "JSON" -> highlight_json(l)
      [] lg = "MARKDOWN" -> highlight_markdown(l)
      [] lg = "MAKEFILE" -> highlight_makefile(l)
      [] OTHER -> [tokens |-> << >>, open |-> was]

syntax_token_at(tokens, col) ==
    LET at == {k \in DOMAIN tokens : col \in tokens[k].start .. tokens[k].end - 1}
    IN  IF at = {} THEN "NORMAL" ELSE tokens[Min(at)].type

\* A path is a sequence of names with "." and "/" between them.  The last dot is
\* looked for in the whole path, directories included.
Languages ==
    [c |-> "C", h |-> "C", cpp |-> "C", cc |-> "C", cxx |-> "C", py |-> "PYTHON", js |-> "JS", ts |-> "JS",
     sh |-> "SHELL", bash |-> "SHELL", asm |-> "ASM", s |-> "ASM", md |-> "MARKDOWN", json |-> "JSON",
     mk |-> "MAKEFILE"]

syntax_detect(path) ==
    LET dots == {k \in DOMAIN path : path[k] = "."}
        slashes == {k \in DOMAIN path : path[k] = "/"} \cup {0}
        ext == SubSeq(path, Max(dots) + 1, Len(path))
        base == SubSeq(path, Max(slashes) + 1, Len(path))
    IN  IF dots = {}
        THEN IF base \in {<<"Makefile">>, <<"makefile">>, <<"GNUmakefile">>} THEN "MAKEFILE" ELSE "NONE"
        ELSE IF Len(ext) = 1 /\ ext[1] \in DOMAIN Languages THEN Languages[ext[1]] ELSE "NONE"

-------------------------------------------------------------------------------
(* The editor's use of it.                                                 *)

Fresh(path) == language' = syntax_detect(path) /\ open' = Closed

\* Mutant: what the last paint left open is kept.
syntax_reset_kept == open

syntax_reset == Closed

\* The first n lines, each with its tokens and what it leaves open.
Highlighted(lg, lines, n) ==
    LET upto[row \in 0 .. n] ==
            IF row = 0 THEN [tokens |-> << >>, open |-> syntax_reset]
            ELSE syntax_highlight_line(lg, lines[row], upto[row - 1].open)
    IN  upto

Shows(first, last, rows) ==
    /\ painted' = [row \in first .. last - 1 |-> rows[row + 1].tokens]
    /\ open' = rows[last].open

\* The rows above the view are highlighted for what they leave open.
draw_content(first) ==
    LET last == Min({first + SyntaxRows, Len(edited.lines)}) IN
    /\ Shows(first, last, Highlighted(language, edited.lines, last))
    /\ UNCHANGED <<edited, language>>

\* The program is started with a file to open.
SyntaxInit ==
    /\ edited \in SyntaxTexts
    /\ language = syntax_detect(edited.path)
    /\ open = Closed
    /\ painted = << >>
    /\ draws = 0

save_as(path) ==
    /\ edited' = [edited EXCEPT !.path = path]
    /\ Fresh(path)
    /\ painted' = << >>

SyntaxNext ==
    /\ draws < MaxDraws /\ draws' = draws + 1
    /\ \/ \E first \in 0 .. Len(edited.lines) - 1 : draw_content(first)
       \/ \E path \in SyntaxPaths : save_as(path)

-------------------------------------------------------------------------------
(* What the colours of C and JavaScript should be, a character at a time.  A     *)
(* mode is what the character before left: code, line, pre, opening and closing  *)
(* (between the two characters of a comment's mark), block, or a string with its *)
(* quote, begun on this line or above it, and whether it follows a backslash.    *)

Mode(kind, quote, here) == [kind |-> kind, quote |-> quote, here |-> here]
CodeMode == Mode("code", "none", FALSE)

NextMode(lg, m, c, next) ==
    CASE m.kind = "code" /\ c = "/" /\ next = "/" -> Mode("line", "none", TRUE)
      [] m.kind = "code" /\ c = "/" /\ next = "*" -> Mode("opening", "none", TRUE)
      [] m.kind = "code" /\ c = "#" /\ lg = "C" -> Mode("pre", "none", TRUE)
      [] m.kind = "code" /\ (c \in QuoteChars \/ (c = Grave /\ lg = "JS")) -> Mode("string", c, TRUE)
      [] m.kind = "opening" -> Mode("block", "none", TRUE)
      [] m.kind = "block" /\ c = "*" /\ next = "/" -> Mode("closing", "none", TRUE)
      [] m.kind = "closing" -> CodeMode
      [] m.kind = "string" /\ c = "\\" -> [m EXCEPT !.kind = "escape"]
      [] m.kind = "string" /\ c = m.quote -> CodeMode
      [] m.kind = "escape" -> [m EXCEPT !.kind = "string"]
      [] OTHER -> m

\* A comment goes on in the next line.  So does a string of C, unless the line it
\* begins on ends in its quote.
NextLine(lg, m, l) ==
    IF m.kind = "block" THEN m
    ELSE IF m.kind \in {"string", "escape"} /\ lg = "C" /\ (m.here => Last(l) # m.quote)
    THEN Mode("string", m.quote, FALSE) ELSE CodeMode

Modes(lg, l, m) ==
    LET mode[i \in 0 .. Len(l)] == IF i = 0 THEN m ELSE NextMode(lg, mode[i - 1], Char(l, i - 1), Char(l, i))
    IN  mode

StartMode(lg, lines, row) ==
    FoldLeft(LAMBDA m, l : NextLine(lg, Modes(lg, l, m)[Len(l)], l), CodeMode, SubSeq(lines, 1, row))

ColourClass(before, after) ==
    IF {before, after} \cap {"line", "opening", "block", "closing"} # {} THEN "COMMENT"
    ELSE IF {before, after} \cap {"string", "escape"} # {} THEN "STRING"
    ELSE IF after = "pre" THEN "PREPROCESSOR" ELSE "code"

-------------------------------------------------------------------------------
(* Properties.                                                             *)

Plain == {"NORMAL", "NUMBER", "KEYWORD", "TYPE", "FUNCTION"}

\* Comments, strings and directives of C and JavaScript have their colours on every
\* row in view, whatever the view is scrolled to and whatever was drawn or opened
\* before (draw_content resets the state and runs it over the rows above).
ColoursExact ==
    language \in {"C", "JS"} =>
        \A row \in DOMAIN painted :
            LET l == edited.lines[row + 1]
                mode == Modes(language, l, StartMode(language, edited.lines, row))
            IN  \A col \in 0 .. Len(l) - 1 :
                    LET type == syntax_token_at(painted[row], col)
                    IN  ColourClass(mode[col].kind, mode[col + 1].kind) =
                            IF type \in Plain THEN "code" ELSE type

\* The loops end with tokens that are in order and apart (but for the makefile's,
\* where a rule and its right side lie over the variables in them), that start in
\* the line, and reach past its end by one at most, after a final backslash; and
\* every letter of code is in a token.
TokensInOrder ==
    \A row \in DOMAIN painted :
        LET l == edited.lines[row + 1]
            tokens == painted[row]
        IN  /\ \A k \in DOMAIN tokens :
                  /\ 0 <= tokens[k].start /\ tokens[k].start < tokens[k].end /\ tokens[k].start < Len(l)
                  /\ tokens[k].end <= Len(l) + (IF Char(l, Len(l) - 1) = "\\" THEN 1 ELSE 0)
            /\ language # "MAKEFILE" =>
                  \A k \in 1 .. Len(tokens) - 1 : tokens[k].end <= tokens[k + 1].start
            /\ language \notin {"MARKDOWN", "MAKEFILE", "NONE"} =>
                  \A col \in 0 .. Len(l) - 1 : Char(l, col) \in WordChars =>
                      \E k \in DOMAIN tokens : col \in tokens[k].start .. tokens[k].end - 1

\* What is carried from line to line is a comment of C or JavaScript, or a string of C.
OpenFits ==
    /\ open = "block" => language \in {"C", "JS"}
    /\ open \in QuoteChars => language = "C"

SyntaxSound == ColoursExact /\ TokensInOrder /\ OpenFits
===============================================================================
