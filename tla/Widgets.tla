------------------------------- MODULE Widgets --------------------------------
(* The widgets: text box, text area, list view, scroll bar and the small     *)
(* controls.                                                                 *)
EXTENDS Integers, Sequences, SequencesExt, FiniteSetsExt

-------------------------------------------------------------------------------
(* The text widgets: the text box of one line and the text area.             *)

-------------------------------------------------------------------------------
(***************************************************************************)
(* The one-line text box (graphics/widgets/textbox.c, widget.c): cursor,   *)
(* selection, boxClipboard and undo.  A character is a model value; positions *)
(* count the characters to the left.                                       *)
(***************************************************************************)

CONSTANTS
    BoxLetters,
    BoxMaxLen,          \* max_len
    TEXTBOX_HISTORY,
    VisibleChars,       \* (w - 2 * PAD_X) / CELL_W
    NoText,
    MaxBoxEvents        \* bound on events

ASSUME BoxConstants == BoxMaxLen \in Nat /\ TEXTBOX_HISTORY \in Nat /\ VisibleChars \in Nat \ {0}

VARIABLES
    box,        \* struct Textbox
    boxClipboard,  \* nv_clipboard (external)
    boxShown,   \* what textbox_draw last drew
    boxEvents

boxVars == <<box, boxClipboard, boxShown, boxEvents>>

\* before: history, the text an undo should bring back, or NoText.
textbox_new ==
    [text |-> << >>, cursor |-> 0, from |-> 0, to |-> 0, selected |-> FALSE, scroll |-> 0, undo |-> << >>,
     undo_pos |-> 0, readonly |-> FALSE, focused |-> FALSE, dirty |-> TRUE, before |-> NoText]

Lo(t) == Min({t.from, t.to})
Hi(t) == Max({t.from, t.to})
Cut(text, a, b) == SubSeq(text, 1, a) \o SubSeq(text, b + 1, Len(text))

\* A full stack keeps what it has, and the position of the next undo.
push_undo(t) ==
    IF Len(t.undo) < TEXTBOX_HISTORY
    THEN [t EXCEPT !.undo = Append(@, [text |-> t.text, cursor |-> t.cursor]), !.undo_pos = Len(t.undo) + 1]
    ELSE t

notify_change(t) == [t EXCEPT !.dirty = TRUE]

\* What an undo now brings back is the text before the edit t, if it was pushed.
Remembers(t, text) == [t EXCEPT !.before = IF Len(t.undo) < TEXTBOX_HISTORY THEN text ELSE NoText]

RemoveSelection(t) == [t EXCEPT !.text = Cut(@, Lo(t), Hi(t)), !.cursor = Lo(t), !.selected = FALSE]

\* A selection is replaced, without a copy of it for undo.
insert_char(t, c) ==
    IF t.readonly \/ Len(t.text) >= BoxMaxLen THEN t
    ELSE LET u == IF t.selected THEN RemoveSelection(t) ELSE t
             v == push_undo(Remembers(u, IF t.selected THEN NoText ELSE t.text))
         IN  notify_change([v EXCEPT !.text = InsertAt(@, u.cursor + 1, c), !.cursor = @ + 1])

\* Mutant of delete_selection: the copy for undo is taken too late.
delete_selection_late(t) ==
    IF ~t.selected THEN t ELSE notify_change(push_undo(RemoveSelection(Remembers(t, t.text))))

delete_selection(t) ==
    IF ~t.selected THEN t ELSE notify_change(RemoveSelection(push_undo(Remembers(t, t.text))))

ensure_cursor_visible(t) ==
    [t EXCEPT !.scroll = CASE t.cursor < @ -> t.cursor
                           [] t.cursor > @ + VisibleChars - 1 -> t.cursor - VisibleChars + 1
                           [] OTHER -> @]

\* Longer texts are cut.  The undo stack is kept.
textbox_set_text(t, text) ==
    [t EXCEPT !.text = text, !.cursor = Len(text), !.selected = FALSE, !.scroll = 0, !.dirty = TRUE, !.before = NoText]

textbox_select_all(t) ==
    [t EXCEPT !.from = 0, !.to = Len(t.text), !.cursor = Len(t.text), !.selected = t.text # << >>, !.dirty = TRUE]

\* shift extends the selection to the new cursor; without it, the selection ends.
MoveTo(t, cursor, shift) ==
    LET from == IF t.selected THEN t.from ELSE t.cursor IN
    [ensure_cursor_visible(
        IF shift THEN [t EXCEPT !.cursor = cursor, !.from = from, !.to = cursor, !.selected = from # cursor]
        ELSE [t EXCEPT !.cursor = cursor, !.selected = FALSE]) EXCEPT !.dirty = TRUE]

\* Without shift, left and right leave a selection at its end.
LeftOf(t, shift) == IF t.selected /\ ~shift THEN Lo(t) ELSE Max({0, t.cursor - 1})
RightOf(t, shift) == IF t.selected /\ ~shift THEN Hi(t) ELSE Min({Len(t.text), t.cursor + 1})

\* The character at i is removed.
Erase(t, i, cursor) ==
    LET u == push_undo(Remembers(t, t.text))
    IN  notify_change([u EXCEPT !.text = RemoveAt(@, i), !.cursor = cursor])

Backspace(t) ==
    CASE t.readonly -> t
      [] ~t.readonly /\ t.selected -> delete_selection(t)
      [] ~t.readonly /\ ~t.selected /\ t.cursor > 0 -> ensure_cursor_visible(Erase(t, t.cursor, t.cursor - 1))
      [] OTHER -> t

Delete(t) ==
    CASE t.readonly -> t
      [] ~t.readonly /\ t.selected -> delete_selection(t)
      [] ~t.readonly /\ ~t.selected /\ t.cursor < Len(t.text) -> Erase(t, t.cursor + 1, t.cursor)
      [] OTHER -> t

Undo(t) ==
    IF t.undo_pos = 0 THEN t
    ELSE LET old == t.undo[t.undo_pos]
         IN  notify_change([t EXCEPT !.undo_pos = @ - 1, !.text = old.text, !.selected = FALSE,
                                     !.cursor = Min({old.cursor, Len(old.text)}), !.before = NoText])

\* Pasting removes the selection of a read-only box as well.
Paste(t) == FoldLeft(insert_char, delete_selection(t), boxClipboard)

Keys == {"left", "right", "home", "end"}

MoveKey(t, key, shift) ==
    MoveTo(t, CASE key = "left" -> LeftOf(t, shift) [] key = "right" -> RightOf(t, shift)
                [] key = "home" -> 0 [] key = "end" -> Len(t.text), shift)

textbox_on_key(key, shift) ==
    /\ box' = CASE key \in Keys -> MoveKey(box, key, shift)
                [] key = "ctrl a" -> textbox_select_all(box)
                [] key \in {"ctrl c", "enter"} -> box
                [] key = "ctrl v" -> Paste(box)
                [] key = "ctrl x" -> delete_selection(box)
                [] key = "ctrl z" -> Undo(box)
                [] key = "backspace" -> Backspace(box)
                [] key = "delete" -> Delete(box)
                [] OTHER -> insert_char(box, key)
    /\ boxClipboard' = IF key \in {"ctrl c", "ctrl x"} /\ box.selected THEN SubSeq(box.text, Lo(box) + 1, Hi(box))
                    ELSE boxClipboard
    /\ UNCHANGED boxShown

\* shift extends the selection without moving the cursor.
textbox_on_mouse(column, shift) ==
    LET c == Max({0, Min({Len(box.text), box.scroll + column})})
        from == IF box.selected THEN box.from ELSE box.cursor
    IN  /\ box' = IF shift THEN [box EXCEPT !.from = from, !.to = c, !.selected = from # c, !.dirty = TRUE]
                  ELSE [box EXCEPT !.cursor = c, !.selected = FALSE, !.dirty = TRUE]
        /\ UNCHANGED <<boxClipboard, boxShown>>

textbox_on_focus(in) ==
    /\ box' = [box EXCEPT !.focused = in, !.selected = @ /\ in, !.dirty = TRUE]
    /\ UNCHANGED <<boxClipboard, boxShown>>

SetText(text) == box' = textbox_set_text(box, text) /\ UNCHANGED <<boxClipboard, boxShown>>
textbox_set_readonly(ro) == box' = [box EXCEPT !.readonly = ro] /\ UNCHANGED <<boxClipboard, boxShown>>

\* The selection and the cursor only with the focus; the text from scroll_x on.
BoxView(t) ==
    [text |-> SubSeq(t.text, t.scroll + 1, Len(t.text)), focused |-> t.focused,
     cursor |-> IF t.focused THEN t.cursor - t.scroll ELSE 0,
     selection |-> IF t.selected /\ t.focused THEN <<Max({0, Lo(t) - t.scroll}), Hi(t) - t.scroll>> ELSE << >>]

textbox_draw ==
    /\ box.dirty
    /\ boxShown' = BoxView(box)
    /\ box' = [box EXCEPT !.dirty = FALSE]
    /\ UNCHANGED boxClipboard

BoxInit == box = textbox_new /\ boxClipboard = << >> /\ boxShown = << >> /\ boxEvents = 0

BoxKeys == Keys \union BoxLetters
              \union {"ctrl a", "ctrl c", "ctrl v", "ctrl x", "ctrl z", "backspace", "delete", "enter"}

BoxEvent ==
    \/ \E key \in BoxKeys, shift \in BOOLEAN : (shift => key \in Keys) /\ textbox_on_key(key, shift)
    \/ \E column \in -1 .. 1, shift \in BOOLEAN : textbox_on_mouse(column, shift)
    \/ \E b \in BOOLEAN : textbox_on_focus(b) \/ textbox_set_readonly(b)
    \/ \E c \in BoxLetters : SetText(<<c, c>>)

BoxNext ==
    \/ boxEvents < MaxBoxEvents /\ BoxEvent /\ boxEvents' = boxEvents + 1
    \/ textbox_draw /\ UNCHANGED boxEvents

\* Cursor and selection stay within the text, and a selection is never empty;
\* undo after an edit that was copied brings back the text before it, also after
\* earlier undos (push_undo appends, it does not overwrite); a box that is not
\* dirty shows its state.
TextboxSound ==
    /\ Len(box.text) <= BoxMaxLen
    /\ box.cursor \in 0 .. Len(box.text)
    /\ box.selected => Lo(box) \in 0 .. Hi(box) - 1 /\ Hi(box) <= Len(box.text)
    /\ box.before # NoText => box.undo_pos > 0 /\ box.undo[box.undo_pos].text = box.before
    /\ ~box.dirty => boxShown = BoxView(box)

-------------------------------------------------------------------------------
(***************************************************************************)
(* The multi-line text area (graphics/widgets/textarea.c).  A byte is a    *)
(* model value, a line a sequence of them.  A position is <<row, col>>:    *)
(* rows count from 1, col is the number of bytes to the left.  The two     *)
(* bars are those of Controls; here they hand over any value they can      *)
(* come to.  Blinking and the application's callbacks are left out.        *)
(***************************************************************************)

CONSTANTS
    TaChars,             \* the characters typed
    TEXTAREA_TAB_WIDTH, TEXTAREA_UNDO_DEPTH,
    TaRows, TaCols,      \* visible_rows, and visible_cols beside the gutter
    TaGutter,            \* columns the gutter takes
    TaTexts,             \* given to textarea_set_text
    MaxTaLines,          \* bound on lines, below TEXTAREA_MAX_LINES
    MaxTaLen,            \* bound on the length of a line
    MaxTaEvents          \* bound on events

ASSUME TaConstants == TaRows > 0 /\ TaCols > 0 /\ TEXTAREA_UNDO_DEPTH > 0

VARIABLES
    ta,           \* struct Textarea
    taClip,       \* nv_clipboard (external)
    taShown,      \* what textarea_draw last drew
    recorded,     \* history: every edit since the oldest undo record has one
    followed,     \* history: the last event scrolled to the cursor
    pushed,       \* history: the bar was used while its range was below a page
    taEvents

taVars == <<ta, taClip, taShown, recorded, followed, pushed, taEvents>>

\* bar: max_val and page_size of the vertical bar, at first those of scrollbar_new.

textarea_new ==
    [lines |-> << << >> >>, cursor |-> <<1, 0>>, mark |-> <<1, 0>>, sel |-> FALSE, row |-> 0, col |-> 0,
     undo |-> << >>, undo_pos |-> 0, readonly |-> FALSE, gutter |-> TRUE, focused |-> FALSE, dirty |-> TRUE,
     bar |-> <<100, 10>>]

visible_cols(t) == TaCols + (IF t.gutter THEN 0 ELSE TaGutter)

pos_lt(a, b) == a[1] < b[1] \/ (a[1] = b[1] /\ a[2] < b[2])
pos_min(t) == IF pos_lt(t.cursor, t.mark) THEN t.cursor ELSE t.mark
pos_max(t) == IF pos_lt(t.cursor, t.mark) THEN t.mark ELSE t.cursor

clamp_pos(t, p) ==
    LET r == Min({Max({p[1], 1}), Len(t.lines)}) IN <<r, Min({Max({p[2], 0}), Len(t.lines[r])})>>

InText(t, p) == p[1] \in DOMAIN t.lines /\ p[2] \in 0 .. Len(t.lines[p[1]])

Upto(line, n) == SubSeq(line, 1, n)
After(line, n) == SubSeq(line, n + 1, Len(line))

\* The bar is told the number of lines by some of the edits only.
Ranged(t) == [t EXCEPT !.bar = <<Len(t.lines), TaRows>>]

\* One character at <<row, col>>; a newline splits the line there.
InsertOne(at, c) ==
    LET line == at.lines[at.row] IN
    IF c = "nl"
    THEN [lines |-> Upto(at.lines, at.row - 1) \o <<Upto(line, at.col), After(line, at.col)>> \o After(at.lines, at.row),
          row |-> at.row + 1, col |-> 0]
    ELSE [at EXCEPT !.lines[at.row] = Upto(line, at.col) \o <<c>> \o After(line, at.col), !.col = @ + 1]

textarea_insert_at(t, pos, text) ==
    LET p == clamp_pos(t, pos) IN
    IF text = << >> THEN t
    ELSE Ranged([t EXCEPT !.lines = FoldLeft(InsertOne, [lines |-> t.lines, row |-> p[1], col |-> p[2]], text).lines,
                          !.dirty = TRUE])

\* The first line up to start is joined with the last one from end on.
textarea_delete_range(t, start, end) ==
    LET s == clamp_pos(t, start)
        e == clamp_pos(t, end)
        u == [t EXCEPT !.lines = Upto(@, s[1] - 1) \o <<Upto(@[s[1]], s[2]) \o After(@[e[1]], e[2])>> \o After(@, e[1])]
    IN  CASE ~pos_lt(s, e) -> t
          [] pos_lt(s, e) /\ s[1] = e[1] -> u
          [] OTHER -> Ranged([u EXCEPT !.dirty = TRUE])

\* A C string ends before a zero byte.
CString(text) == SubSeq(text, 1, Min({i - 1 : i \in {i \in DOMAIN text : text[i] = "NUL"}} \union {Len(text)}))

\* What its callers see of it, up to a zero byte.
textarea_selected_text(t) ==
    LET s == pos_min(t)
        e == pos_max(t)
        Part(r) == SubSeq(t.lines[r], (IF r = s[1] THEN s[2] ELSE 0) + 1, IF r = e[1] THEN e[2] ELSE Len(t.lines[r]))
    IN  IF ~t.sel THEN << >>
        ELSE CString(FoldLeft(LAMBDA text, i : text \o (IF i = 1 THEN << >> ELSE <<"nl">>) \o Part(s[1] + i - 1),
                              << >>, [i \in 1 .. e[1] - s[1] + 1 |-> i]))

\* before, after: history, the text on either side of the edit.
ta_undo_push(t, op, start, end, text, after) ==
    LET kept == Upto(t.undo, t.undo_pos)
        room == IF Len(kept) >= TEXTAREA_UNDO_DEPTH THEN Tail(kept) ELSE kept
    IN  [t EXCEPT !.undo = Append(room, [op |-> op, start |-> start, end |-> end, text |-> text,
                                         before |-> t.lines, after |-> after]),
                  !.undo_pos = Len(room) + 1]

textarea_scroll_to_cursor(t) ==
    LET Follow(from, at, room) == CASE at < from -> at [] at >= from + room -> at - room + 1 [] OTHER -> from
    IN  [t EXCEPT !.row = Follow(@, t.cursor[1] - 1, TaRows), !.col = Follow(@, t.cursor[2], visible_cols(t)),
                  !.dirty = TRUE]

TaRemoveSelection(t, record) ==
    LET gone == textarea_delete_range(t, pos_min(t), pos_max(t))
        noted == IF record
                 THEN ta_undo_push(t, "delete", pos_min(t), pos_max(t), textarea_selected_text(t), gone.lines)
                 ELSE t
    IN  [noted EXCEPT !.lines = gone.lines, !.cursor = pos_min(t), !.sel = FALSE, !.dirty = gone.dirty, !.bar = gone.bar]

\* An edit that replaces [start, end) by text, with its record.
Recorded(t, op, start, end, text, cursor) ==
    LET u == IF op = "insert" THEN textarea_insert_at(t, start, text) ELSE textarea_delete_range(t, start, end)
    IN  [ta_undo_push(t, op, start, end, text, u.lines) EXCEPT
            !.lines = u.lines, !.cursor = cursor, !.dirty = TRUE, !.bar = u.bar]

InsertedAt(t, text, past) == textarea_scroll_to_cursor(Recorded(t, "insert", t.cursor, past, text, past))
Cleared(t, record) == IF t.sel THEN TaRemoveSelection(t, record) ELSE t

\* (char)cp: of a code point below 65536 the low byte is kept.
LowByte(cp) == CASE cp = "U+0178" -> "x" [] cp = "U+0100" -> "NUL" [] cp = "U+010A" -> "nl" [] OTHER -> cp

\* line_insert: a newline among the low bytes does not split the line here.
ByteAtCursor(t, c) ==
    LET p == t.cursor
        lines == [t.lines EXCEPT ![p[1]] = Upto(@, p[2]) \o <<c>> \o After(@, p[2])]
        past == <<p[1], p[2] + 1>>
    IN  textarea_scroll_to_cursor(
            [ta_undo_push(t, "insert", p, past, <<c>>, lines) EXCEPT !.lines = lines, !.cursor = past, !.dirty = TRUE])

textarea_insert_char(t, cp) == ByteAtCursor(Cleared(t, TRUE), LowByte(cp))

\* The indentation of the whole line, wherever in it the cursor is, and one more
\* step behind an opening brace.
Indent(t) ==
    LET line == t.lines[t.cursor[1]]
        lead == CHOOSE n \in 0 .. Len(line) :
                    (\A i \in 1 .. n : line[i] = " ") /\ (n < Len(line) => line[n + 1] # " ")
    IN  lead + (IF t.cursor[2] > 0 /\ line[t.cursor[2]] = "{" THEN TEXTAREA_TAB_WIDTH ELSE 0)

\* Mutant of textarea_newline: the record ends behind the newline.
textarea_newline_short(t) ==
    LET u == Cleared(t, FALSE)
        n == Indent(u)
    IN  textarea_scroll_to_cursor(Recorded(u, "insert", u.cursor, <<u.cursor[1] + 1, 0>>,
                                           <<"nl">> \o [i \in 1 .. n |-> " "], <<u.cursor[1] + 1, n>>))

NewlineAtCursor(t, n) == InsertedAt(t, <<"nl">> \o [i \in 1 .. n |-> " "], <<t.cursor[1] + 1, n>>)

\* Unlike insert_char, the selection it replaces has no record.
textarea_newline(t) == NewlineAtCursor(Cleared(t, FALSE), Indent(Cleared(t, FALSE)))

textarea_backspace(t) ==
    LET p == t.cursor
        prev == IF p[2] > 0 THEN <<p[1], p[2] - 1>> ELSE <<p[1] - 1, Len(t.lines[p[1] - 1])>>
        gone == IF p[2] > 0 THEN t.lines[p[1]][p[2]] ELSE "nl"
    IN  CASE t.sel -> textarea_scroll_to_cursor(TaRemoveSelection(t, TRUE))
          [] ~t.sel /\ p = <<1, 0>> -> t
          [] OTHER -> textarea_scroll_to_cursor(Recorded(t, "delete", prev, p, <<gone>>, prev))

\* Without a selection the view is not moved: the cursor stays where it is.
textarea_delete_fwd(t) ==
    LET p == t.cursor
        inLine == p[2] < Len(t.lines[p[1]])
        next == IF inLine THEN <<p[1], p[2] + 1>> ELSE <<p[1] + 1, 0>>
        gone == IF inLine THEN t.lines[p[1]][p[2] + 1] ELSE "nl"
    IN  CASE t.sel -> textarea_backspace(t)
          [] ~t.sel /\ p = <<Len(t.lines), Len(t.lines[Len(t.lines)])>> -> t
          [] OTHER -> Recorded(t, "delete", p, next, <<gone>>, p)

\* The rows an indentation applies to.
RowsOf(t) == LET m == IF t.sel THEN t.mark[1] ELSE t.cursor[1]
             IN  Min({m, t.cursor[1]}) .. Max({m, t.cursor[1]})

textarea_indent(t) ==
    LET tab == [i \in 1 .. TEXTAREA_TAB_WIDTH |-> " "] IN
    [t EXCEPT !.lines = [r \in DOMAIN @ |-> IF r \in RowsOf(t) THEN tab \o @[r] ELSE @[r]],
              !.cursor[2] = @ + TEXTAREA_TAB_WIDTH,
              !.mark[2] = IF t.sel THEN @ + TEXTAREA_TAB_WIDTH ELSE @, !.dirty = TRUE]

\* The mark keeps its column, and may be left behind the end of its line.
textarea_dedent(t) ==
    LET Lead(line) == Max({n \in 0 .. Min({TEXTAREA_TAB_WIDTH, Len(line)}) : \A i \in 1 .. n : line[i] = " "}) IN
    [t EXCEPT !.lines = [r \in DOMAIN @ |-> IF r \in RowsOf(t) THEN After(@[r], Lead(@[r])) ELSE @[r]],
              !.cursor[2] = Max({0, @ - TEXTAREA_TAB_WIDTH}), !.dirty = TRUE]

textarea_delete_line(t) ==
    IF Len(t.lines) <= 1 THEN t
    ELSE [t EXCEPT !.lines = RemoveAt(@, t.cursor[1]), !.cursor = <<Min({@[1], Len(t.lines) - 1}), 0>>, !.dirty = TRUE]

textarea_duplicate_line(t) ==
    [t EXCEPT !.lines = InsertAt(@, t.cursor[1] + 1, t.lines[t.cursor[1]]), !.cursor[1] = @ + 1, !.dirty = TRUE]

\* Neither undo nor redo ends a selection.
textarea_undo(t) ==
    LET u == t.undo[t.undo_pos]
        v == IF u.op = "insert" THEN textarea_delete_range(t, u.start, u.end) ELSE textarea_insert_at(t, u.start, u.text)
    IN  IF t.undo_pos = 0 THEN t
        ELSE textarea_scroll_to_cursor([v EXCEPT !.cursor = clamp_pos(v, u.start), !.undo_pos = @ - 1])

textarea_redo(t) ==
    LET u == t.undo[t.undo_pos + 1]
        v == IF u.op = "insert" THEN textarea_insert_at(t, u.start, u.text) ELSE textarea_delete_range(t, u.start, u.end)
    IN  IF t.undo_pos = Len(t.undo) THEN t
        ELSE textarea_scroll_to_cursor(
                 [v EXCEPT !.cursor = clamp_pos(v, IF u.op = "insert" THEN u.end ELSE u.start), !.undo_pos = @ + 1])

\* The undo records of the old text stay.
textarea_set_text(t, lines) ==
    Ranged([t EXCEPT !.lines = lines, !.cursor = <<1, 0>>, !.mark = <<1, 0>>, !.sel = FALSE, !.row = 0, !.col = 0,
                     !.dirty = TRUE])

textarea_select_all(t) ==
    [t EXCEPT !.mark = <<1, 0>>, !.cursor = <<Len(t.lines), Len(t.lines[Len(t.lines)])>>, !.sel = TRUE, !.dirty = TRUE]

\* shift extends the selection; End and a click select even nothing.
MoveCursor(t, to, shift, always) ==
    LET m == IF shift /\ ~t.sel THEN t.cursor ELSE t.mark
    IN  textarea_scroll_to_cursor([t EXCEPT !.cursor = to, !.mark = m, !.sel = shift /\ (always \/ to # m)])

move_cursor(t, dr, dc, shift) ==
    LET r == Min({Max({t.cursor[1] + dr, 1}), Len(t.lines)})
        c == t.cursor[2] + dc
        to == CASE dc # 0 /\ c < 0 -> IF r > 1 THEN <<r - 1, Len(t.lines[r - 1])>> ELSE <<r, 0>>
                [] dc # 0 /\ c > Len(t.lines[r]) -> IF r < Len(t.lines) THEN <<r + 1, 0>> ELSE <<r, Len(t.lines[r])>>
                [] OTHER -> <<r, Min({c, Len(t.lines[r])})>>
    IN  MoveCursor(t, to, shift, FALSE)

Moved(t, key, shift) ==
    CASE key = "left" -> move_cursor(t, 0, -1, shift)
      [] key = "right" -> move_cursor(t, 0, 1, shift)
      [] key = "up" -> move_cursor(t, -1, 0, shift)
      [] key = "down" -> move_cursor(t, 1, 0, shift)
      [] key = "page up" -> move_cursor(t, -TaRows, 0, shift)
      [] key = "page down" -> move_cursor(t, TaRows, 0, shift)
      [] key = "home" -> MoveCursor(t, <<t.cursor[1], 0>>, shift, FALSE)
      [] key = "end" -> MoveCursor(t, <<t.cursor[1], Len(t.lines[t.cursor[1]])>>, shift, TRUE)

\* Cut and paste work on a read-only area as well, and have no record.
CutText(t) == IF textarea_selected_text(t) = << >> THEN t
              ELSE textarea_scroll_to_cursor(TaRemoveSelection(t, FALSE))

Pasted(t) ==
    LET v == textarea_insert_at(t, t.cursor, taClip)
        end == FoldLeft(LAMBDA p, c : IF c = "nl" THEN <<p[1] + 1, 0>> ELSE <<p[1], p[2] + 1>>, t.cursor, taClip)
    IN  textarea_scroll_to_cursor([v EXCEPT !.cursor = clamp_pos(v, end)])

PasteText(t) == Pasted(Cleared(t, FALSE))

\* A selection whose mark has left the text is not read: that is past the line's buffer.
MarkHolds(t) == t.sel => InText(t, t.mark)

\* The bounds on the text.
Fits(t) == Len(t.lines) <= MaxTaLines /\ \A r \in DOMAIN t.lines : Len(t.lines[r]) <= MaxTaLen

\* Neither a newline nor a zero byte within a line.
PlainLines(lines) == \A r \in DOMAIN lines : \A i \in DOMAIN lines[r] : lines[r][i] \notin {"nl", "NUL"}

\* An edit of the text; records says whether undo can take it back, follows
\* whether the view goes to the cursor.
Edit(t, records, follows) ==
    /\ MarkHolds(ta) /\ Fits(t)
    /\ ta' = t
    /\ recorded' = (PlainLines(t.lines) /\ (ta.undo = << >> \/ (recorded /\ (records \/ t.lines = ta.lines))))
    /\ followed' = IF t = ta THEN followed ELSE follows
    /\ UNCHANGED <<taClip, taShown, pushed>>

EditKey ==
    /\ ta.focused /\ ~ta.readonly
    /\ \/ \E c \in TaChars : Edit(textarea_insert_char(ta, c), TRUE, TRUE)
       \/ Edit(textarea_newline(ta), ~ta.sel, TRUE)
       \/ Edit(textarea_backspace(ta), TRUE, TRUE)
       \/ Edit(textarea_delete_fwd(ta), TRUE, ta.sel)
       \/ Edit(textarea_indent(ta), FALSE, FALSE) \/ Edit(textarea_dedent(ta), FALSE, FALSE)
       \/ Edit(textarea_delete_line(ta), FALSE, FALSE) \/ Edit(textarea_duplicate_line(ta), FALSE, FALSE)

\* These do not look at readonly.
HistoryKey == ta.focused /\ (Edit(textarea_undo(ta), TRUE, TRUE) \/ Edit(textarea_redo(ta), TRUE, TRUE))
ClipKey ==
    /\ ta.focused /\ MarkHolds(ta)
    /\ \/ Edit(PasteText(ta), FALSE, TRUE)
       \/ LET text == textarea_selected_text(ta) IN
          /\ taClip' = IF text = << >> THEN taClip ELSE text
          /\ \/ UNCHANGED <<ta, recorded, followed>>
             \/ ta' = CutText(ta) /\ recorded' = (ta.undo = << >> \/ (recorded /\ text = << >>))
                /\ followed' = (followed \/ text # << >>)
          /\ UNCHANGED <<taShown, pushed>>

\* The view and the cursor; follows says whether the view goes to the cursor.
TaLook(t, follows) ==
    /\ ta' = t /\ followed' = follows
    /\ UNCHANGED <<taClip, taShown, recorded, pushed>>

textarea_on_mouse_down(r, c, shift) ==
    TaLook(MoveCursor(ta, clamp_pos(ta, <<ta.row + r, ta.col + c>>), shift, TRUE), TRUE)

textarea_on_scroll(dy) ==
    TaLook([ta EXCEPT !.row = Min({Max({0, @ + 3 * dy}), Max({0, Len(ta.lines) - TaRows})}), !.dirty = TRUE], FALSE)

\* What the vertical bar comes to: with max < page an arrow, a page or the wheel
\* sets max - page (scrollbar_set_value), and dragging the thumb sets 0.
BarValues == LET room == ta.bar[1] - ta.bar[2] IN IF room < 0 THEN {room, 0} ELSE 0 .. room

\* The row is taken as it comes, below zero as well.
on_vscroll(v) ==
    /\ ta' = [ta EXCEPT !.row = v, !.dirty = TRUE] /\ followed' = FALSE
    /\ pushed' = (pushed \/ ta.bar[1] < ta.bar[2])
    /\ UNCHANGED <<taClip, taShown, recorded>>

on_hscroll(v) == TaLook([ta EXCEPT !.col = v, !.dirty = TRUE], FALSE)

textarea_on_focus(focused) == TaLook([ta EXCEPT !.focused = focused, !.sel = @ /\ focused, !.dirty = TRUE], FALSE)
textarea_set_readonly == TaLook([ta EXCEPT !.readonly = ~@], FALSE)
textarea_set_show_gutter == TaLook([ta EXCEPT !.gutter = ~@, !.dirty = TRUE], FALSE)

ViewKey ==
    /\ ta.focused
    /\ \/ TaLook(textarea_select_all(ta), FALSE)
       \/ \E k \in {"left", "right", "up", "down", "page up", "page down", "home", "end"}, shift \in BOOLEAN :
              TaLook(Moved(ta, k, shift), TRUE)

\* What is drawn of lines[-k]: whatever is in memory before the lines.
Outside == <<"outside">>

\* The rows in view, the part of the selection in view, the cursor if it is in view.
Page(t) ==
    LET cols == visible_cols(t)
        s == pos_min(t)
        e == pos_max(t)
        Row(r) == CASE r < 1 -> Outside
                    [] r >= 1 /\ t.col > Len(t.lines[r]) -> << >>
                    [] OTHER -> CString(SubSeq(t.lines[r], t.col + 1, Min({Len(t.lines[r]), t.col + cols})))
        Marked(r) == IF t.sel /\ r \in s[1] .. e[1]
                     THEN {c \in 0 .. cols - 1 : /\ c + t.col >= (IF r = s[1] THEN s[2] ELSE 0)
                                                 /\ c + t.col < (IF r = e[1] THEN e[2] ELSE Len(t.lines[r]))}
                     ELSE {}
        rows == Min({TaRows, Max({0, Len(t.lines) - t.row})})
        at == <<t.cursor[1] - t.row, t.cursor[2] - t.col>>
    IN  [rows |-> [i \in 1 .. rows |-> <<Row(t.row + i), Marked(t.row + i)>>], gutter |-> t.gutter, focused |-> t.focused,
         cursor |-> IF t.focused /\ at[1] \in 1 .. TaRows /\ at[2] \in 0 .. cols THEN at ELSE <<0, 0>>]

textarea_draw ==
    /\ ta.dirty
    /\ taShown' = Page(ta) /\ ta' = [ta EXCEPT !.dirty = FALSE]
    /\ UNCHANGED <<taClip, recorded, followed, pushed>>

TaInit ==
    /\ ta = textarea_new /\ taClip = << >> /\ taShown = << >>
    /\ recorded = TRUE /\ followed = TRUE /\ pushed = FALSE /\ taEvents = 0

TaEvent ==
    \/ EditKey \/ HistoryKey \/ ClipKey \/ ViewKey
    \/ \E r \in 1 .. TaRows, c \in {0, TaCols}, shift \in BOOLEAN : textarea_on_mouse_down(r, c, shift)
    \/ \E dy \in {-1, 1} : textarea_on_scroll(dy)
    \/ \E v \in BarValues \intersect (-TaRows .. Len(ta.lines)) : on_vscroll(v)
    \/ \E v \in 0 .. 1 : on_hscroll(v)
    \/ \E b \in BOOLEAN : textarea_on_focus(b)
    \/ textarea_set_readonly \/ textarea_set_show_gutter

\* Setting a first text and the focus is not counted.
TaNext ==
    \/ taEvents < MaxTaEvents /\ TaEvent /\ taEvents' = taEvents + 1
    \/ /\ taEvents = 0 /\ UNCHANGED taEvents
       /\ \/ \E lines \in TaTexts : Edit(textarea_set_text(ta, lines), FALSE, TRUE)
          \/ textarea_on_focus(TRUE)
    \/ textarea_draw /\ UNCHANGED taEvents

\* The cursor is always a position of the text.  Undo, taken while the text is as
\* the latest record left it, brings back the text before that edit, over newlines,
\* indentation and replaced selections alike, and redo the text after it; as long as
\* every edit was recorded the text is always what the neighbouring records say
\* (undo_push drops what was undone).  That is so for lines without a newline or a
\* zero byte in them, which textarea_insert_char makes of a code point above 255.
\* After a move or a recorded edit the cursor is in view.  An area that is not dirty
\* shows its text; memory before the lines is drawn only after the bar was used while
\* the text was shorter than a page, and then less than a page of it.
TextareaSound ==
    /\ InText(ta, ta.cursor)
    /\ ta.undo_pos \in 0 .. Len(ta.undo) /\ Len(ta.undo) <= TEXTAREA_UNDO_DEPTH
    /\ ta.undo_pos > 0 =>
           LET u == ta.undo[ta.undo_pos] IN
           /\ ta.lines = u.after /\ PlainLines(u.before) /\ PlainLines(u.after) => textarea_undo(ta).lines = u.before
           /\ recorded => ta.lines = u.after
    /\ ta.undo_pos < Len(ta.undo) =>
           LET u == ta.undo[ta.undo_pos + 1] IN
           /\ ta.lines = u.before /\ PlainLines(u.before) /\ PlainLines(u.after) => textarea_redo(ta).lines = u.after
           /\ recorded => ta.lines = u.before
    /\ followed => /\ ta.cursor[1] - ta.row \in 1 .. TaRows
                   /\ ta.cursor[2] - ta.col \in 0 .. visible_cols(ta) - 1
    /\ ~ta.dirty => taShown = Page(ta)
    /\ ta.row < 0 => pushed /\ -ta.row < TaRows

-------------------------------------------------------------------------------
(* The other widgets: list view and scroll bar, and the small controls.      *)

\* C's division rounds towards zero.
CDiv(a, b) == IF (a >= 0) = (b > 0) THEN (IF a >= 0 THEN a ELSE -a) \div (IF b > 0 THEN b ELSE -b)
              ELSE -((IF a >= 0 THEN a ELSE -a) \div (IF b > 0 THEN b ELSE -b))

-------------------------------------------------------------------------------
(***************************************************************************)
(* The list view and its scroll bar (graphics/widgets/listview.c,          *)
(* scrollbar.c).  Rows have height 1; an item is a model value.  Items are *)
(* counted from 1, selected and hovered are 0 for none; the offset is the  *)
(* number of items above the first row.                                    *)
(***************************************************************************)

CONSTANTS
    ListItems,
    LISTVIEW_MAX_ITEMS,
    ListRows,            \* base.h / item_h; a header takes one of them
    BarLen, MIN_THUMB, \* of the bar, in pixels
    MaxListEvents        \* bound on events

ASSUME ListConstants == ListRows >= 2 /\ BarLen >= MIN_THUMB /\ MIN_THUMB \in Nat

VARIABLES
    list, sb,      \* struct ListView, struct Scrollbar (min_val is 0)
    listShown,     \* what listview_draw last drew
    told,          \* the item of the last on_select or on_activate
    caveats,       \* history: "short", the bar was set with fewer items than rows;
                   \* "shrunk", items were removed or rows were taken
    sought,        \* history: the selection was the last to move the list
    listEvents

listVars == <<list, sb, listShown, told, caveats, sought, listEvents>>

Visible(l) == ListRows - (IF l.header THEN 1 ELSE 0)

compute_thumb(s) ==
    LET range == s.max
        size == Min({BarLen, Max({MIN_THUMB, (s.page * BarLen) \div (range + s.page)})})
    IN  CASE range <= 0 -> [s EXCEPT !.thumb_pos = 0, !.thumb_size = BarLen]
          [] range > 0 /\ range <= s.page -> [s EXCEPT !.thumb_pos = 0, !.thumb_size = size]
          [] OTHER -> [s EXCEPT !.thumb_pos = CDiv(s.value * (BarLen - size), range - s.page), !.thumb_size = size]

\* The value is kept below max, not below max - page.
scrollbar_set_range(s, max, page) ==
    compute_thumb([s EXCEPT !.max = max, !.page = page, !.value = Min({Max({@, 0}), max})])

\* Mutant of scrollbar_set_value: the page is forgotten.
scrollbar_set_value_page(s, v) == compute_thumb([s EXCEPT !.value = Min({Max({v, 0}), s.max})])

\* With max < page the upper bound wins, and is negative.
scrollbar_set_value(s, v) == compute_thumb([s EXCEPT !.value = Min({Max({v, 0}), s.max - s.page})])

set_value_from_thumb(s) ==
    LET room == BarLen - s.thumb_size
        range == s.max - s.page
    IN  IF room <= 0 \/ range <= 0 THEN [s EXCEPT !.value = 0]
        ELSE [s EXCEPT !.value = Min({Max({CDiv(s.thumb_pos * range, room), 0}), range})]

update_scrollbar(l) == scrollbar_set_range(sb, Len(l.items), Visible(l))

\* The bar is set while the list has fewer items than rows; an empty list may
\* still have the range of scrollbar_new.
Short == IF Len(list.items) < sb.page THEN {"short"} ELSE {}

listview_clear ==
    LET l == [list EXCEPT !.items = << >>, !.selected = 0, !.hovered = 0, !.offset = 0, !.dirty = TRUE] IN
    /\ list' = l /\ sb' = update_scrollbar(l)
    /\ caveats' = caveats \union {"shrunk"} /\ sought' = FALSE
    /\ UNCHANGED <<listShown, told>>

listview_add_item(item) ==
    LET l == [list EXCEPT !.items = Append(@, item), !.dirty = TRUE] IN
    /\ Len(list.items) < LISTVIEW_MAX_ITEMS
    /\ list' = l /\ sb' = update_scrollbar(l)
    /\ UNCHANGED <<listShown, told, caveats, sought>>

\* Mutant of listview_remove_item: the selection is not looked at.
listview_remove_item_keeps(i) ==
    LET l == [list EXCEPT !.items = RemoveAt(@, i), !.dirty = TRUE] IN
    /\ i \in DOMAIN list.items
    /\ list' = l /\ sb' = update_scrollbar(l)
    /\ caveats' = caveats \union {"shrunk"} /\ sought' = FALSE
    /\ UNCHANGED <<listShown, told>>

\* The selection keeps its number, and so moves to the next item.
listview_remove_item(i) ==
    LET l == [list EXCEPT !.items = RemoveAt(@, i), !.selected = Min({@, Len(list.items) - 1}), !.dirty = TRUE] IN
    /\ i \in DOMAIN list.items
    /\ list' = l /\ sb' = update_scrollbar(l)
    /\ caveats' = caveats \union {"shrunk"} /\ sought' = FALSE
    /\ UNCHANGED <<listShown, told>>

\* The header takes a row; the bar is not told.
listview_set_columns(shown) ==
    /\ list' = [list EXCEPT !.header = shown, !.dirty = TRUE]
    /\ caveats' = caveats \union {"shrunk"} /\ sought' = FALSE
    /\ UNCHANGED <<sb, listShown, told>>

\* Mutant of listview_scroll_to: off by one at the last row.
listview_scroll_to_short(l, i) ==
    IF i = 0 THEN l
    ELSE [l EXCEPT !.offset = CASE i <= @ -> i - 1
                                [] i > @ + Visible(l) + 1 -> i - Visible(l)
                                [] OTHER -> @, !.dirty = TRUE]

listview_scroll_to(l, i) ==
    IF i = 0 THEN l
    ELSE [l EXCEPT !.offset = CASE i <= @ -> i - 1
                                [] i > @ + Visible(l) -> i - Visible(l)
                                [] OTHER -> @, !.dirty = TRUE]

Seek(i, notify) ==
    LET l == listview_scroll_to([list EXCEPT !.selected = i, !.dirty = TRUE], i) IN
    /\ list' = l
    /\ sb' = IF i = 0 THEN sb ELSE scrollbar_set_value(sb, l.offset)
    /\ caveats' = IF i = 0 THEN caveats ELSE caveats \union Short
    /\ told' = IF notify THEN <<"select", i>> ELSE told
    /\ sought' = (i > 0)
    /\ UNCHANGED listShown

listview_set_selected(i) == i \in 0 .. Len(list.items) /\ Seek(i, FALSE)

listview_on_key(key) ==
    CASE key = "up" /\ list.selected > 1 -> Seek(list.selected - 1, TRUE)
      [] key = "down" /\ list.selected < Len(list.items) -> Seek(list.selected + 1, TRUE)
      [] key = "enter" /\ list.selected > 0 ->
            told' = <<"activate", list.selected>> /\ UNCHANGED <<list, sb, listShown, caveats, sought>>
      [] OTHER -> UNCHANGED <<list, sb, listShown, told, caveats, sought>>

\* row: of the list; the header is above row 0.  Just above, division rounds to 0.
listview_on_mouse_move(row) ==
    LET i == list.offset + Max({row, 0}) + 1
        h == IF i \in DOMAIN list.items THEN i ELSE 0
    IN  /\ list' = [list EXCEPT !.hovered = h, !.dirty = @ \/ h # list.hovered]
        /\ UNCHANGED <<sb, listShown, told, caveats, sought>>

listview_on_mouse_down(row) ==
    LET i == list.offset + row + 1 IN
    /\ row >= 0 /\ i \in DOMAIN list.items
    /\ list' = [list EXCEPT !.selected = i, !.dirty = TRUE]
    /\ told' = <<"select", i>> /\ sought' = FALSE
    /\ UNCHANGED <<sb, listShown, caveats>>

\* The wheel over the list: the last item may become the first row.
listview_on_scroll(dy) ==
    LET o == Max({0, Min({Max({0, list.offset + 3 * dy}), Len(list.items) - 1})}) IN
    /\ list' = [list EXCEPT !.offset = o, !.dirty = TRUE]
    /\ sb' = scrollbar_set_value(sb, o)
    /\ caveats' = caveats \union Short /\ sought' = FALSE
    /\ UNCHANGED <<listShown, told>>

\* on_scroll_cb: the list takes the value of the bar.
Scrolls(s) ==
    /\ sb' = s
    /\ list' = [list EXCEPT !.offset = s.value, !.dirty = TRUE]
    /\ sought' = FALSE
    /\ UNCHANGED <<listShown, told>>

\* at: an arrow, a place in the track counted from its start, or the wheel.
scrollbar_on_mouse_down(at) ==
    LET thumb == sb.thumb_pos .. sb.thumb_pos + sb.thumb_size - 1
        step == CASE at = -1 -> -(sb.page \div 4)
                  [] at = BarLen -> sb.page \div 4
                  [] OTHER -> IF at < sb.thumb_pos THEN -sb.page ELSE sb.page
    IN  IF at \in (0 .. BarLen - 1) \intersect thumb
        THEN /\ sb' = [sb EXCEPT !.dragging = TRUE, !.drag_offset = at - sb.thumb_pos]
             /\ list' = [list EXCEPT !.dirty = TRUE]
             /\ UNCHANGED <<listShown, told, caveats, sought>>
        ELSE Scrolls(scrollbar_set_value(sb, sb.value + step)) /\ caveats' = caveats \union Short

scrollbar_on_mouse_move(at) ==
    LET room == Max({1, BarLen - sb.thumb_size})
        pos == Min({Max({at - sb.drag_offset, 0}), room})
    IN  /\ sb.dragging
        /\ Scrolls(set_value_from_thumb([sb EXCEPT !.thumb_pos = pos]))
        /\ caveats' = caveats \union Short

scrollbar_on_mouse_up ==
    /\ sb.dragging /\ sb' = [sb EXCEPT !.dragging = FALSE]
    /\ list' = [list EXCEPT !.dirty = TRUE]
    /\ UNCHANGED <<listShown, told, caveats, sought>>

scrollbar_on_scroll(dy) ==
    Scrolls(scrollbar_set_value(sb, sb.value + 3 * dy)) /\ caveats' = caveats \union Short

\* An item before the first is memory before the array: anything.
ListingOf(l) ==
    [rows |-> [r \in 1 .. Min({Visible(l), Max({0, Len(l.items) - l.offset})}) |->
                  IF l.offset + r < 1 THEN "outside" ELSE l.items[l.offset + r]],
     selected |-> IF l.selected = 0 THEN 0 ELSE l.selected - l.offset,
     hovered |-> IF l.hovered = 0 THEN 0 ELSE l.hovered - l.offset, header |-> l.header]

listview_draw ==
    /\ list.dirty
    /\ listShown' = ListingOf(list)
    /\ list' = [list EXCEPT !.dirty = FALSE]
    /\ UNCHANGED <<sb, told, caveats, sought>>

scrollbar_new ==
    compute_thumb([max |-> 100, page |-> 10, value |-> 0, thumb_pos |-> 0, thumb_size |-> 0, dragging |-> FALSE,
                   drag_offset |-> 0])
listview_new == [items |-> << >>, selected |-> 0, hovered |-> 0, offset |-> 0, header |-> FALSE, dirty |-> TRUE]

ListInit ==
    /\ list = listview_new /\ sb = scrollbar_new
    /\ listShown = << >> /\ told = <<"none", 0>> /\ caveats = {} /\ sought = FALSE /\ listEvents = 0

ListEvent ==
    \/ listview_clear
    \/ \E item \in ListItems : listview_add_item(item)
    \/ \E i \in DOMAIN list.items : listview_remove_item(i)
    \/ \E i \in 0 .. Len(list.items) : listview_set_selected(i)
    \/ \E k \in {"up", "down", "enter"} : listview_on_key(k)
    \/ \E row \in -1 .. ListRows - 1 : listview_on_mouse_move(row) \/ listview_on_mouse_down(row)
    \/ \E dy \in {-1, 1} : listview_on_scroll(dy) \/ scrollbar_on_scroll(dy)
    \/ \E at \in -1 .. BarLen : scrollbar_on_mouse_down(at) \/ scrollbar_on_mouse_move(at)
    \/ scrollbar_on_mouse_up
    \/ \E b \in BOOLEAN : listview_set_columns(b)

\* Filling the list is not counted.
ListNext ==
    \/ listEvents < MaxListEvents /\ ListEvent /\ listEvents' = listEvents + 1
    \/ listEvents = 0 /\ (\E item \in ListItems : listview_add_item(item)) /\ UNCHANGED listEvents
    \/ listview_draw /\ UNCHANGED listEvents

\* The selection names an item of the list, whatever was removed.  A selection
\* made by a call or a key is on a visible row (listview_scroll_to).  The bar's
\* thumb is within its track and the first row is an item, unless the bar was set
\* while the list had fewer items than rows (its value is then negative, and an
\* arrow hands it to the list) or the list shrank (update_scrollbar leaves the
\* value).  A list that is not dirty shows its state.
ListViewSound ==
    /\ list.selected \in 0 .. Len(list.items)
    /\ sought => list.selected - list.offset \in 1 .. Visible(list)
    /\ caveats = {} => /\ sb.value \in 0 .. Max({0, sb.max - sb.page})
                       /\ sb.thumb_pos \in 0 .. BarLen - sb.thumb_size
                       /\ list.offset \in 0 .. Max({0, Len(list.items) - 1})
    /\ "short" \notin caveats => list.offset >= 0
    /\ ~list.dirty => listShown = ListingOf(list)

-------------------------------------------------------------------------------
(***************************************************************************)
(* The small widgets of graphics/widgets: the tree they hang in            *)
(* (widget.c), button, check box, slider and progress bar, and the menu    *)
(* with its submenus.  Each part has a next-state relation of its own.     *)
(* Colours, labels and fonts are left out: a drawing is the state it was   *)
(* made from.  Coordinates are one-dimensional.                            *)
(***************************************************************************)

CONSTANTS
    WidgetIds, Root,               \* widgets, and the one that is drawn
    WIDGET_MAX_CHILDREN,
    WidgetW, WidgetPos,            \* width of a widget, places it may have
    ControlKinds,                  \* among "button", "checkbox", "radio", "slider", "progress"
    TrackLen, THUMB_D,             \* length of the slider's track, size of its thumb
    Ranges, Steps, MouseAt,        \* ranges <<min, max>>, steps and mouse positions tried
    MenuItems,                     \* sequence of "normal", "check", "separator", "submenu"
    MENU_ITEM_H, SEPARATOR_H, MENU_PAD,
    MaxControlEvents               \* bound on the events of each part

VARIABLES
    wt,        \* the tree: children, parent, hidden, dirty, at (position)
    drawn,     \* where each widget was last drawn
    ctl,       \* one control
    shown,     \* what it looked like when last drawn
    mn,        \* the menu
    menuShown, \* what of it was last drawn
    happened   \* events so far

treeVars == <<wt, drawn>>
controlVars == <<ctl, shown>>
menuVars == <<mn, menuShown>>
widgetVars == <<wt, drawn, ctl, shown, mn, menuShown, happened>>

NoWidget == 0
Event == happened < MaxControlEvents /\ happened' = happened + 1

---------------------------------------------------------------------------
(* widget.c *)

RECURSIVE Ancestors(_, _)
Ancestors(t, w) == IF w = NoWidget THEN {} ELSE {w} \union Ancestors(t, t.parent[w])

widget_set_dirty(t, w) == [t EXCEPT !.dirty = @ \union Ancestors(t, w)]

\* Neither of these two marks anything dirty (fresh is a history: the widgets that
\* came into the tree and have not been drawn since).
\* A widget that hangs somewhere is not added again: the caller's part.
widget_add_child(p, c) ==
    /\ wt.parent[c] = NoWidget /\ c # Root /\ c \notin Ancestors(wt, p)
    /\ Len(wt.children[p]) < WIDGET_MAX_CHILDREN
    /\ wt' = [wt EXCEPT !.parent[c] = p, !.children[p] = Append(@, c),
                        !.fresh = @ \union {w \in WidgetIds : c \in Ancestors(wt, w)}]

widget_remove_child(p, c) ==
    /\ Contains(wt.children[p], c)
    /\ wt' = [wt EXCEPT !.parent[c] = NoWidget, !.children[p] = SelectSeq(@, LAMBDA k : k # c)]

\* widget_set_size, _enabled and _focused do the same to another field.
widget_set_pos(w, x) == wt' = widget_set_dirty([wt EXCEPT !.at[w] = x], w)
widget_set_visible(w, visible) ==
    wt' = widget_set_dirty([wt EXCEPT !.hidden = IF visible THEN @ \ {w} ELSE @ \union {w}], w)

\* widget_draw and widget_draw_children, in the order of drawing.
RECURSIVE DrawOrder(_, _)
DrawOrder(t, w) ==
    IF w \in t.hidden THEN << >>
    ELSE <<w>> \o FlattenSeq([i \in DOMAIN t.children[w] |-> DrawOrder(t, t.children[w][i])])

widget_draw ==
    LET on == Range(DrawOrder(wt, Root)) IN
    /\ wt' = [wt EXCEPT !.dirty = @ \ on, !.fresh = @ \ on]
    /\ drawn' = [w \in WidgetIds |-> IF w \in on THEN wt.at[w] ELSE drawn[w]]
    /\ UNCHANGED happened

widget_hit(t, w, x) == w \notin t.hidden /\ x >= t.at[w] /\ x < t.at[w] + WidgetW

\* Mutant of widget_find_at: the children are asked in the order of drawing.
RECURSIVE widget_find_at_first(_, _, _)
widget_find_at_first(t, w, x) ==
    IF w \in t.hidden THEN NoWidget
    ELSE LET hits == SelectSeq([i \in DOMAIN t.children[w] |-> widget_find_at_first(t, t.children[w][i], x)],
                               LAMBDA h : h # NoWidget)
         IN  IF hits # << >> THEN hits[1] ELSE IF widget_hit(t, w, x) THEN w ELSE NoWidget

RECURSIVE widget_find_at(_, _, _)
widget_find_at(t, w, x) ==
    IF w \in t.hidden THEN NoWidget
    ELSE LET hits == SelectSeq([i \in DOMAIN t.children[w] |-> widget_find_at(t, t.children[w][i], x)],
                               LAMBDA h : h # NoWidget)
         IN  IF hits # << >> THEN Last(hits) ELSE IF widget_hit(t, w, x) THEN w ELSE NoWidget

TreeInit ==
    /\ wt = [children |-> [w \in WidgetIds |-> << >>], parent |-> [w \in WidgetIds |-> NoWidget], hidden |-> {},
             dirty |-> WidgetIds, at |-> [w \in WidgetIds |-> Min(WidgetPos)], fresh |-> {}]
    /\ drawn = [w \in WidgetIds |-> Min(WidgetPos)]

TreeNext ==
    \/ widget_draw
    \/ /\ Event /\ UNCHANGED drawn
       /\ \E w \in WidgetIds : \/ \E c \in WidgetIds : widget_add_child(w, c) \/ widget_remove_child(w, c)
                               \/ \E x \in WidgetPos : widget_set_pos(w, x)
                               \/ \E visible \in BOOLEAN : widget_set_visible(w, visible)

\* The tree is consistent; a widget on the screen that is not where it was drawn is
\* dirty, and so is all that it hangs in, up to the root, so that whoever redraws a
\* dirty root misses nothing (a child that has come since it was last drawn is the
\* exception); and a click goes to the widget drawn last under the mouse.
TreeSound ==
    LET order == DrawOrder(wt, Root) IN
    /\ \A p, c \in WidgetIds : (wt.parent[c] = p) <=> Contains(wt.children[p], c)
    /\ \A w \in Range(order) : /\ w \notin wt.dirty => drawn[w] = wt.at[w]
                               /\ w \in wt.dirty \ wt.fresh => Ancestors(wt, w) \subseteq wt.dirty
    /\ \A x \in WidgetPos : LET hits == SelectSeq(order, LAMBDA w : widget_hit(wt, w, x))
                            IN  widget_find_at(wt, Root, x) = IF hits = << >> THEN NoWidget ELSE Last(hits)

---------------------------------------------------------------------------
(* button.c, checkbox.c, slider.c, progressbar.c: pressed is also the       *)
(* slider's dragging, and on is toggled and checked.                       *)

Dirty(c) == [c EXCEPT !.dirty = TRUE]
Clamp(v, lo, hi) == IF v < lo THEN lo ELSE IF v > hi THEN hi ELSE v

val_to_pos(c) == IF c.max <= c.min THEN 0 ELSE CDiv((c.value - c.min) * (TrackLen - THUMB_D), c.max - c.min)

pos_to_val(c, pos) ==
    LET usable == TrackLen - THUMB_D
        v == c.min + CDiv(Clamp(pos, 0, usable) * (c.max - c.min), usable)
        onStep == CDiv(v - c.min + c.step \div 2, c.step) * c.step + c.min
    IN  IF usable <= 0 THEN c.min ELSE Clamp(IF c.step > 1 THEN onStep ELSE v, c.min, c.max)

slider_set_value(c, v) == Dirty([c EXCEPT !.value = Clamp(v, c.min, c.max)])
\* Mutant of slider_set_range: the value is left.
slider_set_range_keeps(c, r) == IF r[1] >= r[2] THEN c ELSE Dirty([c EXCEPT !.min = r[1], !.max = r[2]])
slider_set_range(c, r) ==
    IF r[1] >= r[2] THEN c ELSE Dirty([c EXCEPT !.min = r[1], !.max = r[2], !.value = Clamp(@, r[1], r[2])])

\* A maximum below the value is taken as it is (lowered is a history of that).
progressbar_set_max(c, max) ==
    IF max <= 0 THEN c ELSE Dirty([c EXCEPT !.max = max, !.lowered = (c.value > max)])
progressbar_set_value(c, v) == Dirty([c EXCEPT !.value = Clamp(v, 0, c.max), !.lowered = FALSE])
FillWidth(c) == CDiv(c.value * TrackLen, c.max)

Activated(c) == [c EXCEPT !.on = IF c.kind = "radio" THEN TRUE ELSE ~@, !.clicks = @ + 1]

\* Mutant of button_on_event: leaving the button does not release it.
button_on_event_sticks(c, ev, pos) ==
    CASE ev = "enter" -> Dirty([c EXCEPT !.hovered = TRUE])
      [] ev = "leave" -> Dirty([c EXCEPT !.hovered = FALSE])
      [] ev = "down" /\ ~c.disabled -> Dirty([c EXCEPT !.pressed = TRUE])
      [] OTHER -> c

button_on_event(c, ev, pos) ==
    CASE ev = "enter" -> Dirty([c EXCEPT !.hovered = TRUE])
      [] ev = "leave" -> Dirty([c EXCEPT !.hovered = FALSE, !.pressed = FALSE])
      [] ev = "down" /\ ~c.disabled -> Dirty([c EXCEPT !.pressed = TRUE])
      [] ev = "up" -> Dirty([(IF c.pressed /\ ~c.disabled THEN Activated(c) ELSE c) EXCEPT !.pressed = FALSE])
      [] ev = "key" /\ ~c.disabled -> Dirty(Activated(c))
      [] OTHER -> c

\* A release is not seen while the box is disabled; a key toggles a radio button off.
checkbox_on_event(c, ev, pos) ==
    CASE ev = "enter" -> Dirty([c EXCEPT !.hovered = TRUE])
      [] ev = "leave" -> Dirty([c EXCEPT !.hovered = FALSE, !.pressed = FALSE])
      [] ev = "down" /\ ~c.disabled -> Dirty([c EXCEPT !.pressed = TRUE])
      [] ev = "up" /\ c.pressed /\ ~c.disabled -> Dirty([Activated(c) EXCEPT !.pressed = FALSE])
      [] ev = "key" /\ ~c.disabled -> Dirty([c EXCEPT !.on = ~@, !.clicks = @ + 1])
      [] OTHER -> c

slider_on_event(c, ev, pos) ==
    CASE c.disabled -> c
      [] ~c.disabled /\ ev = "enter" -> Dirty([c EXCEPT !.hovered = TRUE])
      [] ~c.disabled /\ ev = "leave" -> Dirty([c EXCEPT !.hovered = FALSE, !.pressed = FALSE])
      [] ~c.disabled /\ ev = "down" -> slider_set_value([c EXCEPT !.pressed = TRUE], pos_to_val(c, pos))
      [] ~c.disabled /\ ev = "up" -> Dirty([c EXCEPT !.pressed = FALSE])
      [] ~c.disabled /\ ev = "move" -> IF c.pressed THEN slider_set_value(c, pos_to_val(c, pos)) ELSE c
      [] ~c.disabled /\ ev = "key" -> slider_set_value(c, c.value + c.step)
      [] ~c.disabled /\ ev = "scroll" -> slider_set_value(c, c.value - c.step)

OnEvent(c, ev, pos) ==
    CASE c.kind = "button" -> button_on_event(c, ev, pos)
      [] c.kind \in {"checkbox", "radio"} -> checkbox_on_event(c, ev, pos)
      [] c.kind = "slider" -> slider_on_event(c, ev, pos)
      [] c.kind = "progress" -> c

\* Enter and leave alternate, and so do down and up; a button held down outside and
\* released inside gives an up without its down.  held and missed are histories:
\* the control has been pressed and not released or left, and whether it was
\* disabled when the release or the leaving came.
ControlEvent(ev, pos) ==
    /\ ev = "leave" => ctl.inside
    /\ ev = "enter" => ~ctl.inside
    /\ ev \in {"down", "up", "move"} => ctl.inside
    /\ ctl' = [OnEvent(ctl, ev, pos) EXCEPT
                    !.inside = IF ev \in {"enter", "leave"} THEN ev = "enter" ELSE @,
                    !.held = IF ev = "down" THEN TRUE ELSE IF ev \in {"up", "leave"} THEN FALSE ELSE @,
                    !.missed = IF ev \in {"up", "leave"} THEN ctl.disabled ELSE @]

ControlCall ==
    \/ \E disabled \in BOOLEAN : ctl' = Dirty([ctl EXCEPT !.disabled = disabled])
    \/ ctl.kind = "slider" /\ \E r \in Ranges : ctl' = slider_set_range(ctl, r)
    \/ ctl.kind = "slider" /\ \E s \in Steps : ctl' = [ctl EXCEPT !.step = s]
    \/ ctl.kind = "progress" /\ \E r \in Ranges : ctl' = progressbar_set_max(ctl, r[2]) \/ ctl' = progressbar_set_value(ctl, r[2])

Look(c) == <<c.disabled, c.pressed, c.hovered, c.on, c.value, c.min, c.max>>
ControlDraw == /\ ctl' = [ctl EXCEPT !.dirty = FALSE]
               /\ shown' = Look(ctl) /\ UNCHANGED happened

ControlInit ==
    \E k \in ControlKinds, r \in Ranges :
        /\ ctl = [kind |-> k, hovered |-> FALSE, pressed |-> FALSE, on |-> FALSE, disabled |-> FALSE, value |-> r[1],
                  min |-> r[1], max |-> r[2], step |-> 1, dirty |-> TRUE, clicks |-> 0, inside |-> FALSE, held |-> FALSE,
                  missed |-> FALSE, lowered |-> FALSE]
        /\ r[1] < r[2] /\ (k # "slider" => r[1] = 0)
        /\ shown = << >>

ControlNext ==
    \/ ControlDraw
    \/ /\ Event /\ UNCHANGED shown
       /\ ControlCall \/ \E ev \in {"enter", "leave", "down", "up", "move", "key", "scroll"}, pos \in MouseAt : ControlEvent(ev, pos)

\* A control that is not dirty looks the way it was drawn; one that is pressed is
\* held (a check box or slider may have been disabled when the release came, and
\* stays pressed); a value is in its range, the thumb on its track and the bar in
\* its frame, unless the maximum went below the value; and further along the track
\* is never a smaller value.
ControlsSound ==
    /\ ~ctl.dirty => shown = Look(ctl)
    /\ ctl.pressed => ctl.held \/ (ctl.missed /\ ctl.kind # "button")
    /\ ~ctl.lowered => ctl.value \in ctl.min .. ctl.max
    /\ ctl.kind = "slider" =>
        /\ val_to_pos(ctl) \in 0 .. TrackLen - THUMB_D
        /\ \A p, q \in MouseAt : p <= q => pos_to_val(ctl, p) <= pos_to_val(ctl, q)
    /\ ctl.kind = "progress" /\ ~ctl.lowered => FillWidth(ctl) \in 0 .. TrackLen

---------------------------------------------------------------------------
(* menu.c: items are counted from 0, -1 is none; subs has a submenu's state *)

Item(i) == MenuItems[i + 1]
ItemCount == Len(MenuItems)
ItemHeight(i) == IF Item(i) = "separator" THEN SEPARATOR_H ELSE MENU_ITEM_H
\* Where menu_draw draws item i (the menu is at 0), and the height of it all.
RowTop(i) == MENU_PAD + FoldLeft(LAMBDA h, j : h + ItemHeight(j - 1), 0, [j \in 1 .. i |-> j])
menu_height == RowTop(ItemCount) + MENU_PAD

item_at_y(y) ==
    FoldLeft(LAMBDA a, j : IF a.item # -2 THEN a
                           ELSE IF y >= a.iy /\ y < a.iy + ItemHeight(j - 1)
                                THEN [a EXCEPT !.item = IF Item(j - 1) = "separator" THEN -1 ELSE j - 1]
                           ELSE [a EXCEPT !.iy = @ + ItemHeight(j - 1)],
             [iy |-> MENU_PAD, item |-> -2], [j \in 1 .. ItemCount |-> j]).item

Submenus == {i \in 0 .. ItemCount - 1 : Item(i) = "submenu"}

\* A menu that is shown again keeps its open submenu.
menu_show(m) == [m EXCEPT !.visible = TRUE, !.hovered = -1, !.dirty = TRUE]

\* Mutant of menu_hide: the submenu stays.
menu_hide_keeps(m) == [m EXCEPT !.visible = FALSE, !.hovered = -1, !.dirty = TRUE, !.open = -1]

\* The submenu's own dirty flag does not reach the menu.
menu_hide(m) ==
    [m EXCEPT !.visible = FALSE, !.hovered = -1, !.dirty = TRUE, !.open = -1,
              !.subs = IF m.open >= 0 THEN @ \ {m.open} ELSE @]

menu_mouse_move(m, y) ==
    LET now == Max({-1, item_at_y(y)})
        closes == m.open >= 0 /\ now # m.open
        closed == IF closes THEN [m EXCEPT !.subs = @ \ {m.open}, !.open = -1] ELSE m
        opened == IF now \in Submenus THEN [closed EXCEPT !.subs = @ \union {now}, !.open = now] ELSE closed
    IN  IF now = m.hovered THEN m ELSE [opened EXCEPT !.hovered = now, !.dirty = TRUE]

\* A click on a submenu's item, and on one without an action, does nothing.
menu_mouse_down(m, y) ==
    LET i == Max({-1, item_at_y(y)}) IN
    IF y \notin 0 .. menu_height - 1 THEN menu_hide(m)
    ELSE IF i >= 0 /\ Item(i) = "normal" THEN menu_hide([m EXCEPT !.did = i])
    ELSE IF i >= 0 /\ Item(i) = "check" THEN menu_hide([m EXCEPT !.checked = IF i \in @ THEN @ \ {i} ELSE @ \union {i}, !.did = i])
    ELSE [m EXCEPT !.dirty = TRUE]

\* Up and down pass over separators, but stop at the first and the last item.
NextUp(i) == Max({0} \union {j \in 1 .. i - 1 : Item(j) # "separator"})
NextDown(i) == Min({ItemCount - 1} \union {j \in i + 1 .. ItemCount - 2 : Item(j) # "separator"})
menu_key(m, key) ==
    CASE key = "up" -> IF m.hovered > 0 THEN [m EXCEPT !.hovered = NextUp(@), !.dirty = TRUE] ELSE m
      [] key = "down" -> IF m.hovered < ItemCount - 1 THEN [m EXCEPT !.hovered = NextDown(@), !.dirty = TRUE] ELSE m
      [] key = "enter" -> menu_hide(IF m.hovered >= 0 /\ Item(m.hovered) = "normal" THEN [m EXCEPT !.did = m.hovered] ELSE m)
      [] key = "escape" -> menu_hide(m)

\* A click outside a submenu that is asked hides it; the menu is not told.
SubmenuEvent == \E i \in mn.subs : mn' = [mn EXCEPT !.subs = @ \ {i}]

MenuEvent ==
    \/ mn' = menu_show(mn)
    \/ /\ mn.visible
       /\ \E y \in -1 .. menu_height : mn' = menu_mouse_move(mn, y) \/ mn' = menu_mouse_down(mn, y)
    \/ mn.visible /\ \E key \in {"up", "down", "enter", "escape"} : mn' = menu_key(mn, key)
    \/ SubmenuEvent

\* A menu that is hidden stays dirty.
menu_draw ==
    /\ mn.visible
    /\ mn' = [mn EXCEPT !.dirty = FALSE]
    /\ menuShown' = <<mn.hovered, mn.checked>> /\ UNCHANGED happened

MenuInit ==
    /\ mn = [visible |-> FALSE, hovered |-> -1, open |-> -1, dirty |-> TRUE, subs |-> {}, checked |-> {}, did |-> -1]
    /\ menuShown = << >>
MenuNext == menu_draw \/ (Event /\ MenuEvent /\ UNCHANGED menuShown)

\* No submenu is open but the one the menu takes for open, and none without its
\* menu; a separator is hovered only as the first or the last item; what a click
\* chooses is the item drawn there; and a menu that is not dirty looks as drawn.
MenuSound ==
    /\ mn.subs \subseteq {mn.open} /\ (mn.subs # {} => mn.visible)
    /\ mn.hovered \in -1 .. ItemCount - 1
    /\ mn.hovered \in 1 .. ItemCount - 2 => Item(mn.hovered) # "separator"
    /\ \A i \in 0 .. ItemCount - 1 : Item(i) # "separator" =>
            \A y \in RowTop(i) .. RowTop(i) + MENU_ITEM_H - 1 : item_at_y(y) = i
    /\ ~mn.dirty => menuShown = <<mn.hovered, mn.checked>>
===============================================================================
