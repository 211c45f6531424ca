-------------------------------- MODULE Vt100 --------------------------------
(***************************************************************************)
(* The terminal emulator (apps/terminal/vt100.c, and the selection of      *)
(* main.c): the parser of control sequences, the screen, and the ring of   *)
(* lines that scrolled away.                                               *)
(*                                                                         *)
(* Rows and columns count from 0.  A byte is named: "a", "A", "[" stand    *)
(* for themselves, "ESC", "BEL", "ST" (0x9C) for control bytes, "x80" and  *)
(* "xE1" for bytes past ASCII, "!" for the intermediates 0x20 to 0x2F.     *)
(* Tab stops are TabStop apart.                                            *)
(*                                                                         *)
(* "?" ends a sequence (it is neither parameter, intermediate nor final),  *)
(* so interm[0] is never "?": the private modes of 'h' and 'l', with them  *)
(* the second screen, are never reached and are not here.  A parameter     *)
(* of ten digits would overflow an int; behaviours stop at MaxParam.       *)
(***************************************************************************)
EXTENDS Integers, Sequences, SequencesExt, FiniteSetsExt

CONSTANTS
    TermCols, TermRows,  \* COLS and ROWS of main.c
    NewSizes,       \* <<cols, rows>> to resize to
    ScrollbackCap,  \* SCROLLBACK
    TabStop,        \* 8
    MaxParams,      \* MAX_PARAMS
    MaxInterm,      \* MAX_INTERM
    MaxOsc,         \* MAX_OSC_LEN
    MaxParam,       \* bound on a parameter
    Chunks,         \* what one read from the shell may return
    MaxFeeds        \* bound on the reads of a behaviour

ASSUME TerminalConstants ==
    /\ TermCols \in Nat \ {0} /\ TermRows \in Nat \ {0} /\ ScrollbackCap \in Nat
    /\ TabStop \in Nat \ {0} /\ MaxParams \in Nat \ {0} /\ MaxInterm \in Nat /\ MaxOsc \in Nat \ {0}

VARIABLES
    vt,       \* the Vt100 structure
    sel,      \* the selection: [active, dragging, from, to], corners as <<row, col>>
    feeds,    \* how many reads there were
    plain     \* history: the bytes so far, and whether all were printable

terminalVars == <<vt, sel, feeds, plain>>

DefaultPen == [fg |-> -1, bg |-> -1, attrs |-> {}]
cell_blank == [ch |-> "sp", pen |-> DefaultPen]

-----------------------------------------------------------------------------
\* The screen and the ring.

Blank(v) == [ch |-> "sp", pen |-> [v.pen EXCEPT !.attrs = {}]]

screen_clear_line(v, row, from, to) ==
    [v EXCEPT !.screen = [r \in DOMAIN @ |-> [c \in DOMAIN @[r] |->
                             IF r = row /\ c \in from .. to THEN Blank(v) ELSE @[r][c]]]]

screen_clear_rows(v, from, to) ==
    [v EXCEPT !.screen = [r \in DOMAIN @ |-> [c \in DOMAIN @[r] |->
                             IF r \in from .. to THEN Blank(v) ELSE @[r][c]]]]

\* A mistake: the head does not move when the oldest line is dropped.
sb_push_line_keeps_head(v, row) ==
    IF ScrollbackCap = 0 THEN v
    ELSE [v EXCEPT !.sb[(v.sb_head + v.sb_count) % ScrollbackCap] = v.screen[row],
                   !.sb_count = Min({@ + 1, ScrollbackCap}),
                   !.pushed = Append(@, v.screen[row])]

\* The slot is computed before the oldest line is dropped: in a full ring it is
\* that line's.  Without memory for the new line the oldest is dropped all the same.
sb_push_line(v, row) ==
    LET full == v.sb_count = ScrollbackCap
        idx == (v.sb_head + v.sb_count) % ScrollbackCap
        w == [v EXCEPT !.sb_head = IF full THEN (@ + 1) % ScrollbackCap ELSE @,
                       !.sb_count = IF full THEN @ - 1 ELSE @]
    IN  IF ScrollbackCap = 0 THEN v
        ELSE IF ~v.memory THEN [w EXCEPT !.sb[idx] = << >>, !.lost = TRUE]
        ELSE [w EXCEPT !.sb[idx] = v.screen[row], !.sb_count = @ + 1,
                       !.pushed = Append(@, v.screen[row])]

vt100_scrollback_line(v, index) ==
    v.sb[(v.sb_head + v.sb_count - 1 - index) % ScrollbackCap]

\* The top line is pushed n times, and the last n rows are cleared even where they
\* begin above top.
scroll_up(v, top, bot, n) ==
    LET kept == FoldLeft(LAMBDA w, i : sb_push_line(w, top), v, [i \in 1 .. n |-> i])
        moved == [kept EXCEPT !.screen = [r \in DOMAIN @ |->
                                             IF r \in top .. bot - n THEN @[r + n] ELSE @[r]]]
    IN  screen_clear_rows(moved, bot - n + 1, bot)

\* A mistake: the rows below the region move as well.
scroll_down_all(v, top, bot, n) ==
    screen_clear_rows([v EXCEPT !.screen = [r \in DOMAIN @ |-> IF r >= top + n THEN @[r - n] ELSE @[r]]],
                      top, top + n - 1)

scroll_down(v, top, bot, n) ==
    LET moved == [v EXCEPT !.screen = [r \in DOMAIN @ |->
                                          IF r \in top + n .. bot THEN @[r - n] ELSE @[r]]]
    IN  screen_clear_rows(moved, top, top + n - 1)

-----------------------------------------------------------------------------
\* The cursor.

Within(n, limit) == IF n < 0 THEN 0 ELSE IF n >= limit THEN limit - 1 ELSE n

cursor_clamp(v) == [v EXCEPT !.cursor_col = Within(@, v.cols), !.cursor_row = Within(@, v.rows)]

cursor_move(v, col, row) ==
    cursor_clamp([v EXCEPT !.cursor_col = col, !.cursor_row = row, !.pending_wrap = FALSE])

\* A mistake: the last row does not scroll.
cursor_next_line_stays(v) == cursor_clamp([v EXCEPT !.cursor_row = @ + 1])

cursor_next_line(v) ==
    IF v.cursor_row = v.scroll_bot THEN scroll_up(v, v.scroll_top, v.scroll_bot, 1)
    ELSE cursor_clamp([v EXCEPT !.cursor_row = @ + 1])

\* mode_auto_wrap stays on.
put_char(v, ch) ==
    LET w == IF v.pending_wrap
             THEN cursor_next_line([v EXCEPT !.cursor_col = 0, !.pending_wrap = FALSE]) ELSE v
        row == w.screen[w.cursor_row]
        shifted == IF w.mode_insert
                   THEN [c \in DOMAIN row |-> IF c > w.cursor_col THEN row[c - 1] ELSE row[c]]
                   ELSE row
        last == w.cursor_col >= w.cols - 1
    IN  [w EXCEPT !.screen[w.cursor_row] = [shifted EXCEPT ![w.cursor_col] = [ch |-> ch, pen |-> w.pen]],
                  !.pending_wrap = @ \/ last,
                  !.cursor_col = IF last THEN @ ELSE @ + 1]

-----------------------------------------------------------------------------
\* apply_sgr.  An extended colour takes the parameters behind it.

Cube(r, g, b) == 16 + 36 * (r \div 43) + 6 * (g \div 43) + (b \div 43)

Pen(pen, p) ==
    CASE p = 0 -> DefaultPen
      [] p \in 1 .. 9 \ {6} -> [pen EXCEPT !.attrs = @ \cup {p}]
      [] p = 22 -> [pen EXCEPT !.attrs = @ \ {1, 2}]
      [] p \in 23 .. 29 \ {26} -> [pen EXCEPT !.attrs = @ \ {p - 20}]
      [] p = 39 -> [pen EXCEPT !.fg = -1]
      [] p = 49 -> [pen EXCEPT !.bg = -1]
      [] p \in 30 .. 37 -> [pen EXCEPT !.fg = p - 30]
      [] p \in 40 .. 47 -> [pen EXCEPT !.bg = p - 40]
      [] p \in 90 .. 97 -> [pen EXCEPT !.fg = p - 82]
      [] p \in 100 .. 107 -> [pen EXCEPT !.bg = p - 92]
      [] OTHER -> pen

Painted(pen, p, colour) == IF p = 38 THEN [pen EXCEPT !.fg = colour] ELSE [pen EXCEPT !.bg = colour]

apply_sgr(v, params) ==
    LET Step(s, i) ==
            LET p == params[i]
                behind == IF p \in {38, 48} THEN Len(params) - i ELSE 0
            IN  CASE s.skip > 0 -> [s EXCEPT !.skip = @ - 1]
                  [] s.skip = 0 /\ behind >= 2 /\ params[i + 1] = 5 ->
                        [pen |-> Painted(s.pen, p, params[i + 2]), skip |-> 2]
                  [] s.skip = 0 /\ behind >= 4 /\ params[i + 1] = 2 ->
                        [pen |-> Painted(s.pen, p, Cube(params[i + 2], params[i + 3], params[i + 4])),
                         skip |-> 4]
                  [] OTHER -> [s EXCEPT !.pen = Pen(@, p)]
        done == FoldLeft(Step, [pen |-> v.pen, skip |-> 0], [i \in DOMAIN params |-> i])
    IN  [v EXCEPT !.pen = IF params = << >> THEN DefaultPen ELSE done.pen]

-----------------------------------------------------------------------------
\* Control sequences.

param(v, i, default) ==
    IF i > Len(v.params) THEN default ELSE IF v.params[i] = 0 THEN default ELSE v.params[i]

EraseDisplay(v, how) ==
    CASE how = 0 -> screen_clear_rows(screen_clear_line(v, v.cursor_row, v.cursor_col, v.cols - 1),
                                      v.cursor_row + 1, v.rows - 1)
      [] how = 1 -> screen_clear_rows(screen_clear_line(v, v.cursor_row, 0, v.cursor_col),
                                      0, v.cursor_row - 1)
      [] how = 2 -> screen_clear_rows(v, 0, v.rows - 1)
      [] how = 3 -> [screen_clear_rows(v, 0, v.rows - 1) EXCEPT !.sb_count = 0, !.sb_head = 0,
                                                               !.pushed = << >>]
      [] OTHER -> v

EraseLine(v, how) ==
    CASE how = 0 -> screen_clear_line(v, v.cursor_row, v.cursor_col, v.cols - 1)
      [] how = 1 -> screen_clear_line(v, v.cursor_row, 0, v.cursor_col)
      [] how = 2 -> screen_clear_line(v, v.cursor_row, 0, v.cols - 1)
      [] OTHER -> v

DeleteChars(v, p) ==
    LET n == Min({p, v.cols - v.cursor_col})
        moved == [v EXCEPT !.screen[v.cursor_row] = [c \in DOMAIN @ |->
                     IF c \in v.cursor_col .. v.cols - n - 1 THEN @[c + n] ELSE @[c]]]
    IN  screen_clear_line(moved, v.cursor_row, v.cols - n, v.cols - 1)

InsertChars(v, p) ==
    LET n == Min({p, v.cols - v.cursor_col})
        moved == [v EXCEPT !.screen[v.cursor_row] = [c \in DOMAIN @ |->
                     IF c \in v.cursor_col + n .. v.cols - 1 THEN @[c - n] ELSE @[c]]]
    IN  screen_clear_line(moved, v.cursor_row, v.cursor_col, v.cursor_col + n - 1)

ScrollRegion(v) ==
    LET top == param(v, 1, 1) - 1
        bot == Min({param(v, 2, v.rows), v.rows}) - 1
    IN  cursor_move([v EXCEPT !.scroll_top = IF top > bot THEN 0 ELSE top,
                              !.scroll_bot = IF top > bot THEN v.rows - 1 ELSE bot], 0, 0)

Saved(v) == [v EXCEPT !.saved_col = v.cursor_col, !.saved_row = v.cursor_row]

dispatch_csi(v, final) ==
    LET p1 == param(v, 1, 1)
        p2 == param(v, 2, 1)
        col == v.cursor_col
        row == v.cursor_row
        modes == ToSet(v.params)
    IN  CASE final = "A" -> cursor_move(v, col, row - p1)
          [] final = "B" -> cursor_move(v, col, row + p1)
          [] final = "C" -> cursor_move(v, col + p1, row)
          [] final = "D" -> cursor_move(v, col - p1, row)
          [] final = "E" -> cursor_move(v, 0, row + p1)
          [] final = "F" -> cursor_move(v, 0, row - p1)
          [] final = "G" -> cursor_move(v, p1 - 1, row)
          [] final \in {"H", "f"} -> cursor_move(v, p2 - 1, p1 - 1)
          [] final = "I" -> cursor_clamp([v EXCEPT !.cursor_col = (col \div TabStop + p1) * TabStop])
          [] final = "J" -> EraseDisplay(v, param(v, 1, 0))
          [] final = "K" -> EraseLine(v, param(v, 1, 0))
          [] final = "L" -> scroll_down(v, row, v.scroll_bot, p1)
          [] final = "M" -> scroll_up(v, row, v.scroll_bot, p1)
          [] final = "P" -> DeleteChars(v, p1)
          [] final = "@" -> InsertChars(v, p1)
          [] final = "S" -> scroll_up(v, v.scroll_top, v.scroll_bot, p1)
          [] final = "T" -> scroll_down(v, v.scroll_top, v.scroll_bot, p1)
          [] final = "X" -> screen_clear_line(v, row, col, col + p1 - 1)
          [] final = "Z" -> [v EXCEPT !.cursor_col = (Max({0, col - 1}) \div TabStop) * TabStop]
          [] final = "d" -> cursor_move(v, col, p1 - 1)
          [] final = "m" -> apply_sgr(v, v.params)
          [] final = "r" -> ScrollRegion(v)
          [] final = "h" -> [v EXCEPT !.mode_insert = @ \/ 4 \in modes]
          [] final = "l" -> [v EXCEPT !.mode_insert = @ /\ 4 \notin modes]
          [] final = "s" -> Saved(v)
          [] final = "u" -> cursor_move(v, v.saved_col, v.saved_row)
          [] OTHER -> v

dispatch_esc(v, final) ==
    CASE final = "D" -> cursor_next_line(v)
      [] final = "E" -> cursor_next_line([v EXCEPT !.cursor_col = 0])
      [] final = "M" -> IF v.cursor_row = v.scroll_top
                        THEN scroll_down(v, v.scroll_top, v.scroll_bot, 1)
                        ELSE cursor_clamp([v EXCEPT !.cursor_row = @ - 1])
      [] final = "7" -> Saved(v)
      [] final = "8" -> cursor_move(v, v.saved_col, v.saved_row)
      [] final = "c" -> [cursor_move(screen_clear_rows(v, 0, v.rows - 1), 0, 0)
                            EXCEPT !.pen = DefaultPen, !.scroll_top = 0, !.scroll_bot = v.rows - 1]
      [] OTHER -> v

-----------------------------------------------------------------------------
\* The parser.

Controls == {"BEL", "BS", "HT", "LF", "CR", "ESC"}     \* below 0x20
Intermediates == {"!"}
DigitOf == [d \in {"0", "1", "2", "3", "4", "5", "7", "8"} |->
              CASE d = "0" -> 0 [] d = "1" -> 1 [] d = "2" -> 2 [] d = "3" -> 3
                [] d = "4" -> 4 [] d = "5" -> 5 [] d = "7" -> 7 [] d = "8" -> 8]
Digits == DOMAIN DigitOf
Separators == {";", ":"}
NoFinal == Controls \cup Intermediates \cup {"ST"}     \* outside 0x30 .. 0x7E

parser_reset(v) == [v EXCEPT !.params = << >>, !.interm_count = 0]

\* A mistake: a digit replaces those before it.
param_push_digit_replaces(v, d) ==
    LET w == IF v.params = << >> THEN [v EXCEPT !.params = <<0>>] ELSE v
    IN  [w EXCEPT !.params[Len(w.params)] = DigitOf[d]]

param_push_digit(v, d) ==
    LET w == IF v.params = << >> THEN [v EXCEPT !.params = <<0>>] ELSE v
    IN  [w EXCEPT !.params[Len(w.params)] = @ * 10 + DigitOf[d]]

\* A separator in front of the first digit makes the first parameter, not a second.
param_next(v) == IF Len(v.params) < MaxParams THEN [v EXCEPT !.params = Append(@, 0)] ELSE v

Intermediate(v) == IF v.interm_count < MaxInterm THEN [v EXCEPT !.interm_count = @ + 1] ELSE v

\* The history since counts the bytes of a sequence from its introducer on.
Enter(v, to) == [v EXCEPT !.parse_state = to, !.since = << >>]

Ground(v, c) ==
    CASE c = "BS" -> [v EXCEPT !.cursor_col = Max({0, @ - 1}), !.pending_wrap = FALSE]
      [] c = "HT" -> [v EXCEPT !.cursor_col = Min({(@ \div TabStop + 1) * TabStop, v.cols - 1}),
                               !.pending_wrap = FALSE]
      [] c = "LF" -> cursor_next_line(v)
      [] c = "CR" -> [v EXCEPT !.cursor_col = 0, !.pending_wrap = FALSE]
      [] c = "ESC" -> Enter(parser_reset(v), "ESCAPE")
      [] c = "BEL" -> v
      [] OTHER -> put_char(v, c)

Escape(v, c) ==
    CASE c = "[" -> Enter(parser_reset(v), "CSI")
      [] c \in {"]", "P", "X", "^", "_"} -> Enter([v EXCEPT !.osc = << >>], "OSC")
      [] c \in Intermediates -> Intermediate(v)
      [] c \in NoFinal \ Intermediates -> Enter(v, "GROUND")
      [] OTHER -> Enter(dispatch_esc(v, c), "GROUND")

Csi(v, c) ==
    CASE c \in Digits -> param_push_digit(v, c)
      [] c \in Separators -> param_next(v)
      [] c \in Intermediates -> Intermediate(v)
      [] c = "ESC" -> Enter(parser_reset(v), "ESCAPE")
      [] c \in (NoFinal \ (Intermediates \cup {"ESC"})) \cup {"?"} -> Enter(v, "GROUND")
      [] OTHER -> Enter(dispatch_csi(v, c), "GROUND")

\* Bytes past the buffer's end are dropped, an ESC among them.
Osc(v, c) ==
    LET escaped == v.osc # << >> /\ Last(v.osc) = "ESC"
    IN  IF c \in {"BEL", "ST"} \/ (c = "\\" /\ escaped)
        THEN Enter([v EXCEPT !.osc = IF escaped THEN Front(@) ELSE @], "GROUND")
        ELSE IF Len(v.osc) < MaxOsc - 1 THEN [v EXCEPT !.osc = Append(@, c)] ELSE v

\* One turn of the loop of vt100_feed.
Fed(v, c) ==
    LET w == [v EXCEPT !.since = Append(@, c)]
    IN  CASE v.parse_state = "GROUND" -> [Ground(v, c) EXCEPT !.since = << >>]
          [] v.parse_state = "ESCAPE" -> Escape(w, c)
          [] v.parse_state = "CSI" -> Csi(w, c)
          [] v.parse_state = "OSC" -> Osc(w, c)

-----------------------------------------------------------------------------
\* What the program does.

vt100_new ==
    [cols |-> TermCols, rows |-> TermRows,
     screen |-> [r \in 0 .. TermRows - 1 |-> [c \in 0 .. TermCols - 1 |-> cell_blank]],
     cursor_col |-> 0, cursor_row |-> 0, saved_col |-> 0, saved_row |-> 0,
     scroll_top |-> 0, scroll_bot |-> TermRows - 1, pen |-> DefaultPen,
     mode_insert |-> FALSE, pending_wrap |-> FALSE,
     parse_state |-> "GROUND", params |-> << >>, interm_count |-> 0, osc |-> << >>, since |-> << >>,
     sb |-> [i \in 0 .. ScrollbackCap - 1 |-> << >>], sb_head |-> 0, sb_count |-> 0, pushed |-> << >>,
     memory |-> TRUE, lost |-> FALSE]

TerminalInit ==
    /\ vt = vt100_new
    /\ sel = [active |-> FALSE, dragging |-> FALSE, from |-> <<0, 0>>, to |-> <<0, 0>>]
    /\ feeds = 0 /\ plain = [only |-> TRUE, text |-> << >>]

\* The timer's poll reads what the shell wrote and feeds it (pty_poll, on_pty_data,
\* vt100_feed).
on_pty_data(chunk) ==
    /\ feeds < MaxFeeds
    /\ vt' = FoldLeft(Fed, vt, chunk)
    /\ \A i \in DOMAIN vt'.params : vt'.params[i] <= MaxParam
    /\ feeds' = feeds + 1
    /\ plain' = [only |-> plain.only /\ ToSet(chunk) \cap Controls = {},
                 text |-> IF plain.only THEN plain.text \o chunk ELSE << >>]
    /\ UNCHANGED sel

\* The second screen is not in use.
Resized(v, cols, rows) ==
    [v EXCEPT !.cols = cols, !.rows = rows,
              !.screen = [r \in 0 .. rows - 1 |-> [c \in 0 .. cols - 1 |->
                             IF r < v.rows /\ c < v.cols THEN v.screen[r][c] ELSE cell_blank]],
              !.cursor_col = Min({@, cols - 1}), !.cursor_row = Min({@, rows - 1}),
              !.scroll_top = 0, !.scroll_bot = rows - 1]

vt100_resize(cols, rows) ==
    /\ feeds < MaxFeeds /\ feeds' = feeds + 1
    /\ vt' = Resized(vt, cols, rows)
    /\ plain' = [only |-> FALSE, text |-> << >>]
    /\ UNCHANGED sel

\* The rest of the program takes the heap's memory or gives it back.
memory_changes ==
    /\ feeds < MaxFeeds /\ feeds' = feeds + 1
    /\ vt' = [vt EXCEPT !.memory = ~@]
    /\ UNCHANGED <<sel, plain>>

\* The mouse; a place outside the text is moved to its border.
on_mouse_down(cell) ==
    /\ sel' = [active |-> TRUE, dragging |-> TRUE, from |-> cell, to |-> cell]
    /\ UNCHANGED <<vt, feeds, plain>>

on_mouse_move(cell) ==
    /\ sel.dragging
    /\ sel' = [sel EXCEPT !.to = cell]
    /\ UNCHANGED <<vt, feeds, plain>>

on_mouse_up ==
    /\ sel' = [sel EXCEPT !.dragging = FALSE]
    /\ UNCHANGED <<vt, feeds, plain>>

Before(p, q) == p[1] < q[1] \/ (p[1] = q[1] /\ p[2] < q[2])
First(s) == IF Before(s.to, s.from) THEN s.to ELSE s.from
Final(s) == IF Before(s.to, s.from) THEN s.from ELSE s.to

\* A mistake: the last cell is not part of the selection.
sel_contains_open(s, row, col) ==
    s.active /\ ~Before(<<row, col>>, First(s)) /\ Before(<<row, col>>, Final(s))

\* What is painted as selected.
sel_contains(s, row, col) ==
    /\ s.active
    /\ row >= First(s)[1] /\ row <= Final(s)[1]
    /\ ~(row = First(s)[1] /\ col < First(s)[2])
    /\ ~(row = Final(s)[1] /\ col > Final(s)[2])

\* A byte without its top bit; 0x9C becomes a control byte and 0x80 the one that
\* ends a C string.
Masked(ch) ==
    CASE ch = "x80" -> "NUL" [] ch = "xE1" -> "a" [] ch = "ST" -> "FS" [] OTHER -> ch

\* What a cell shows; one that is not there is a space (vt100_cell).
CharAt(v, row, col) == IF row < v.rows /\ col < v.cols THEN v.screen[row][col].ch ELSE "sp"

\* What is copied: row by row, with newlines between them.
sel_copy_text(v, s) ==
    LET Char(row, col) == Masked(CharAt(v, row, col))
        Row(row) ==
            LET from == IF row = First(s)[1] THEN First(s)[2] ELSE 0
                to == IF row = Final(s)[1] THEN Final(s)[2] ELSE TermCols - 1
            IN  [i \in 1 .. to - from + 1 |-> Char(row, from + i - 1)]
                   \o (IF row < Final(s)[1] THEN <<"nl">> ELSE << >>)
    IN  FlattenSeq([i \in 1 .. Final(s)[1] - First(s)[1] + 1 |-> Row(First(s)[1] + i - 1)])

Reads == \E chunk \in Chunks : on_pty_data(chunk)
Resizes == \E size \in NewSizes : vt100_resize(size[1], size[2])
Selects ==
    \/ \E cell \in (0 .. TermRows - 1) \X (0 .. TermCols - 1) : on_mouse_down(cell) \/ on_mouse_move(cell)
    \/ on_mouse_up

TerminalNext == Reads \/ Resizes \/ Selects \/ memory_changes

TerminalSpec == TerminalInit /\ [][TerminalNext]_terminalVars

-----------------------------------------------------------------------------
\* Whatever the shell writes, split into reads in whatever way, the cursor and the
\* scroll region stay on the screen, the parser's counters within its arrays, and
\* the ring returns the lines that scrolled away last, newest first, as many as it
\* holds unless memory ran out (cursor_clamp, sb_push_line, vt100_scrollback_line).
TerminalSound ==
    /\ vt.cursor_col \in 0 .. vt.cols - 1 /\ vt.cursor_row \in 0 .. vt.rows - 1
    /\ 0 <= vt.scroll_top /\ vt.scroll_top <= vt.scroll_bot /\ vt.scroll_bot < vt.rows
    /\ DOMAIN vt.screen = 0 .. vt.rows - 1
    /\ \A r \in DOMAIN vt.screen : DOMAIN vt.screen[r] = 0 .. vt.cols - 1
    /\ Len(vt.params) <= MaxParams /\ vt.interm_count <= MaxInterm /\ Len(vt.osc) < MaxOsc
    /\ vt.sb_count <= Min({Len(vt.pushed), ScrollbackCap})
    /\ vt.lost \/ vt.sb_count = Min({Len(vt.pushed), ScrollbackCap})
    /\ \A i \in 0 .. vt.sb_count - 1 : vt100_scrollback_line(vt, i) = vt.pushed[Len(vt.pushed) - i]

RowText(line) == [i \in 1 .. Cardinality(DOMAIN line) |-> line[i - 1].ch]

\* Text without control bytes is on the screen and in the lines above it character
\* by character, in order and without gaps: a full row wraps only when the next
\* character comes, and wrapping in the last row scrolls (put_char,
\* cursor_next_line).
TextWraps ==
    plain.only /\ ~vt.lost =>
        LET above == [i \in DOMAIN vt.pushed |-> RowText(vt.pushed[i])]
            shown == [i \in 1 .. vt.cursor_row |-> RowText(vt.screen[i - 1])]
            last == SubSeq(RowText(vt.screen[vt.cursor_row]), 1,
                           vt.cursor_col + (IF vt.pending_wrap THEN 1 ELSE 0))
        IN  FlattenSeq(above) \o FlattenSeq(shown) \o last = plain.text

ByLine == {<<"LF">>, <<"ESC", "D">>, <<"ESC", "M">>, <<"ESC", "[", "S">>, <<"ESC", "[", "T">>}
AtCursor == {<<"ESC", "[", "L">>, <<"ESC", "[", "M">>}

\* Scrolling by a line moves only the rows of the scroll region, wherever the
\* cursor is; so does inserting or deleting a line with the cursor in the region
\* (scroll_up, scroll_down).  The code makes two exceptions: counts larger than the
\* region, and lines inserted or deleted outside it.
RegionKept ==
    [][/\ DOMAIN vt'.screen = DOMAIN vt.screen
       /\ \E r \in DOMAIN vt.screen \ (vt.scroll_top .. vt.scroll_bot) : vt'.screen[r] # vt.screen[r]
       /\ vt.parse_state = "GROUND"
       => /\ ~ \E chunk \in ByLine : on_pty_data(chunk)
          /\ vt.cursor_row \in vt.scroll_top .. vt.scroll_bot => ~ \E chunk \in AtCursor : on_pty_data(chunk)]_terminalVars

\* The fields of a control sequence between separators, as numbers.
Number(field) == FoldLeft(LAMBDA n, d : 10 * n + DigitOf[d], 0, field)

FieldsOf(bytes) ==
    LET text == SelectSeq(bytes, LAMBDA c : c \notin Intermediates)
        cuts == SetToSortSeq({0, Len(text) + 1} \cup {i \in DOMAIN text : text[i] \in Separators},
                             LAMBDA m, n : m < n)
    IN  [k \in 1 .. Len(cuts) - 1 |-> SubSeq(text, cuts[k] + 1, cuts[k + 1] - 1)]

\* While a control sequence comes in, its parameters are the numbers between the
\* separators so far, if the first is not empty and there are not too many; and a
\* string that fits its buffer ends at its terminator, so that nothing behind it is
\* swallowed (param_push_digit, param_next, vt100_feed).
SequencesParsed ==
    /\ vt.parse_state = "CSI" =>
          LET fields == FieldsOf(vt.since)
          IN  fields[1] # << >> /\ Len(fields) <= MaxParams =>
                 vt.params = [k \in DOMAIN fields |-> Number(fields[k])]
    /\ vt.parse_state = "OSC" /\ Len(vt.since) < MaxOsc =>
          /\ ToSet(vt.since) \cap {"BEL", "ST"} = {}
          /\ \A i \in 1 .. Len(vt.since) - 1 : vt.since[i] = "ESC" => vt.since[i + 1] # "\\"

\* What is copied are the cells painted as selected, in the order they are read in
\* and with a newline between rows, in whichever direction the mouse was dragged: the
\* characters themselves where they are ASCII, else their lower seven bits
\* (sel_contains, sel_copy_text).
CopiesSelected ==
    sel.active =>
        LET cells == {p \in (0 .. TermRows - 1) \X (0 .. TermCols - 1) : sel_contains(sel, p[1], p[2])}
            order == SetToSortSeq(cells, Before)
            text == sel_copy_text(vt, sel)
        IN  /\ SelectSeq(text, LAMBDA ch : ch # "nl")
                  = [i \in DOMAIN order |-> Masked(CharAt(vt, order[i][1], order[i][2]))]
            /\ Len(text) - Len(order) = Cardinality({p[1] : p \in cells}) - 1
===============================================================================
