------------------------------- MODULE WebPage --------------------------------
(* A page in the browser: the tree that is read from its source, and the     *)
(* lines and boxes that are laid out of it.                                  *)
EXTENDS Integers, Sequences, FiniteSets, FiniteSetsExt, SequencesExt, Functions

-------------------------------------------------------------------------------
(***************************************************************************)
(* The HTML parser of the browser (apps/browser/html_parser.c).            *)
(*                                                                         *)
(* The source is a sequence of characters and positions count from 0.  A   *)
(* letter of the model stands for a whole name where the code only         *)
(* compares names ("br" for a void element, "script" for a raw one, "lt"   *)
(* for an entity); letters are lower case, as tolower leaves them.  One    *)
(* step is one turn of parser_run.  Nodes are numbered as they are made,   *)
(* the document is node 0, and a node's children are those that name it as *)
(* their parent, in order.                                                 *)
(***************************************************************************)

CONSTANTS
    Sources,     \* what is parsed: source, and the tree it was written from or NoTree
    NoTree,
    ENTITY_MAX,  \* 16: how far decode_text looks for the end of an entity
    Selectors

VARIABLE page    \* src, tree; pos; nodes, stack; done

htmlVars == <<page>>

NUL == "nul"
Space == {" ", "nl"}
VoidElements == {<<tag>> : tag \in {"br", "hr", "img"}}
RawElements == {<<"script">>}
TagChars == {"p", "b", "br", "hr", "img", "script", "title", "h1", "ul", "ol", "li", "a", "pre", "blockquote", "code",
              "small", "big", "div", "table", "tbody", "tr", "td", "-"}
Entities == (<<"lt">> :> "<") @@ (<<"amp">> :> "&") @@ (<<"#", "60">> :> "<")

\* lexer_peek and lexer_peek2
CharAt(s, i) == IF i < Len(s) THEN s[i + 1] ELSE NUL

\* The first position from i on whose character is one of cs, or the end.
Until(s, i, cs) == Min({j \in i .. Len(s) - 1 : s[j + 1] \in cs} \cup {Max({i, Len(s)})})
While(s, i, cs) == Min({j \in i .. Len(s) - 1 : s[j + 1] \notin cs} \cup {Max({i, Len(s)})})
lexer_skip_ws(s, i) == While(s, i, Space)

\* if (pos < len) pos++
Over(s, i) == Min({i + 1, Max({i, Len(s)})})

Part(s, i, j) == SubSeq(s, i + 1, Min({j, Len(s)}))
Starts(s, i, w) == Part(s, i, i + Len(w)) = w

-------------------------------------------------------------------------------
(* Text and entities.                                                      *)

decode_entity(name) == IF name \in DOMAIN Entities THEN <<Entities[name]>> ELSE << >>

decode_text(raw) ==
    LET text[i \in 0 .. Len(raw)] ==
            IF i = Len(raw) THEN << >>
            ELSE LET j == Min({Until(raw, i + 1, {";", " "}), i + ENTITY_MAX})
                     decoded == IF raw[i + 1] = "&" /\ CharAt(raw, j) = ";" THEN decode_entity(Part(raw, i + 1, j))
                                ELSE << >>
                 IN  IF decoded # << >> THEN decoded \o text[j + 1] ELSE <<raw[i + 1]>> \o text[i + 1]
    IN  text[0]

-------------------------------------------------------------------------------
(* The tokenizer: each operator gives what it read and where it stopped.   *)

Token(type, name, attrs, text) == [type |-> type, name |-> name, attrs |-> attrs, text |-> text]
Bare(type) == Token(type, << >>, << >>, << >>)
Ahead(i, token) == [pos |-> i, token |-> token]

lex_attr_value(s, from) ==
    LET i == lexer_skip_ws(s, from)
        v == lexer_skip_ws(s, i + 1)
        quoted == CharAt(s, v) \in {"\"", "'"}
        end == IF quoted THEN Until(s, v + 1, {CharAt(s, v)}) ELSE Until(s, v, Space \cup {">", "/"})
    IN  IF CharAt(s, i) # "=" THEN [pos |-> i, value |-> << >>]
        ELSE IF quoted THEN [pos |-> Over(s, end), value |-> Part(s, v + 1, end)]
        ELSE [pos |-> end, value |-> Part(s, v, end)]

\* The loop over the attributes, up to '>' or a slash.
lex_attrs(s, from) ==
    LET read[pos \in 0 .. Len(s)] ==
            LET i == lexer_skip_ws(s, pos)
                c == CharAt(s, i)
                end == Until(s, i, Space \cup {"=", ">", "/"})
                value == lex_attr_value(s, end)
                slash == lexer_skip_ws(s, i + 1)
            IN  IF c \in {">", NUL} THEN [pos |-> i, attrs |-> << >>, self |-> FALSE]
                ELSE IF c = "/" THEN [pos |-> slash, attrs |-> << >>, self |-> CharAt(s, slash) = ">"]
                ELSE IF end = i THEN read[i + 1]
                ELSE LET rest == read[value.pos]
                     IN  [rest EXCEPT !.attrs = <<[name |-> Part(s, i, end), value |-> value.value]>> \o @]
    IN  read[from]

\* An unfinished comment stops two short of the end.
lex_comment(s, i) ==
    LET ends == {j \in i .. Len(s) - 3 : Starts(s, j, <<"-", "-", ">">>)}
        end == IF ends = {} THEN Max({i, Len(s) - 2}) ELSE Min(ends)
    IN  Ahead(IF ends = {} THEN end ELSE end + 3, Token("COMMENT", << >>, << >>, Part(s, i, end)))

\* From the character after '<'.  (A marked section never gets past the doctype's
\* test for '!'.)
lex_tag(s, from) ==
    LET dash == CharAt(s, from) = "!" /\ CharAt(s, from + 1) = "-"
        i == IF dash THEN from + 2 ELSE from
        close == CharAt(s, i) = "/"
        start == IF close THEN lexer_skip_ws(s, i + 1) ELSE i
        end == While(s, start, TagChars)
        tag == lex_attrs(s, end)
    IN  IF dash /\ CharAt(s, i) = "-" THEN lex_comment(s, i + 1)
        ELSE IF CharAt(s, i) = "!" THEN Ahead(Over(s, Until(s, i + 1, {">"})), Bare("DOCTYPE"))
        ELSE IF end = start THEN Ahead(Over(s, Until(s, end, {">"})), Bare("none"))
        ELSE Ahead(IF CharAt(s, tag.pos) = ">" THEN tag.pos + 1 ELSE tag.pos,
                Token(IF tag.self THEN "SELF_CLOSE" ELSE IF close THEN "CLOSE" ELSE "OPEN",
                      Part(s, start, end), tag.attrs, << >>))

lexer_next(s, i) ==
    LET end == Until(s, i, {"<"})
    IN  IF i >= Len(s) THEN Ahead(i, Bare("EOF"))
        ELSE IF s[i + 1] = "<" THEN lex_tag(s, i + 1)
        ELSE Ahead(end, Token("TEXT", << >>, << >>, decode_text(Part(s, i, end))))

-------------------------------------------------------------------------------
(* The parser.                                                             *)

Node(type, tag, attrs, text, parent) ==
    [type |-> type, tag |-> tag, attrs |-> attrs, text |-> text, parent |-> parent]

parser_current(p) == IF p.stack = << >> THEN 0 ELSE Last(p.stack)

node_add_child(p, type, tag, attrs, text) ==
    [p EXCEPT !.nodes = Append(@, Node(type, tag, attrs, text, parser_current(p)))]

\* Mutant: the element itself stays open.
parser_close_tag_inside(p, tag) ==
    LET same == {k \in DOMAIN p.stack : p.nodes[p.stack[k]].tag = tag}
    IN  IF same = {} THEN p ELSE [p EXCEPT !.stack = SubSeq(@, 1, Max(same))]

\* A close tag ends the innermost open element of its name and all inside of it.
parser_close_tag(p, tag) ==
    LET same == {k \in DOMAIN p.stack : p.nodes[p.stack[k]].tag = tag}
    IN  IF same = {} THEN p ELSE [p EXCEPT !.stack = SubSeq(@, 1, Max(same) - 1)]

\* Everything up to the close tag is the element's text, undecoded.
parser_consume_raw(p, tag) ==
    LET s == p.src
        close == {j \in p.pos .. Len(s) - 1 :
                     /\ Starts(s, j, <<"<", "/">> \o tag)
                     /\ CharAt(s, j + 2 + Len(tag)) \in Space \cup {">"}}
        end == Min(close \cup {Len(s)})
        elem == Len(p.nodes)
    IN  [p EXCEPT !.nodes = Append(@, Node("TEXT", << >>, << >>, Part(s, p.pos, end), elem)),
                  !.pos = Over(s, Until(s, end, {">"}))]

parser_open(p, t) ==
    LET q == node_add_child(p, "ELEMENT", t.name, t.attrs, << >>)
    IN  IF t.type = "SELF_CLOSE" \/ t.name \in VoidElements THEN q
        ELSE IF t.name \in RawElements THEN parser_consume_raw(q, t.name)
        ELSE [q EXCEPT !.stack = Append(@, Len(q.nodes))]

\* One turn of the loop, with what lexer_next gives.
parser_takes(p0, next) ==
    LET t == next.token
        p == [p0 EXCEPT !.pos = next.pos]
    IN  CASE t.type = "EOF" -> [p EXCEPT !.done = TRUE]
          [] t.type = "COMMENT" -> node_add_child(p, "COMMENT", << >>, << >>, t.text)
          [] t.type = "TEXT" /\ Range(t.text) \ Space # {} -> node_add_child(p, "TEXT", << >>, << >>, t.text)
          [] t.type \in {"OPEN", "SELF_CLOSE"} -> parser_open(p, t)
          [] t.type = "CLOSE" -> parser_close_tag(p, t.name)
          [] OTHER -> p

parser_run(p0) == parser_takes(p0, lexer_next(p0.src, p0.pos))

-------------------------------------------------------------------------------
(* Queries, which walk the tree.                                           *)

Children(p, n) == SetToSortSeq({k \in DOMAIN p.nodes : p.nodes[k].parent = n}, <)

html_attr(node, name) ==
    LET at == {k \in DOMAIN node.attrs : node.attrs[k].name = name}
    IN  IF at = {} THEN <<NUL>> ELSE node.attrs[Min(at)].value

\* The words of a class attribute.
ClassWords(s) == {Part(s, i, Until(s, i, Space)) : i \in {j \in 0 .. Len(s) - 1 : s[j + 1] \notin Space
                                                       /\ (j > 0 => s[j] \in Space)}}

\* A selector names a tag, then an identifier after '#' and a class after '.', in
\* either order.
node_matches(node, sel) ==
    LET hash == Until(sel, 0, {"#"})
        dot == Until(sel, 0, {"."})
        tag == Part(sel, 0, Min({hash, dot}))
        id == Part(sel, hash + 1, IF hash < dot THEN dot ELSE Len(sel))
        class == Part(sel, dot + 1, IF dot < hash THEN hash ELSE Len(sel))
    IN  /\ node.type = "ELEMENT"
        /\ tag # << >> => node.tag = tag
        /\ id # << >> => html_attr(node, <<"id">>) = id
        /\ class # << >> => class \in ClassWords(html_attr(node, <<"class">>))

RECURSIVE html_query_selector(_, _, _), collect_all(_, _, _), collect_text(_, _)

\* The node found below n, or none.
html_query_selector(p, n, sel) ==
    LET below == [k \in DOMAIN Children(p, n) |-> html_query_selector(p, Children(p, n)[k], sel)]
        hits == SelectSeq(below, LAMBDA found : found # << >>)
    IN  IF n > 0 /\ node_matches(p.nodes[n], sel) THEN <<n>> ELSE IF hits = << >> THEN << >> ELSE hits[1]

collect_all(p, n, sel) ==
    (IF n > 0 /\ node_matches(p.nodes[n], sel) THEN <<n>> ELSE << >>)
        \o FlattenSeq([k \in DOMAIN Children(p, n) |-> collect_all(p, Children(p, n)[k], sel)])

collect_text(p, n) ==
    IF n > 0 /\ p.nodes[n].type = "TEXT" THEN p.nodes[n].text
    ELSE FlattenSeq([k \in DOMAIN Children(p, n) |-> collect_text(p, Children(p, n)[k])])

HtmlInit ==
    \E source \in Sources :
        page = [src |-> source.src, tree |-> source.tree, pos |-> 0, nodes |-> << >>, stack |-> << >>, done |-> FALSE]

HtmlNext == ~page.done /\ page' = parser_run(page)

-------------------------------------------------------------------------------
(* A tree written out: what a page that means to say it contains.  Text is  *)
(* escaped, but not in a raw element.                                       *)

Escaped(text) == FlattenSeq([k \in DOMAIN text |->
    CASE text[k] = "<" -> <<"&", "lt", ";">> [] text[k] = "&" -> <<"&", "amp", ";">> [] OTHER -> <<text[k]>>])

WrittenAttrs(attrs) ==
    FlattenSeq([k \in DOMAIN attrs |-> <<" ">> \o attrs[k].name \o <<"=", "\"">> \o attrs[k].value \o <<"\"">>])

RECURSIVE WrittenTree(_), Numbered(_, _, _)

WrittenTree(t) ==
    CASE t.type = "TEXT" -> Escaped(t.text)
      [] t.type = "COMMENT" -> <<"<", "!", "-", "-">> \o t.text \o <<"-", "-", ">">>
      [] t.type = "ELEMENT" ->
           LET open == <<"<">> \o t.tag \o WrittenAttrs(t.attrs) \o <<">">>
               inside == IF t.tag \in RawElements THEN t.kids[1].text
                         ELSE FlattenSeq([k \in DOMAIN t.kids |-> WrittenTree(t.kids[k])])
           IN  IF t.tag \in VoidElements THEN open ELSE open \o inside \o <<"<", "/">> \o t.tag \o <<">">>

\* Its nodes in the order of the text, the first of them number n.
Numbered(t, n, parent) ==
    <<Node(t.type, t.tag, t.attrs, t.text, parent)>>
        \o FoldLeft(LAMBDA nodes, kid : nodes \o Numbered(kid, n + 1 + Len(nodes), n), << >>, t.kids)

-------------------------------------------------------------------------------
(* Properties.                                                             *)

\* Every turn of parser_run reads something, whatever the source holds, so that the
\* loop comes to its end.
ParserAdvances == page.pos < Len(page.src) => lexer_next(page.src, page.pos).pos \in page.pos + 1 .. Len(page.src)

\* The stack is the path from the document to the element that is open; a node is
\* attached to what was open when it was read, so that the numbers of the nodes are
\* their order in the document; only elements have children, a void one none, a raw
\* one its text.
TreeSound ==
    LET nodes == page.nodes
    IN  /\ \A k \in DOMAIN page.stack :
              nodes[page.stack[k]].parent = IF k = 1 THEN 0 ELSE page.stack[k - 1]
        /\ \A n \in DOMAIN nodes :
              /\ nodes[n].parent \in 0 .. n - 1
              /\ nodes[n].parent > 0 => nodes[nodes[n].parent].type = "ELEMENT"
                                         /\ nodes[nodes[n].parent].tag \notin VoidElements
              /\ \A m \in 1 .. n - 1 : nodes[n].parent < m => nodes[m].parent >= nodes[n].parent

\* The queries, which go down the tree, find the nodes in the order of the document:
\* the first match, all matches, all the text.
QueriesInOrder ==
    page.done =>
        /\ \A sel \in Selectors :
              LET match == {n \in DOMAIN page.nodes : node_matches(page.nodes[n], sel)}
              IN  /\ collect_all(page, 0, sel) = SetToSortSeq(match, <)
                  /\ html_query_selector(page, 0, sel) = IF match = {} THEN << >> ELSE <<Min(match)>>
        /\ collect_text(page, 0) =
              FlattenSeq([n \in DOMAIN page.nodes |->
                  IF page.nodes[n].type = "TEXT" THEN page.nodes[n].text ELSE << >>])

\* A page written from a tree is read back as that tree.
ReadsWritten ==
    page.done /\ page.tree # NoTree =>
        page.nodes = FoldLeft(LAMBDA nodes, t : nodes \o Numbered(t, Len(nodes) + 1, 0), << >>, page.tree)

HtmlSound == ParserAdvances /\ TreeSound /\ QueriesInOrder /\ ReadsWritten

-------------------------------------------------------------------------------
(***************************************************************************)
(* The layout of a page (apps/browser/renderer.c): the walk over the tree  *)
(* that html_parse made, words wrapped into lines, indents and margins,    *)
(* lists, quotations, code, images and tables, and the hit test on the     *)
(* lines.  Colours and the styles that only drawing sees are left out.     *)
(***************************************************************************)

CONSTANTS
    ViewportW,     \* viewport_w
    BaseFont       \* base_font_size

VARIABLE output    \* what renderer_render made: lines, boxes, page_height; none before

renderVars == <<output>>

PARAGRAPH_MARGIN == 12
HEADING_MARGIN_TOP == 16
HEADING_MARGIN_BOT == 8
BLOCK_PADDING == 4
LIST_INDENT == 24
LIST_BULLET_X == 8
CODE_PADDING == 8
BLOCKQUOTE_INDENT == 20
HR_MARGIN == 12
HR_HEIGHT == 1
H1_SIZE == 28
DEFAULT_FONT_SIZE == 14

font_char_width(size) == (size * 6) \div 10
font_measure_text(text, size) == Len(text) * font_char_width(size)
font_line_height(size) == (size * 3) \div 2

NoHref == <<NUL>>

style_init == [size |-> BaseFont, href |-> NoHref, pre |-> FALSE, ordered |-> FALSE, index |-> 0]

Layout(x, y, indent) ==
    [x |-> x, y |-> y, indent |-> indent, open |-> FALSE, spans |-> << >>, lines |-> << >>, boxes |-> << >>]

-------------------------------------------------------------------------------
(* Lines.                                                                  *)

layout_flush_line(lc) ==
    LET tall == Max({lc.spans[k].height : k \in DOMAIN lc.spans})
        height == IF tall = 0 THEN font_line_height(DEFAULT_FONT_SIZE) ELSE tall
    IN  IF ~lc.open \/ lc.spans = << >> THEN [lc EXCEPT !.open = FALSE]
        ELSE [lc EXCEPT !.lines = Append(@, [y |-> lc.y, height |-> height, spans |-> lc.spans]),
                        !.y = @ + height, !.x = lc.indent, !.open = FALSE, !.spans = << >>]

layout_ensure_line(lc) == IF lc.open THEN lc ELSE [lc EXCEPT !.open = TRUE, !.x = lc.indent]

\* Mutant: a word that does not fit is put on the line it does not fit on.
layout_add_span_over(lc, style, word, href) ==
    LET width == font_measure_text(word, style.size)
        line == layout_ensure_line(lc)
        span == [text |-> word, href |-> href, x |-> line.x, width |-> width,
                 height |-> font_line_height(style.size), size |-> style.size, mark |-> FALSE]
    IN  [line EXCEPT !.spans = Append(@, span),
                     !.x = @ + Min({width, ViewportW - lc.indent}) + font_char_width(style.size)]

\* A word that does not fit begins a new line.
layout_add_span(lc, style, word, href) ==
    LET width == font_measure_text(word, style.size)
        room == IF lc.open /\ lc.x + width > ViewportW THEN layout_flush_line(lc) ELSE lc
        line == layout_ensure_line(room)
        span == [text |-> word, href |-> href, x |-> line.x, width |-> width,
                 height |-> font_line_height(style.size), size |-> style.size, mark |-> FALSE]
    IN  [line EXCEPT !.spans = Append(@, span),
                     !.x = @ + Min({width, ViewportW - lc.indent}) + font_char_width(style.size)]

White == {" ", "nl"}

\* The words of a text; the lines of one, the last of them only if it is not empty.
TextWords(text) ==
    LET starts == {i \in DOMAIN text : text[i] \notin White /\ (i > 1 => text[i - 1] \in White)}
        Word(i) == SubSeq(text, i, Until(text, i, White))
    IN  [k \in 1 .. Cardinality(starts) |-> Word(SetToSortSeq(starts, <)[k])]

TextLines(text) ==
    LET begins == {0} \cup {i \in 1 .. Len(text) - 1 : text[i] = "nl"}
        Segment(i) == SubSeq(text, i + 1, Until(text, i, {"nl"}))
    IN  IF text = << >> THEN << >> ELSE [k \in 1 .. Cardinality(begins) |-> Segment(SetToSortSeq(begins, <)[k])]

layout_text(lc, style, text) ==
    IF style.pre
    THEN FoldLeft(LAMBDA c, segment : layout_flush_line(layout_add_span(c, style, segment, NoHref)),
                  IF text = << >> THEN lc ELSE layout_flush_line(lc), TextLines(text))
    ELSE FoldLeft(LAMBDA c, word : layout_add_span(c, style, word, style.href), lc, TextWords(text))

Down(lc, amount) == [lc EXCEPT !.y = @ + amount]

-------------------------------------------------------------------------------
(* Blocks.                                                                 *)

Box(type, x, y, w, h) == [type |-> type, x |-> x, y |-> y, w |-> w, h |-> h]
output_add_box(lc, box) == [lc EXCEPT !.boxes = Append(@, box)]

emit_hr(lc0) ==
    LET lc == Down(layout_flush_line(lc0), HR_MARGIN)
    IN  Down(output_add_box(lc, Box("HR", lc.indent, lc.y, ViewportW - lc.indent * 2, HR_HEIGHT)), HR_HEIGHT + HR_MARGIN)

emit_code_block(lc0, style, text) ==
    LET lc == Down(layout_flush_line(lc0), BLOCK_PADDING)
        rows == 1 + Cardinality({i \in DOMAIN text : text[i] = "nl"})
        back == Box("RECT", lc.indent, lc.y, ViewportW - lc.indent * 2,
                    rows * font_line_height(style.size) + CODE_PADDING * 2)
        inside == [Down(output_add_box(lc, back), CODE_PADDING) EXCEPT !.indent = @ + CODE_PADDING]
        done == layout_flush_line(layout_text(inside, style, text))
    IN  [Down(done, CODE_PADDING + BLOCK_PADDING) EXCEPT !.indent = lc.indent]

emit_blockquote_bar(lc, from) ==
    output_add_box(lc, Box("RECT", lc.indent - BLOCKQUOTE_INDENT + 4, from, 4, lc.y - from))

\* A bullet is three bytes, and measured as three characters.
emit_list_bullet(lc0, style) ==
    LET lc == layout_ensure_line(lc0)
        bullet == IF style.ordered THEN <<ToString(style.index), ".">> ELSE <<"e2", "80", "a2">>
        marked == layout_add_span([lc EXCEPT !.x = lc.indent - LIST_INDENT + LIST_BULLET_X], style, bullet, NoHref)
    IN  [marked EXCEPT !.x = lc.x, !.spans[Len(marked.spans)].mark = TRUE]

PixelsOf(value) ==
    LET digit == [d \in {"0", "1", "2", "5", "9"} |->
                     CASE d = "0" -> 0 [] d = "1" -> 1 [] d = "2" -> 2 [] d = "5" -> 5 [] d = "9" -> 9]
    IN  IF value = NoHref THEN 0 ELSE FoldLeft(LAMBDA v, c : 10 * v + digit[c], 0, value)

\* An image moves the text down only when it fills the line.
emit_image(lc0, node) ==
    LET asked(name) == PixelsOf(html_attr(node, name))
        w == IF asked(<<"width">>) > 0 THEN asked(<<"width">>) ELSE 200
        h == IF asked(<<"height">>) > 0 THEN asked(<<"height">>) ELSE 150
        lc == IF lc0.x + w > ViewportW THEN layout_flush_line(lc0) ELSE lc0
        after == [output_add_box(lc, Box("IMAGE", lc.x, lc.y, w, h)) EXCEPT !.x = @ + w + BLOCK_PADDING]
    IN  IF after.x >= ViewportW THEN Down(layout_flush_line(after), h) ELSE after

-------------------------------------------------------------------------------
(* The walk.                                                               *)

Hidden == {<<tag>> : tag \in {"head", "script", "style", "meta", "link", "title"}}
is_block(tag) == tag \in {<<t>> : t \in {"div", "tbody", "tr"}}   \* those with no rule of their own

\* The style of what is inside of an element.
ChildStyle(style, node) ==
    CASE node.tag = <<"code">> -> [style EXCEPT !.size = (@ * 9) \div 10]
      [] node.tag = <<"small">> -> [style EXCEPT !.size = (@ * 85) \div 100]
      [] node.tag = <<"big">> -> [style EXCEPT !.size = (@ * 11) \div 10]
      [] node.tag = <<"h1">> -> [style EXCEPT !.size = H1_SIZE]
      [] node.tag = <<"pre">> -> [style EXCEPT !.pre = TRUE]
      [] node.tag \in {<<"ul">>, <<"ol">>} -> [style EXCEPT !.ordered = node.tag = <<"ol">>, !.index = 1]
      [] node.tag = <<"li">> -> [style EXCEPT !.index = @ + 1]
      [] node.tag = <<"a">> -> [style EXCEPT !.href = html_attr(node, <<"href">>)]
      [] OTHER -> style

\* The cells of a row that are laid out: no more follow once the fourth child is
\* behind.
RowCells(p, row) ==
    LET kids == Children(p, row)
        cells == {k \in DOMAIN kids : p.nodes[kids[k]].tag = <<"td">>}
        late == {k \in cells : k >= 4}
        laid == {k \in cells : k < 4} \cup (IF late = {} THEN {} ELSE {Min(late)})
    IN  [k \in 1 .. Cardinality(laid) |-> kids[SetToSortSeq(laid, <)[k]]]

RECURSIVE walk_node(_, _, _, _)

walk_children(lc, style, p, n) == FoldLeft(LAMBDA c, k : walk_node(c, style, p, k), lc, Children(p, n))

\* Each cell is laid out from the top of the row at its column, and wraps at the
\* edge of the page.
table_row(lc0, style, p, row) ==
    LET column == (ViewportW - lc0.indent) \div 4
        Cell(done, cell) ==
            LET x == lc0.indent + done.n * column + BLOCK_PADDING
                start == [done.lc EXCEPT !.x = x, !.y = lc0.y, !.indent = x, !.open = FALSE, !.spans = << >>]
                end == layout_flush_line(walk_children(start, style, p, cell))
            IN  [lc |-> end, n |-> done.n + 1, height |-> Max({done.height, end.y - lc0.y})]
        all == FoldLeft(Cell, [lc |-> lc0, n |-> 0, height |-> font_line_height(style.size)], RowCells(p, row))
    IN  [lc0 EXCEPT !.lines = all.lc.lines, !.boxes = all.lc.boxes, !.y = lc0.y + all.height + BLOCK_PADDING]

\* Rows are looked for in the children of the table's children only.
walk_table(lc0, style, p, n) ==
    LET rows == SelectSeq(FlattenSeq([k \in DOMAIN Children(p, n) |-> Children(p, Children(p, n)[k])]),
                          LAMBDA r : p.nodes[r].tag = <<"tr">>)
        lc == Down(layout_flush_line(lc0), BLOCK_PADDING)
    IN  Down(FoldLeft(LAMBDA c, row : table_row(c, style, p, row), lc, rows), BLOCK_PADDING)

\* A block between two margins.
Gap(lc, above, style, p, n, below) ==
    Down(layout_flush_line(walk_children(Down(layout_flush_line(lc), above), style, p, n)), below)

\* Mutant: the indent is not taken back.
Indented_kept(lc, by, above, style, p, n, below) ==
    LET flushed == layout_flush_line(lc)
    IN  Gap([flushed EXCEPT !.indent = @ + by], above, style, p, n, below)

\* One that is indented, too.
Indented(lc, by, above, style, p, n, below) ==
    LET flushed == layout_flush_line(lc)
    IN  [Gap([flushed EXCEPT !.indent = @ + by], above, style, p, n, below) EXCEPT !.indent = flushed.indent]

walk_element(lc, style, p, n) ==
    LET node == p.nodes[n]
        tag == node.tag
        child == ChildStyle(style, node)
    IN  CASE tag \in Hidden -> lc
          [] tag = <<"h1">> -> Gap(lc, HEADING_MARGIN_TOP, child, p, n, HEADING_MARGIN_BOT)
          [] tag = <<"p">> -> Gap(lc, PARAGRAPH_MARGIN, child, p, n, PARAGRAPH_MARGIN)
          [] tag = <<"br">> -> Down(layout_flush_line(lc), font_line_height(style.size))
          [] tag = <<"hr">> -> emit_hr(lc)
          [] tag = <<"pre">> -> emit_code_block(Down(layout_flush_line(lc), BLOCK_PADDING), child, collect_text(p, n))
          [] tag = <<"blockquote">> ->
               emit_blockquote_bar(Indented(lc, BLOCKQUOTE_INDENT, BLOCK_PADDING, child, p, n, BLOCK_PADDING),
                                   layout_flush_line(lc).y)
          [] tag \in {<<"ul">>, <<"ol">>} -> Indented(lc, LIST_INDENT, 0, child, p, n, 0)
          [] tag = <<"li">> ->
               layout_flush_line(walk_children(emit_list_bullet(layout_flush_line(lc), style), child, p, n))
          [] tag = <<"img">> -> emit_image(lc, node)
          [] tag = <<"table">> -> walk_table(lc, style, p, n)
          [] is_block(tag) -> Gap(lc, 0, child, p, n, 0)
          [] OTHER -> walk_children(lc, child, p, n)

walk_node(lc, style, p, n) ==
    IF n = 0 THEN walk_children(lc, style, p, n)
    ELSE CASE p.nodes[n].type = "TEXT" -> layout_text(lc, style, p.nodes[n].text)
           [] p.nodes[n].type = "COMMENT" -> lc
           [] p.nodes[n].type = "ELEMENT" -> walk_element(lc, style, p, n)

renderer_render(p) ==
    LET lc == layout_flush_line(walk_node(Layout(0, BaseFont, BaseFont), style_init, p, 0))
    IN  [lines |-> lc.lines, boxes |-> lc.boxes, page_height |-> lc.y + BaseFont, indent |-> lc.indent]

renderer_hit_test(out, x, y) ==
    LET hit == {<<i, j>> \in UNION {{i} \X DOMAIN out.lines[i].spans : i \in DOMAIN out.lines} :
                   /\ y \in out.lines[i].y .. out.lines[i].y + out.lines[i].height - 1
                   /\ LET sp == out.lines[i].spans[j] IN x \in sp.x .. sp.x + sp.width - 1 /\ sp.href # NoHref}
        first == CHOOSE h \in hit : \A o \in hit : h[1] < o[1] \/ (h[1] = o[1] /\ h[2] <= o[2])
    IN  IF hit = {} THEN NoHref ELSE out.lines[first[1]].spans[first[2]].href

RenderInit == HtmlInit /\ output = << >>

RenderNext ==
    \/ HtmlNext /\ UNCHANGED output
    \/ page.done /\ output = << >> /\ output' = <<renderer_render(page)>> /\ UNCHANGED page

-------------------------------------------------------------------------------
(* What a reader of the tree expects to see: its words in order, each with  *)
(* the size and link of the elements around it, and where a line of them    *)
(* begins.  Of a table that is what stands in the first four children of    *)
(* the rows of its sections.                                                *)

RECURSIVE TreeText(_), Visible(_, _, _)

TreeText(t) == IF t.type = "TEXT" THEN t.text ELSE FlattenSeq([k \in DOMAIN t.kids |-> TreeText(t.kids[k])])

Kids(t, tag) == SelectSeq(t.kids, LAMBDA kid : kid.tag = tag)

Visible(t, style, indent) ==
    LET child == ChildStyle(style, t)
        further == CASE t.tag \in {<<"ul">>, <<"ol">>} -> LIST_INDENT
                     [] t.tag = <<"blockquote">> -> BLOCKQUOTE_INDENT
                     [] OTHER -> 0
        Seen(kids) == FlattenSeq([k \in DOMAIN kids |-> Visible(kids[k], child, indent + further)])
        Word(w, href, at) == [text |-> w, href |-> href, size |-> style.size, indent |-> at]
    IN  CASE t.type = "TEXT" ->
               [k \in DOMAIN TextWords(t.text) |-> Word(TextWords(t.text)[k], style.href, indent)]
          [] t.type = "COMMENT" \/ t.tag \in Hidden -> << >>
          [] t.tag = <<"pre">> ->
               [k \in DOMAIN TextLines(TreeText(t)) |->
                   Word(TextLines(TreeText(t))[k], NoHref, indent + CODE_PADDING)]
          [] t.tag = <<"table">> ->
               LET rows == FlattenSeq([k \in DOMAIN t.kids |-> Kids(t.kids[k], <<"tr">>)])
                   Cells(row) == Kids([row EXCEPT !.kids = SubSeq(@, 1, Min({4, Len(@)}))], <<"td">>)
               IN  FlattenSeq([r \in DOMAIN rows |->
                       FlattenSeq([c \in DOMAIN Cells(rows[r]) |-> Seen(Cells(rows[r])[c].kids)])])
          [] OTHER -> Seen(t.kids)

Expected == FlattenSeq([k \in DOMAIN page.tree |-> Visible(page.tree[k], style_init, BaseFont)])

RECURSIVE HasTable(_)
HasTable(t) == t.tag = <<"table">> \/ \E k \in DOMAIN t.kids : HasTable(t.kids[k])
TablePage == \E k \in DOMAIN page.tree : HasTable(page.tree[k])

\* A line without the mark of a list's item.
Unmarked(line) == SelectSeq(line.spans, LAMBDA sp : ~sp.mark)
Drawn(out) == FlattenSeq([i \in DOMAIN out.lines |-> Unmarked(out.lines[i])])

-------------------------------------------------------------------------------
(* Properties of the page that is rendered.                                *)

\* Nothing is lost, repeated or out of order between the source of a page and its
\* lines: the words on them, with their sizes and links, are those of the tree the
\* page was written from (html_parse, walk_node, layout_text).
WordsInOrder(out, expected) ==
    LET drawn == Drawn(out)
    IN  /\ Len(drawn) = Len(expected)
        /\ \A k \in DOMAIN drawn : /\ drawn[k].text = expected[k].text
                                   /\ drawn[k].href = expected[k].href /\ drawn[k].size = expected[k].size

\* Lines begin at the indent of the elements they are in, are inside of the view or
\* hold a single word, and keep clear of each other; a table's cells wrap at the edge
\* of the page and not of their column, and are left out (layout_add_span,
\* layout_flush_line).
LinesApart(out, expected) ==
    /\ \A i \in DOMAIN out.lines :
          LET sp == Unmarked(out.lines[i])
              before == Len(FlattenSeq([k \in 1 .. i - 1 |-> Unmarked(out.lines[k])]))
          IN  /\ sp # << >> => sp[1].x = expected[before + 1].indent
              /\ \A j \in 2 .. Len(sp) :
                    sp[j - 1].x + sp[j - 1].width < sp[j].x /\ sp[j].x + sp[j].width <= ViewportW
    /\ \A i \in 1 .. Len(out.lines) - 1 : out.lines[i].y + out.lines[i].height <= out.lines[i + 1].y

\* A click on a word of a link leads where the link leads.
LinksHit(out) ==
    \A i \in DOMAIN out.lines : \A j \in DOMAIN out.lines[i].spans :
        LET sp == out.lines[i].spans[j] IN
        sp.href # NoHref /\ sp.width > 0 =>
            \A x \in {sp.x, sp.x + sp.width - 1}, y \in {out.lines[i].y, out.lines[i].y + out.lines[i].height - 1} :
                renderer_hit_test(out, x, y) = sp.href

\* The page is as high as what is on it, images apart, and the indents of all
\* elements have been taken back (renderer_page_height bounds the scrolling).
PageHolds(out) ==
    /\ \A i \in DOMAIN out.lines : out.lines[i].y + out.lines[i].height + BaseFont <= out.page_height
    /\ \A i \in DOMAIN out.boxes : out.boxes[i].type = "HR" => out.boxes[i].y + out.boxes[i].h < out.page_height
    /\ out.indent = BaseFont

RenderSound ==
    output # << >> /\ page.tree # NoTree =>
        \A expected \in {Expected} :
            /\ WordsInOrder(output[1], expected) /\ PageHolds(output[1])
            /\ ~TablePage => LinesApart(output[1], expected) /\ LinksHit(output[1])
===============================================================================
