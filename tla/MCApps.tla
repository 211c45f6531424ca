-------------------------------- MODULE MCApps --------------------------------
(* Three applications, the text editor, driven by keys or by the commands of   *)
(* its engine, the terminal emulator and the file manager; and the widgets of  *)
(* the toolkit.  A behaviour exercises one of Components.                      *)
(*                                                                             *)
(* Editor: a file of three characters on two lines and an empty one, a gap of  *)
(* two, room for twelve characters, so that insertions grow the gap and fail.  *)
(* Engine: nested brackets and a commented line.  Terminal: a screen of two    *)
(* columns by three rows, a ring of two lines, two parameters, strings of      *)
(* two bytes.  "bytes" feeds them one by one; "screen" feeds whole sequences   *)
(* to a full screen; "text" feeds more text than screen and ring hold;         *)
(* "mouse" selects from it.  Files: a directory of two files, one hidden, an   *)
(* empty one, and bookmarks of which one is gone.                              *)
(* Text box: three characters, two of them in view, two undo records.  Text    *)
(* area: two lines in view, two undo records, room for four lines.  List: four *)
(* items, two in view.  Controls: three widgets, three ranges, and a menu with *)
(* separators at its top and in its middle.  Highlighter: every line of up to  *)
(* three or four of the characters that each language tells apart, in C and    *)
(* JavaScript under every line of up to three; one row in view.                *)
EXTENDS TextEditor, Vt100, FileManager, Widgets

CONSTANT Components

VARIABLE component

MCFileTexts == {[n \in Names |-> IF n = "f" THEN <<"x", "nl", "sp">> ELSE << >>]}
MCNeedles == {<<"X">>}
MCTab == <<"sp", "sp">>
MCPoints == {<<0, 1>>, <<1, -1>>}
MCConfig == [auto_indent |-> TRUE, auto_pair |-> TRUE, use_spaces |-> TRUE, tab_width |-> 2]
MCPrefix == <<"#">>
MCEngineTexts == {<<"(", "(", ")", ")", "nl", "#", "x">>}

CSI(bytes) == <<"ESC", "[">> \o bytes

MCBytes ==
    {<<c>> : c \in {"a", "ESC", "[", "1", "2", ";", "!", "A", "?", "\\", "BEL", "ST"}}
        \cup {<<"ESC", "]">>, CSI(<<"1", ";">>)}

MCSequences ==
    {<<"b", "a">>, <<"LF">>, <<"CR">>, <<"BS">>, <<"HT">>}
        \cup {<<"ESC", c>> : c \in {"D", "E", "M", "7", "8", "c"}}
        \cup {CSI(<<c>>) : c \in {"A", "B", "D", "F", "I", "J", "K", "L", "M", "P", "@", "S", "T", "X", "Z", "m"}}
        \cup {CSI(<<"2", ";", "2", "H">>), CSI(<<"2", ";", "3", "r">>), CSI(<<"1", ";", "2", "r">>),
              CSI(<<"2", "M">>), CSI(<<"4", "h">>), CSI(<<"4", "l">>), CSI(<<"1", "J">>), CSI(<<"3", "J">>),
              CSI(<<"1", "K">>), CSI(<<"3", "1", "m">>), CSI(<<"4", "8", ";", "5", ";", "1", "m">>)}

MCFull == <<"a", "b", "x80", "xE1", "e">>
MCTexts == {<<"a">>, <<"b", "a">>}

MCChunks == MCBytes \cup MCSequences \cup MCTexts \cup {MCFull}
MCSizes == {<<1, 2>>, <<3, 4>>}

MCNoText == <<"none">>
MCAreaTexts == {<< <<"a">>, <<" ", "b">> >>}
MCRanges == {<<0, 3>>, <<2, 8>>, <<0, 7>>}
MCMenu == <<"separator", "normal", "submenu", "separator", "check", "submenu">>
MCMouseAt == {-1, 0, 2, 5, 6, 7}

Strings(chars, n) == UNION {[1 .. k -> chars] : k \in 0 .. n}
MCFile(ext, lines) == [path |-> <<"a", ".", ext>>, lines |-> lines]
MCSyntaxChars ==
    [py |-> {"#", "'", "\\", "@", "a"}, sh |-> {"#", "$", "\"", "'", "{", "}"},
     asm |-> {";", "0", "x", "%", ":", "'"}, json |-> {"-", "0", "\"", "\\", ":", " "},
     md |-> {"-", "0", ".", "*", "#", Grave, " ", "["}, mk |-> {"$", "(", ")", ":", "=", "tab"}]
MCSyntaxTexts ==
    LET c == {"/", "*", "\"", "\\"} IN
    {MCFile("c", <<a, b>>) : a \in Strings(c, 3), b \in Strings({"/", "*", "\"", "#"}, 2)}
        \cup {MCFile("c", <<a>>) : a \in Strings(c \cup {"a"}, 4)}
        \cup {MCFile("js", <<a, b>>) : a \in Strings({"/", "*", "\\", Grave}, 3), b \in Strings({"*", "/"}, 2)}
        \cup UNION {{MCFile(ext, <<a>>) : a \in Strings(MCSyntaxChars[ext], IF ext = "py" THEN 4 ELSE 3)} :
                       ext \in DOMAIN MCSyntaxChars}
MCSyntaxPaths == {<<"d", ".", "c", "/", "Makefile">>, <<"d", "/", "Makefile">>}
MCKeywords == [l \in DOMAIN Rules |-> {<<"a">>}]

MCTree ==
    << << << >>, Dir >>, << <<"d">>, Dir >>, << <<"m">>, Dir >>,
       << <<"a">>, 1 >>, << <<"d", "b">>, 2 >>, << <<"d", "h">>, 3 >> >>
MCRoot == << >>
MCNameOrder == <<"a", "b", "d", "h", "m", "x">>
MCMarks == << << >>, <<"m">>, <<"x">> >>
MCPlaces == {-5, 40, 70}

Init ==
    /\ component \in Components
    /\ \/ component = "syntax" /\ SyntaxInit
       \/ component # "syntax" /\ SyntaxInit /\ edited = MCFile("c", << << >> >>)
    /\ TerminalInit /\ FmInit /\ BoxInit /\ TaInit /\ ListInit /\ TreeInit /\ ControlInit /\ MenuInit /\ happened = 0
    /\ \/ component = "keys" /\ TextEditorInit
       \/ component = "engine" /\ EngineInit
       \/ /\ component \notin {"keys", "engine"}
          /\ TextEditorInit /\ buf.filename = NoFile
    /\ component # "control" => ctl.kind = "button" /\ ctl.max = 3

\* The reads of each component, and how many.
Feeding ==
    \/ component = "bytes" /\ feeds < 4 /\ \E chunk \in MCBytes : on_pty_data(chunk)
    \/ component \in {"screen", "mouse"} /\ feeds = 0 /\ on_pty_data(MCFull)
    \/ component = "screen" /\ feeds \in 1 .. 3 /\ \E chunk \in MCSequences : on_pty_data(chunk)
    \/ component = "text" /\ (memory_changes \/ \E chunk \in MCTexts : on_pty_data(chunk))

ApplicationNext ==
    \/ /\ \/ component = "keys" /\ TextEditorNext
          \/ component = "engine" /\ EngineNext
       /\ UNCHANGED <<terminalVars, fmVars>>
    \/ /\ \/ Feeding
          \/ component = "screen" /\ feeds \in 1 .. 3 /\ Resizes
          \/ component = "mouse" /\ Selects
       /\ UNCHANGED <<editorVars, fmVars>>
    \/ component = "files" /\ FmNext /\ UNCHANGED <<editorVars, terminalVars>>

WidgetNext ==
    \/ component = "textbox" /\ BoxNext /\ UNCHANGED <<taVars, listVars, widgetVars>>
    \/ component = "textarea" /\ TaNext /\ UNCHANGED <<boxVars, listVars, widgetVars>>
    \/ component = "list" /\ ListNext /\ UNCHANGED <<boxVars, taVars, widgetVars>>
    \/ component = "tree" /\ TreeNext /\ UNCHANGED <<boxVars, taVars, listVars, controlVars, menuVars>>
    \/ component = "control" /\ ControlNext /\ UNCHANGED <<boxVars, taVars, listVars, treeVars, menuVars>>
    \/ component = "menu" /\ MenuNext /\ UNCHANGED <<boxVars, taVars, listVars, treeVars, controlVars>>

applicationVars == <<editorVars, terminalVars, fmVars>>
toolkitVars == <<boxVars, taVars, listVars, widgetVars>>

Next ==
    /\ \/ ApplicationNext /\ UNCHANGED <<toolkitVars, syntaxVars>>
       \/ WidgetNext /\ UNCHANGED <<applicationVars, syntaxVars>>
       \/ component = "syntax" /\ SyntaxNext /\ UNCHANGED <<applicationVars, toolkitVars>>
    /\ UNCHANGED component

Spec == Init /\ [][Next]_<<applicationVars, toolkitVars, syntaxVars, component>>

\* (An invariant below looks at the component it is about: the state of the others
\* does not change.)

\* The editor shows the text that the edits describe, and calls it clean when the
\* file holds it; its commands keep their laws (buffer_insert, buffer_undo,
\* buffer_save, and editor.c's brackets, comments and indentation).  The rows in view
\* have the colours that their text and the lines above give them (draw_content).
EditorExact ==
    /\ component \in {"keys", "engine"} => (buf.wild \/ (TextIsEdits /\ CleanIsSaved /\ EngineLaws)) /\ MemoryIsOwn
    /\ component = "syntax" => SyntaxSound

\* The emulator keeps its screen and ring in shape, wraps text as written, leaves no
\* sequence half read and copies what was selected (vt100_feed, on_pty_data,
\* terminal_copy_selection).
TerminalExact ==
    component \in {"bytes", "screen", "text", "mouse"} =>
        TerminalSound /\ TextWraps /\ SequencesParsed /\ CopiesSelected

\* The file manager's operations do what they say and nothing else, and lose no file
\* (ops_copy, ops_move, ops_delete); what it shows and where it goes back to stay
\* sound (nav_push_history, dir_view_key_down).
FilesSafe == component = "files" => NothingLost /\ OpsExact /\ DeleteReaches /\ ManagerSound

\* The widgets that hold text keep cursor, selection and view inside it and undo
\* what was done (textbox.c, textarea.c).
TextWidgetsSound == (component = "textbox" => TextboxSound) /\ (component = "textarea" => TextareaSound)

\* The list view and its bar agree on what is in view (listview.c, scrollbar.c).
\* Events reach the widget on top, controls answer a press and its release, a
\* slider's value stays in its range, and a menu closes what it opened (widget.c,
\* button.c, slider.c, menu.c).
ToolkitSound ==
    /\ component = "list" => ListViewSound
    /\ component = "tree" => TreeSound
    /\ component = "control" => ControlsSound
    /\ component = "menu" => MenuSound
===============================================================================
