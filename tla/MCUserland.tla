------------------------------ MODULE MCUserland ------------------------------
(* What runs above the kernel: init, the shell and its line editor, the window *)
(* protocol, an application's windows and event loop, the desktop with its     *)
(* taskbar, launcher and notifications, the browser's HTTP client, its address *)
(* bar and history and its pages, the calculator, and the heap every program   *)
(* has.  They share no state in the code (each is a process of its own, or a   *)
(* part that keeps its own structure), so a behaviour exercises one of         *)
(* Components.                                                                 *)
(*                                                                             *)
(* Init: no inittab, one with every kind of line, one with two services that   *)
(* are started again.  Shell: lines with every operator, an expansion or an    *)
(* alias, and programs that succeed, fail, run on or cannot be started.        *)
(* Protocol: two applications, messages that fit the buffer, do not fit with   *)
(* their header, and are answered.  Event loop: both shift keys, movements off *)
(* both edges of the screen, two timers.  Windows: tables of three, four ids.  *)
(* Desktop: room for three icons in columns of two.  Taskbar: three windows    *)
(* for two buttons; days around the ends of February and of years.  Launcher:  *)
(* four entries, two in view.  HTTP: pages that redirect, to themselves too,   *)
(* in chunks and plain.  Calculator: three digits, two operators, numbers of   *)
(* three places.  Heap: five blocks fit below the middle of the address space, *)
(* one request passes it.                                                      *)
EXTENDS InitProcess, Shell, WindowProtocol, GuiEvents, Desktop, Browser, WebPage, Calculator, Malloc

CONSTANT Components

VARIABLE component

MCInittabs ==
    { << >>,
      <<<<"boot", "a">>, << >>, <<"respawn", "b">>, <<"x">>, <<"bogus", "c">>, <<"shutdown", "d">>, <<"boot", "e">>>>,
      <<<<"respawn", "b">>, <<"respawn", "c">>>> }
MCOldDirs == {{}, {"/var", "/var/log"}}

Strings(chars, n) == UNION {[1 .. k -> chars] : k \in 0 .. n}

\* Characters, and words of which only their being words matters as one character.
MCLines ==
    { <<"a", "&", "&", "b", ";", "c">>, <<"a", " ", "|", " ", "b", "&">>, <<"a", "&">>, <<"false", "|", "|", "b">>,
      <<"(", "a", ")", "&", "&", "b">>, <<"true", "&", " ", "b">>,
      <<"export", " ", "x", "=", "a", ";", "$", "x", "|", "|", "$", "{", "x", "}">>,
      <<"alias", " ", "x", "=", "a", " ", "x", "=", "b", " ", "y", "=", "a">>,
      <<"unalias", " ", "x", ";", "unset", " ", "x", "\n", "b", "*">>,
      <<"a", ">", "b", " ", "2", ">", "&", "1", " ", "<", " ", "c", "|", "'", "a", "|", "'", ";", "\\", "~", "$", "?">> }
Behaves(a, b, sub, word) ==
    (<<"a">> :> a) @@ (<<"b">> :> b) @@ (<<"c">> :> 0) @@ (<<"subshell">> :> sub) @@ (<<"garbage">> :> word)
MCPrograms == {Behaves(0, 1, 0, 0), Behaves(1, 128, NoFork, 127), Behaves(Running, 0, Running, 256),
               Behaves(NoFork, Running, 0, 1)}
MCDirectory == <<<<".", "b">>, <<"b", "c">>, <<"b">>>>

MCHistory == <<<<"a">>, <<"a">>, <<"b">>>>

MCKinds ==
    { [id |-> "create", length |-> 1, answered |-> FALSE], [id |-> "clip_get", length |-> 0, answered |-> TRUE],
      [id |-> "long", length |-> 3, answered |-> FALSE] }

MCIcons == <<<<"app", "app">>, <<"home", "folder">>>>
MCDesktopPoints == {<<0, 0>>, <<1, 3>>, <<4, 3>>, <<4, 6>>}
MCLauncher == <<<<"a", "b">>, <<"b">>, <<"a">>, <<"c">>>>
MCDays == {0, 58, 59, 364, 365, 789, 790, 1095, 11015, 11016, 11017, 47540, 47541}

MCModifiers == [lshift |-> "shift", rshift |-> "shift", ctrl |-> "ctrl"]
MCDeltas == {-2, 0, 1}

Page(path) == <<"http://", "h", "/", path>>
Text(chars) == [i \in DOMAIN chars |-> Byte(chars[i])]
Moved(code, to) == [code |-> code, location |-> to, chunked |-> FALSE, top |-> FALSE, body |-> << >>]
Found(chunked, top) ==
    [code |-> 200, location |-> NoPart, chunked |-> chunked, top |-> top,
     body |-> <<Text(<<"x", "2">>), <<CRLF>>, Text(<<"y">>)>>]
MCPages ==
    (Page("a") :> Moved(302, Page("b"))) @@ (Page("b") :> Found(TRUE, FALSE)) @@ (Page("c") :> Found(FALSE, FALSE))
        @@ (Page("d") :> Moved(303, Page("d"))) @@ (Page("e") :> Moved(302, <<"https://", "h">>)) @@ (Page("f") :> Found(TRUE, TRUE))
        @@ (<<"n", "/", "c">> :> Found(FALSE, FALSE))
MCStartUrls == DOMAIN MCPages
MCNumericHosts == {<<"h">>}

Doc(title, height, links) == [title |-> title, height |-> height, links |-> links]
MCStartUrl == <<"h">>
MCSites ==
    { [url |-> <<"h">>, final |-> <<"h">>, doc |-> Doc("one", 1, {<<"a">>, <<"/", "b">>, <<"http://", "g">>})],
      [url |-> <<"http://", "h", "/", "a">>, final |-> <<"g", "/">>, doc |-> Doc("two", 5, {<<"/", "a">>})],
      [url |-> <<"http://", "h", "/", "b">>, final |-> <<"http://", "h", "/", "b">>, doc |-> NoDoc],
      [url |-> <<"http://", "h", "/">>, final |-> <<"h", "/">>, doc |-> Doc(NoTitle, 3, {<<"a">>})] }

\* Two texts beside each other would be read as one.
Apart(kids) == \A i \in 1 .. Len(kids) - 1 : kids[i].type = "TEXT" => kids[i + 1].type # "TEXT"

\* Pages that nobody wrote, and pages written from trees.
Elem(tag, attrs, kids) == [type |-> "ELEMENT", tag |-> <<tag>>, attrs |-> attrs, text |-> << >>, kids |-> kids]
Leaf(type, text) == [type |-> type, tag |-> << >>, attrs |-> << >>, text |-> text, kids |-> << >>]
Attr(name, value) == <<[name |-> <<name>>, value |-> value]>>
Two == Leaf("TEXT", <<"p", "p", " ", "p", "p", "p">>)
Link == Elem("a", Attr("href", <<"/", "p">>), <<Two>>)
Image == Elem("img", Attr("width", <<"9", "0">>), << >>)
Inlines == {Two, Link, Elem("code", << >>, <<Two>>), Elem("br", << >>, << >>)}
MCBlocks ==
    { Elem(tag, << >>, kids) : tag \in {"p", "h1", "ul", "ol", "li", "blockquote", "div", "title"},
                              kids \in {<<Two, Link>>, <<Elem("big", << >>, <<Two>>)>>, <<Image, Two>>} }
        \cup {Elem("pre", << >>, <<Leaf("TEXT", <<"p", "nl", "nl", " ", "p", "nl">>)>>), Elem("hr", << >>, << >>)}
        \cup {Elem("table", << >>, <<Elem("tbody", << >>, <<Elem("tr", << >>,
                  <<Elem("td", << >>, <<a>>), Elem("td", << >>, <<Two>>)>>)>>)>>) : a \in Inlines}
Odd == {Leaf("TEXT", <<"<", "p", "&", "lt", ";", ">">>), Leaf("COMMENT", <<"<", "-", "p">>),
        Elem("script", << >>, <<Leaf("TEXT", <<"<", "p", "&", "lt", ";">>)>>),
        Elem("b", Attr("id", <<"p", ">">>) \o Attr("class", <<"b", " ", "p">>), <<Elem("b", Attr("class", <<"p">>), << >>)>>)}
MCDocuments ==
    { <<Elem(tag, << >>, <<a>>)>> : tag \in {"ul", "blockquote", "li", "a"}, a \in MCBlocks }
        \cup {<<a, Two>> : a \in MCBlocks} \cup {<<Elem("p", << >>, <<a, b>>)>> : a \in Odd, b \in Odd \cup Inlines}
MCSources ==
    { [src |-> FlattenSeq([k \in DOMAIN d |-> WrittenTree(d[k])]), tree |-> d] : d \in {x \in MCDocuments : Apart(x[1].kids)} }
        \cup {[src |-> s, tree |-> NoTree] : s \in Strings({"<", ">", "/", "p", "script", "\"", "=", "-", "!"}, 4)}
MCSelectors == {<<"b">>, <<"b", "#", "p", ">">>, <<".", "p">>, <<"b", ".", "p", "#", "p", ">">>, <<"p">>, <<"script">>}

Init ==
    /\ component \in Components
    /\ RenderInit /\ (component # "page" => page.src = << >>)
    /\ InitInit /\ (component # "init" => disk = {})
    /\ ShellInit /\ ReadlineInit
    /\ ProtocolInit /\ AppInit /\ LoopInit /\ DesktopInit /\ TaskbarInit /\ NotifInit
    /\ HttpInit /\ (component # "http" => http = Request("GET", Page("a"), 0) /\ ~kernel.on)
    /\ BrowserInit /\ (component # "browser" => browser.state = "ERROR")
    /\ CalcInit /\ MallocInit

consoleVars == <<initVars, shellVars, readlineVars>>
sessionVars == <<protocolVars, appVars, loopVars, desktopVars, taskbarVars, notifVars>>
webVars == <<httpVars, browserVars, htmlVars, renderVars>>
programVars == <<webVars, calcVars, mallocVars>>

ConsoleNext ==
    \/ component = "init" /\ InitNext /\ UNCHANGED <<shellVars, readlineVars>>
    \/ component = "shell" /\ ShellNext /\ UNCHANGED <<initVars, readlineVars>>
    \/ component = "readline" /\ ReadlineNext /\ UNCHANGED <<initVars, shellVars>>

SessionNext ==
    \/ /\ \/ component = "protocol" /\ ProtocolNext /\ UNCHANGED <<appVars, loopVars>>
          \/ component = "windows" /\ (AppNext \/ AppStops) /\ UNCHANGED <<protocolVars, loopVars>>
          \/ /\ \/ component = "keys" /\ KeyNext
                \/ component = "mouse" /\ PointerNext
                \/ component = "timers" /\ TimerNext
             /\ UNCHANGED <<protocolVars, appVars>>
       /\ UNCHANGED <<desktopVars, taskbarVars, notifVars>>
    \/ /\ \/ component = "desktop" /\ DesktopNext /\ UNCHANGED <<taskbarVars, notifVars>>
          \/ /\ \/ component = "taskbar" /\ TaskbarNext
                \/ component = "clock" /\ ClockNext
                \/ component = "launcher" /\ LauncherNext
             /\ UNCHANGED <<desktopVars, notifVars>>
          \/ component = "notifications" /\ NotifNext /\ UNCHANGED <<desktopVars, taskbarVars>>
       /\ UNCHANGED <<protocolVars, appVars, loopVars>>

WebNext ==
    \/ component = "http" /\ HttpNext /\ UNCHANGED <<browserVars, htmlVars, renderVars>>
    \/ component = "browser" /\ BrowserNext /\ UNCHANGED <<httpVars, htmlVars, renderVars>>
    \/ component = "page" /\ RenderNext /\ UNCHANGED <<httpVars, browserVars>>

ProgramNext ==
    \/ WebNext /\ UNCHANGED <<calcVars, mallocVars>>
    \/ component = "calculator" /\ CalcNext /\ UNCHANGED <<webVars, mallocVars>>
    \/ component = "malloc" /\ MallocNext /\ UNCHANGED <<webVars, calcVars>>

Next ==
    /\ \/ ConsoleNext /\ UNCHANGED <<sessionVars, programVars>>
       \/ SessionNext /\ UNCHANGED <<consoleVars, programVars>>
       \/ ProgramNext /\ UNCHANGED <<consoleVars, sessionVars>>
    /\ UNCHANGED component

\* The fairness of InitFairness and HttpFairness, each for the behaviours its
\* component takes part in; and the frames, hence the ticks, keep coming.
Spec ==
    /\ Init /\ [][Next]_<<consoleVars, sessionVars, programVars, component>>
    /\ WF_initVars(component = "init" /\ InitStep)
    /\ WF_httpVars(component = "http" /\ HttpCall)
    /\ WF_notifVars(component = "notifications" /\ notif_tick)

-------------------------------------------------------------------------------
(* Properties.  Each looks at the components it is about: the state of the     *)
(* others does not change.                                                     *)

UrlTexts ==
    { s \o a \o p \o q :
        s \in {<< >>, <<"http://">>, <<"https://">>},
        a \in {<<"h">>, <<"h", ":", "8">>, <<"h", ":", "8", "0">>, <<"h", ":", "4", "4", "3">>, <<":">>},
        p \in {<< >>, <<"/">>, <<"/", "p">>, <<"/", ":", "/">>},
        q \in Strings({"?", "#", "q", "/"}, 3) }

\* init starts and restarts its services in the order of the inittab and loses none
\* (run_boot_services, spawn_respawn_services, reap_loop); the shell stops a list where
\* its operators say, keeps track of its jobs, matches and groups words as written
\* (execute, job_reap_all, glob_match, tokenize); the line editor shows the line that
\* will be returned (readline); the heap they all use stays whole (malloc, free).
ConsoleSound ==
    /\ component = "init" => ServicesSound
    /\ component = "shell" => ListStops /\ JobsTracked /\ SuccessIsTold
    /\ component = "shell" /\ line = << >> /\ sh.phase = "reading" =>
         GlobExact(Strings({"a", "*", "?"}, 3), Strings({"a", "b"}, 3)) /\ QuotingGroups(Strings({"a", " ", "|", "\"", "$"}, 3))
    /\ component = "readline" => ReadlineSound
    /\ component = "malloc" => UserHeapSound

\* Messages of an application arrive whole, once and in order (ipc_server_poll).
ProtocolSound == component = "protocol" => MessagesInOrder

\* Keys, pointer and timers are told as they happened (event_loop.c), and windows
\* are drawn at the size they have and told what is theirs (window.c, app.c).
EventsFaithful ==
    /\ component \in {"keys", "mouse", "timers"} => InputFaithful
    /\ component = "windows" => WindowsTended

\* The icons, the buttons of the taskbar, the entries of the launcher and the
\* notifications are where the click that is meant for them is looked for, and the
\* calendar is right (desktop.c, taskbar.c, launcher.c, notifications.c).
ShellSurfacesSound ==
    /\ component = "desktop" => DesktopSound
    /\ component \in {"taskbar", "clock"} => TaskbarSound
    /\ component = "launcher" => LauncherSound
    /\ component = "notifications" => StackOrdered

\* A fetched page is the one asked for, or the start of it (do_request), and a URL
\* that is written reads back the same (http_url_to_string); the history and the
\* address bar go with the page that is shown (browser_navigate); a page's source is
\* read as the tree it was written from, and the words of the tree are laid out in
\* order, apart from each other, and lead where their links lead (html_parse,
\* renderer_render, renderer_hit_test).
BrowserExact ==
    /\ component = "http" =>
         /\ FetchExact
         /\ http.phase = "connect" /\ requested = << >> /\ http.url = Page("a") /\ http.method = "GET" /\ ~kernel.on => UrlsReadBack(UrlTexts)
    /\ component = "browser" => BrowserSound
    /\ component = "page" => HtmlSound /\ RenderSound

\* The calculator shows the result of the operations entered (calc_evaluate).
CalculatorExact == component = "calculator" => CalcExact

\* A service that ended comes back, a fetch ends, a notification leaves the screen
\* (reap_loop, http_fetch, notif_tick).
UserlandGoesOn ==
    /\ component = "init" => RespawnsComeBack
    /\ component = "http" => FetchEnds
    /\ component = "notifications" => NotifsLeave
===============================================================================
