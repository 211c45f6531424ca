-------------------------------- MODULE Shell ---------------------------------
(* The shell, and the line editor it reads its lines with.                   *)
EXTENDS Integers, Sequences, SequencesExt, FiniteSetsExt

-------------------------------------------------------------------------------
(***************************************************************************)
(* The shell (userland/shell): lexer and parser, expansion, execution of   *)
(* command lists and pipelines, jobs and builtins.  A line is a sequence   *)
(* of characters; a longer word such as "export" is one character of the   *)
(* model's alphabet.  The buffers' sizes (4096, 8192) are not reached.     *)
(* What a program does is chosen when a line is executed: it cannot be     *)
(* forked (the kernel has no handler for fork yet), it still runs when the *)
(* shell waits, or it has ended with a code; that a process which runs     *)
(* ends is a step of its own.  waitpid is that of this kernel and library. *)
(***************************************************************************)

CONSTANTS
    ShellLines,          \* what is typed
    Programs,            \* outcomes of the programs: a set of functions from words
    NameChars,           \* letters of a variable's name
    Directory,           \* the names in the current directory, as readdir gives them
    MAX_ARGS, MAX_REDIRS, MAX_CMDS, MAX_JOBS, MAX_ALIASES,
    MaxLinesTyped        \* bound on lines

VARIABLES
    sh,        \* the state of the shell; kids: its processes that are not reaped
    line,      \* history: the line executed last
    typed      \* lines so far

shellVars == <<sh, line, typed>>

\* What a process does besides ending with an exit code.
Running == -1
NoFork == -2

Nth(s, i) == IF i <= Len(s) THEN s[i] ELSE "end"
From(s, i) == SubSeq(s, i, Len(s))

---------------------------------------------------------------------------
(* lexer *)

Blank == {" ", "tab"}
Breaks == Blank \union {"\n", "|", "&", ";", "(", ")", "end"}
Tok(type, n) == [type |-> type, str |-> << >>, n |-> n]

\* A word runs to the next break; quotes group, a backslash takes the next
\* character as it is.  The redirection signs do not end a word.
ScanWord(s) ==
    LET Step(w, c) ==
            CASE w.mode = "done" -> w
              [] w.mode = "escape" -> [w EXCEPT !.mode = w.back, !.str = Append(@, c), !.n = @ + 1]
              [] w.mode \in {"'", "\""} /\ c = w.mode -> [w EXCEPT !.mode = "plain", !.n = @ + 1]
              [] w.mode # "'" /\ c = "\\" /\ w.n + 1 < Len(s) -> [w EXCEPT !.mode = "escape", !.back = w.mode, !.n = @ + 1]
              [] w.mode = "plain" /\ c \in {"'", "\""} -> [w EXCEPT !.mode = c, !.n = @ + 1]
              [] w.mode = "plain" /\ c \in Breaks -> [w EXCEPT !.mode = "done"]
              [] OTHER -> [w EXCEPT !.str = Append(@, c), !.n = @ + 1]
        w == FoldLeft(Step, [mode |-> "plain", back |-> "plain", str |-> << >>, n |-> 0], s)
    IN  [type |-> "word", str |-> w.str, n |-> w.n]

\* The token at the start of s, and how many characters it takes.
lex_next(s) ==
    LET c == Nth(s, 1)
        d == Nth(s, 2)
        e == Nth(s, 3)
    IN  CASE c = "end" -> Tok("eof", 0)
          [] c = "\n" -> Tok("newline", 1)
          [] c \in {";", "(", ")"} -> Tok(c, 1)
          [] c \in {"|", "&"} -> IF d = c THEN Tok(c \o c, 2) ELSE Tok(c, 1)
          [] c = "2" /\ d = ">" -> IF e = ">" THEN Tok("2>>", 3)
                                   ELSE IF e = "&" /\ Nth(s, 4) = "1" THEN Tok("2>&1", 4) ELSE Tok("2>", 2)
          [] c = ">" -> IF d = ">" THEN Tok(">>", 2) ELSE Tok(">", 1)
          [] c = "<" -> Tok("<", 1)
          [] OTHER -> ScanWord(s)

\* lex_init, lex_peek and lex_consume: the parser sees the tokens one by one.
RECURSIVE Tokens(_)
Tokens(s) ==
    IF s # << >> /\ s[1] \in Blank THEN Tokens(Tail(s))
    ELSE LET t == lex_next(s)
         IN  IF t.type = "eof" THEN <<t>> ELSE <<t>> \o Tokens(From(s, t.n + 1))

---------------------------------------------------------------------------
(* parser: each function returns what it built and the tokens left *)

Peek(ts) == ts[1].type
Consume(ts) == IF Len(ts) = 1 THEN ts ELSE Tail(ts)   \* the end stays
Redirs == {"<", ">", ">>", "2>", "2>>", "2>&1"}
EndsCmd == {"eof", "newline", "|", "&&", "||", ";", "&", ")"}

\* Past MAX_REDIRS the sign is dropped and its file becomes an argument; past
\* MAX_ARGS, and at an opening parenthesis, the command ends where it is.
RECURSIVE parse_args(_, _)
parse_args(cmd, ts) ==
    LET t == Peek(ts)
        full == Len(cmd.redirs) >= MAX_REDIRS
        rest == Consume(ts)
    IN  CASE t \in EndsCmd -> [cmd |-> cmd, rest |-> ts]
          [] t \in Redirs /\ (full \/ t = "2>&1") ->
                parse_args([cmd EXCEPT !.redirs = IF full THEN @ ELSE Append(@, <<t, << >>>>)], rest)
          [] t \in Redirs /\ ~full /\ t # "2>&1" ->
                parse_args([cmd EXCEPT !.redirs = Append(@, <<t, rest[1].str>>)], Consume(rest))
          [] t = "word" /\ Len(cmd.argv) < MAX_ARGS - 1 -> parse_args([cmd EXCEPT !.argv = Append(@, ts[1].str)], rest)
          [] OTHER -> [cmd |-> cmd, rest |-> ts]

parse_simple_cmd(ts) == parse_args([argv |-> << >>, redirs |-> << >>], ts)

RECURSIVE parse_pipes(_, _)
parse_pipes(cmds, ts) ==
    IF Peek(ts) # "|" THEN [cmds |-> cmds, rest |-> ts]
    ELSE IF Len(cmds) >= MAX_CMDS THEN parse_pipes(cmds, Consume(ts))
    ELSE LET c == parse_simple_cmd(Consume(ts)) IN parse_pipes(Append(cmds, c.cmd), c.rest)

parse_pipeline(ts) ==
    LET c == parse_simple_cmd(ts)
        p == parse_pipes(<<c.cmd>>, c.rest)
        bg == Peek(p.rest) = "&"
    IN  [node |-> [type |-> "pipeline", cmds |-> p.cmds, background |-> bg],
         rest |-> IF bg THEN Consume(p.rest) ELSE p.rest]

Ops == {"&&", "||", ";", "newline"}

\* Mutant of parse_more: the right side of an operator is one pipeline.
RECURSIVE parse_more_left(_, _)
parse_more_left(left, ts) ==
    LET rest == Consume(ts) IN
    IF Peek(ts) \notin Ops THEN [node |-> left, rest |-> ts]
    ELSE IF Peek(rest) \in {"eof", ")"} THEN [node |-> left, rest |-> rest]
    ELSE LET r == parse_pipeline(rest)
         IN  parse_more_left([type |-> Peek(ts), left |-> left, right |-> r.node], r.rest)

\* The right side of an operator is all that follows it.
RECURSIVE parse_more(_, _), parse_expr(_)
parse_more(left, ts) ==
    LET rest == Consume(ts) IN
    IF Peek(ts) \notin Ops THEN [node |-> left, rest |-> ts]
    ELSE IF Peek(rest) \in {"eof", ")"} THEN [node |-> left, rest |-> rest]
    ELSE LET r == parse_expr(rest)
         IN  parse_more([type |-> Peek(ts), left |-> left, right |-> r.node], r.rest)
parse_expr(ts) ==
    IF Peek(ts) = "("
    THEN LET inner == parse_expr(Consume(ts))
             rest == IF Peek(inner.rest) = ")" THEN Consume(inner.rest) ELSE inner.rest
         IN  parse_more([type |-> "subshell", left |-> inner.node], rest)
    ELSE LET p == parse_pipeline(ts) IN parse_more(p.node, p.rest)

---------------------------------------------------------------------------
(* expansion *)

\* The library's environ is null when the program starts and crt0 leaves it so.
NoEnvironment == [name \in {} |-> << >>]
getenv(st, name) == IF name \in DOMAIN st.env THEN st.env[name] ELSE << >>

\* The entry of a name that is there is replaced; no entry is added.
putenv(st, name, value) == IF name \in DOMAIN st.env THEN [st EXCEPT !.env[name] = value] ELSE st
setenv(st, name, value) == IF name = << >> THEN st ELSE putenv(st, name, value)
unsetenv(st, name) == [st EXCEPT !.env = [n \in DOMAIN @ \ {name} |-> @[n]]]
NameLen(s) == Max({n \in 0 .. Len(s) : \A i \in 1 .. n : s[i] \in NameChars})

Special(st, c) == CASE c = "?" -> ToString(st.status) [] c = "$" -> "pid" [] c = "0" -> "nv0sh" [] c = "#" -> "0"

\* Backslashes are taken away here as well; quotes mean nothing.
RECURSIVE expand_vars(_, _)
expand_vars(st, s) ==
    LET d == Nth(s, 2)
        close == Min({i \in 3 .. Len(s) + 1 : Nth(s, i) \in {"}", "end"}})
        n == NameLen(From(s, 2))
    IN  CASE s = << >> -> << >>
          [] s # << >> /\ s[1] = "\\" /\ Len(s) > 1 -> <<d>> \o expand_vars(st, From(s, 3))
          [] s # << >> /\ s[1] = "$" /\ d = "{" -> getenv(st, SubSeq(s, 3, close - 1)) \o expand_vars(st, From(s, close + 1))
          [] s # << >> /\ s[1] = "$" /\ d \in {"?", "$", "0", "#"} -> <<Special(st, d)>> \o expand_vars(st, From(s, 3))
          [] s # << >> /\ s[1] = "$" /\ n > 0 -> getenv(st, SubSeq(s, 2, n + 1)) \o expand_vars(st, From(s, n + 2))
          [] OTHER -> <<s[1]>> \o expand_vars(st, Tail(s))

expand_tilde(st, word) ==
    IF word # << >> /\ word[1] = "~" /\ <<"HOME">> \in DOMAIN st.env THEN st.env[<<"HOME">>] \o Tail(word) ELSE word

\* Mutant of glob_match: a star takes at least one character.
RECURSIVE glob_match_plus(_, _)
glob_match_plus(pat, str) ==
    IF pat = << >> \/ str = << >> THEN str = << >> /\ \A i \in DOMAIN pat : pat[i] = "*"
    ELSE IF pat[1] = "*" THEN Tail(pat) = << >> \/ \E k \in 2 .. Len(str) : glob_match_plus(Tail(pat), From(str, k))
    ELSE pat[1] \in {"?", str[1]} /\ glob_match_plus(Tail(pat), Tail(str))

RECURSIVE glob_match(_, _)
glob_match(pat, str) ==
    IF pat = << >> \/ str = << >> THEN str = << >> /\ \A i \in DOMAIN pat : pat[i] = "*"
    ELSE IF pat[1] = "*" THEN Tail(pat) = << >> \/ \E k \in DOMAIN str : glob_match(Tail(pat), From(str, k))
    ELSE pat[1] \in {"?", str[1]} /\ glob_match(Tail(pat), Tail(str))

\* A word without a slash is matched against the current directory.
glob_expand(word) ==
    SelectSeq(Directory, LAMBDA name : (name[1] = "." => word[1] = ".") /\ glob_match(word, name))

\* A word that matches several names becomes the first of them.
expand_argv(st, argv) ==
    [i \in DOMAIN argv |->
        LET word == expand_vars(st, expand_tilde(st, argv[i]))
            found == IF {"*", "?"} \intersect Range(word) # {} THEN glob_expand(word) ELSE << >>
        IN  IF found = << >> THEN word ELSE found[1]]

---------------------------------------------------------------------------
(* builtins that change the shell *)

Builtins == {<<b>> : b \in {"true", "false", "export", "unset", "alias", "unalias"}}
Returns(st, ret) == [st EXCEPT !.ret = ret]
Eq(word) == Min({i \in 1 .. Len(word) + 1 : Nth(word, i) \in {"=", "end"}})
NameOf(word) == SubSeq(word, 1, Eq(word) - 1)
ValueOf(word) == From(word, Eq(word) + 1)

builtin_export(st, args) ==
    FoldLeft(LAMBDA a, w : IF Eq(w) > Len(w) THEN a ELSE setenv(a, NameOf(w), ValueOf(w)), st, args)

builtin_unset(st, args) == FoldLeft(unsetenv, st, args)

\* An alias that exists is replaced, and the arguments after it are not looked at.
builtin_alias(st, args) ==
    FoldLeft(LAMBDA a, w :
                LET known == {i \in DOMAIN a.st.aliases : a.st.aliases[i].name = NameOf(w)} IN
                IF a.done \/ Eq(w) > Len(w) THEN a
                ELSE IF known # {} THEN [done |-> TRUE, st |-> [a.st EXCEPT !.aliases[Min(known)].value = ValueOf(w)]]
                ELSE IF Len(a.st.aliases) >= MAX_ALIASES THEN a
                ELSE [a EXCEPT !.st.aliases = Append(@, [name |-> NameOf(w), value |-> ValueOf(w)])],
             [done |-> FALSE, st |-> st], args).st

builtin_unalias(st, args) ==
    [st EXCEPT !.aliases = SelectSeq(@, LAMBDA a : a.name \notin Range(args))]

run_builtin(st, argv) ==
    LET name == argv[1][1]
        args == Tail(argv)
    IN  CASE name = "true" -> Returns(st, 0)
          [] name = "false" -> Returns(st, 1)
          [] name = "export" -> Returns(builtin_export(st, args), 0)
          [] name = "unset" -> Returns(builtin_unset(st, args), 0)
          [] name = "alias" -> Returns(builtin_alias(st, args), 0)
          [] name = "unalias" -> Returns(builtin_unalias(st, args), 0)

---------------------------------------------------------------------------
(* jobs *)

\* Whatever it is, the job is entered as running, and no caller changes that.
job_add(st, pgid) ==
    IF Len(st.jobs) >= MAX_JOBS THEN st
    ELSE [st EXCEPT !.jobs = Append(@, [id |-> st.next_id, pgid |-> pgid]), !.next_id = @ + 1]

\* waitpid(-1): the kernel looks for a process of that number and finds none, so
\* the loop never runs; nothing is reaped and no job leaves the table.
job_reap_all ==
    /\ sh.phase = "prompt"
    /\ sh' = [sh EXCEPT !.phase = "reading"]
    /\ UNCHANGED <<line, typed>>

---------------------------------------------------------------------------
(* execution; w says what each program does, and what a status word that   *)
(* nobody set holds (w.garbage)                                            *)

\* Without waiting, and whatever the options: a process that has ended is reaped
\* and its exit code is the status word; otherwise word stays as it is.
waitpid(st, pid, word) ==
    IF pid \in DOMAIN st.kids /\ st.kids[pid] # Running
    THEN [st |-> [st EXCEPT !.kids = [p \in DOMAIN @ \ {pid} |-> @[p]]], word |-> st.kids[pid]]
    ELSE [st |-> st, word |-> word]

\* The library's macros, which expect the code in the second byte.
WIFEXITED(word) == word % 128 = 0
WEXITSTATUS(word) == (word \div 256) % 256
WIFSTOPPED(word) == word % 256 = 127

\* Mutant of StatusOf: what did not exit has status 0.
StatusOf_zero(word) == IF WIFEXITED(word) THEN WEXITSTATUS(word) ELSE 0

StatusOf(word) == IF WIFEXITED(word) THEN WEXITSTATUS(word) ELSE 1

\* A builtin runs in the shell; the descriptors it was given are put back.  The
\* result is a builtin's status or a process number, and 1 when fork fails.
exec_simple(cmd, st, w) ==
    LET argv == expand_argv(st, cmd.argv)
        does == IF argv[1] \in DOMAIN w THEN w[argv[1]] ELSE 127
    IN  IF cmd.argv = << >> THEN Returns(st, 0)
        ELSE IF argv[1] \in Builtins THEN LET s == run_builtin(st, argv) IN [s EXCEPT !.status = s.ret]
        ELSE IF does = NoFork THEN Returns(st, 1)
        ELSE [st EXCEPT !.ret = st.nextpid, !.nextpid = @ + 1,
                        !.kids = [p \in DOMAIN @ \union {st.nextpid} |-> IF p = st.nextpid THEN does ELSE @[p]]]

\* Histories.  told: the codes of single commands that were waited for, and what the
\* shell made of each; misread: the processes whose status word said that they stopped.
Told(s, pid, ret) == IF pid \in DOMAIN s.kids THEN Append(s.told, <<s.kids[pid], ret>>) ELSE s.told

\* Status 1 of a builtin, and of a failed fork, is taken for a process.
exec_single_waits(pl, s, w) ==
    LET pid == s.ret
        t == waitpid(s, pid, w[<<"garbage">>])
        ret == IF WIFSTOPPED(t.word) THEN 0 ELSE StatusOf(t.word)
        heard == [t.st EXCEPT !.told = Told(s, pid, ret)]
    IN  CASE pl.background -> Returns(job_add(s, pid), 0)
          [] ~pl.background /\ pid > 0 /\ WIFSTOPPED(t.word) -> Returns(job_add([heard EXCEPT !.misread = @ \union {pid}], pid), 0)
          [] ~pl.background /\ pid > 0 /\ ~WIFSTOPPED(t.word) -> [heard EXCEPT !.status = ret, !.ret = ret]
          [] OTHER -> [s EXCEPT !.status = pid]

exec_single(pl, st, w) == exec_single_waits(pl, exec_simple(pl.cmds[1], st, w), w)

\* The status is that of the last process that has ended, and 0 if none has.
exec_pipeline_waits(pl, all) ==
    LET t == FoldLeft(LAMBDA a, pid : waitpid(a.st, pid, a.word), [st |-> all.st, word |-> 0], all.pids)
    IN  IF pl.background THEN Returns(job_add(all.st, all.pids[1]), 0)
        ELSE [t.st EXCEPT !.status = StatusOf(t.word), !.ret = StatusOf(t.word)]

Begun(s, pids) == [st |-> s, pids |-> Append(pids, s.ret)]

exec_pipeline(pl, st, w) ==
    IF Len(pl.cmds) = 1 THEN exec_single(pl, st, w)
    ELSE exec_pipeline_waits(pl,
            FoldLeft(LAMBDA a, c : Begun(exec_simple(c, a.st, w), a.pids), [st |-> st, pids |-> << >>], pl.cmds))

Ran(s) == [s EXCEPT !.ran = Append(@, s.ret)]

\* The subshell is a copy with processes of its own: its exit code comes back if it
\* has ended when it is waited for (w.subshell), and not into $?.  Without a fork
\* the shell waits for process -1.
Subshell(st, l, w) ==
    LET does == IF w[<<"subshell">>] = 0 THEN l.status ELSE w[<<"subshell">>]
        pid == l.nextpid
        born == [st EXCEPT !.nextpid = pid + 1, !.ran = l.ran,
                           !.kids = [p \in DOMAIN @ \union {pid} |-> IF p = pid THEN does ELSE @[p]]]
        t == waitpid(IF does = NoFork THEN st ELSE born, IF does = NoFork THEN -1 ELSE pid, w[<<"garbage">>])
    IN  Returns(t.st, StatusOf(t.word))

RECURSIVE exec_node(_, _, _)
exec_node(node, st, w) ==
    LET l == exec_node(node.left, st, w) IN
    CASE node.type = "pipeline" -> Ran(exec_pipeline(node, st, w))
      [] node.type = "&&" -> IF l.ret = 0 THEN exec_node(node.right, l, w) ELSE Returns(l, l.status)
      [] node.type = "||" -> IF l.ret # 0 THEN exec_node(node.right, l, w) ELSE Returns(l, l.status)
      [] node.type \in {";", "newline"} -> exec_node(node.right, l, w)
      [] node.type = "subshell" -> Subshell(st, l, w)

\* Variables are expanded before the line is cut into tokens.
execute(text, w) ==
    LET src == expand_vars(sh, text) IN
    /\ sh.phase = "reading" /\ typed < MaxLinesTyped
    /\ line' = Tokens(src)
    /\ sh' = [(IF src = << >> THEN sh ELSE exec_node(parse_expr(Tokens(src)).node, [sh EXCEPT !.ran = << >>, !.told = << >>], w))
                 EXCEPT !.phase = "prompt"]
    /\ typed' = typed + 1

\* A process that runs ends.
KidEnds(pid, code) ==
    /\ sh.kids[pid] = Running
    /\ sh' = [sh EXCEPT !.kids[pid] = code]
    /\ UNCHANGED <<line, typed>>

ShellInit ==
    /\ sh = [phase |-> "prompt", status |-> 0, ret |-> 0, env |-> NoEnvironment, aliases |-> << >>,
             jobs |-> << >>, next_id |-> 1, nextpid |-> 2, kids |-> << >>, ran |-> << >>, told |-> << >>, misread |-> {}]
    /\ line = << >> /\ typed = 0

ShellNext ==
    \/ job_reap_all
    \/ \E text \in ShellLines, w \in Programs : execute(text, w)
    \/ \E pid \in DOMAIN sh.kids, code \in {0, 1} : KidEnds(pid, code)

---------------------------------------------------------------------------
(* Without parentheses, the pipelines of a line and the operators between them. *)
RECURSIVE OpsOf(_)
OpsOf(ts) ==
    LET k == Min({i \in DOMAIN ts : ts[i].type \in Ops \union {"eof"} \/ (i > 1 /\ ts[i - 1].type = "&")}) IN
    IF ts[k].type \in Ops /\ Peek(From(ts, k + 1)) # "eof" THEN <<ts[k].type>> \o OpsOf(From(ts, k + 1)) ELSE << >>
Goes(op, ret) == op \in {";", "newline"} \/ (op = "&&" /\ ret = 0) \/ (op = "||" /\ ret # 0)

\* A line is executed from left to right and stops for good at the first operator
\* that says no: parse_expr takes all that follows an operator as its right side, so
\* in "a && b ; c" a failing a skips c as well.
ListStops ==
    line # << >> /\ sh.ran # << >> /\ (\A i \in DOMAIN line : line[i].type \notin {"(", ")"}) =>
        LET ops == OpsOf(line)
            stops == {i \in DOMAIN ops : ~Goes(ops[i], sh.ran[Min({i, Len(sh.ran)})])}
        IN  Len(sh.ran) = IF stops = {} THEN Len(ops) + 1 ELSE Min(stops)

\* The table of jobs only grows: job_reap_all hears of no process, so a job that is
\* over stays in it.  Its numbers are those from 1 on.  A job is a process not reaped
\* (0 or 1 after a builtin, or a failed fork, in the background), or one whose status
\* word said that it stopped, that is a code that is 127 modulo 256 or a word nobody set.
\* An alias has one value.
JobsTracked ==
    /\ Len(sh.jobs) <= MAX_JOBS
    /\ \A i \in DOMAIN sh.jobs : sh.jobs[i].id = i
    /\ \A i \in DOMAIN sh.jobs : sh.jobs[i].pgid \in DOMAIN sh.kids \union {0, 1} \union sh.misread
    /\ \A i, j \in DOMAIN sh.aliases : sh.aliases[i].name = sh.aliases[j].name => i = j

\* && and || go by what a program did: it is taken to have succeeded if and only if
\* it ended with code 0, provided that it had ended when it was waited for (waitpid
\* does not wait) and its code is neither 127 modulo 256, which reads as stopped, nor
\* another multiple of 128, which reads as an exit with the code in its second byte.
SuccessIsTold ==
    \A i \in DOMAIN sh.told :
        LET code == sh.told[i][1]
            ret == sh.told[i][2]
        IN  code # Running /\ code % 256 # 127 /\ (code = 0 \/ code % 128 # 0) => (ret = 0) = (code = 0)

\* glob_match against the definition: the pattern's characters can be laid over
\* the name from left to right, a star over any stretch of it.
GlobExact(pats, strs) ==
    \A p \in pats, s \in strs :
        glob_match(p, s) = \E f \in [0 .. Len(p) -> 0 .. Len(s)] :
            /\ f[0] = 0 /\ f[Len(p)] = Len(s)
            /\ \A i \in DOMAIN p : IF p[i] = "*" THEN f[i - 1] <= f[i]
                                   ELSE f[i] = f[i - 1] + 1 /\ p[i] \in {"?", s[f[i]]}

\* A text between single quotes is one word, and the word is that text, whatever
\* operators, blanks and double quotes it holds (lex_next).
QuotingGroups(texts) ==
    \A t \in texts : LET ts == Tokens(<<"'">> \o t \o <<"'">>)
                     IN  Len(ts) = 2 /\ ts[1].type = "word" /\ ts[1].str = t

-------------------------------------------------------------------------------
(***************************************************************************)
(* The shell's line editor and its history (userland/shell/readline.c),    *)
(* on a terminal.  One action is one key: handle_escape reads a whole      *)
(* escape sequence at once.  The sequences ESC [ 1 ~ and ESC [ 4 ~ are     *)
(* taken as far as the digit, so that the "~" arrives as a key of its own. *)
(* Lines read from the history file go through readline_history_add like   *)
(* lines that were typed; no code writes that file.                        *)
(***************************************************************************)

CONSTANTS
    EditKeys,        \* characters that can be typed
    HistoryFile,     \* the lines of ~/.nv0sh_history
    MAX_LINE, MAX_HISTORY,
    MaxKeys          \* bound on the keys typed

VARIABLES
    rl,          \* linebuf, linepos, history and hpos
    onScreen,    \* what refresh_line wrote last: the text and where the cursor is
    entered,     \* history: every line given to readline_history_add
    keyed        \* keys so far

readlineVars == <<rl, onScreen, entered, keyed>>

\* The unused rest of the array is not looked at: hpos <= hcount.
readline_history_add(h, text) ==
    IF text = << >> \/ (h # << >> /\ Last(h) = text) THEN h
    ELSE Append(IF Len(h) >= MAX_HISTORY THEN Tail(h) ELSE h, text)

readline_history_load == FoldLeft(LAMBDA h, text : readline_history_add(h, text), << >>, HistoryFile)

refresh_line(r) == onScreen' = [text |-> r.buf, pos |-> r.pos]

Cut1(buf, i) == SubSeq(buf, 1, i - 1) \o SubSeq(buf, i + 1, Len(buf))
Recall(r, h) == IF h = Len(r.history) THEN [r EXCEPT !.hpos = h, !.buf = << >>, !.pos = 0, !.untouched = TRUE]
                ELSE [r EXCEPT !.hpos = h, !.buf = r.history[h + 1], !.pos = Len(r.history[h + 1]), !.untouched = TRUE]

\* Mutant of handle_escape: the way down ends at the newest line.
handle_escape_sticks(seq) ==
    CASE seq = "A" -> IF rl.hpos > 0 THEN Recall(rl, rl.hpos - 1) ELSE rl
      [] seq = "B" -> IF rl.hpos < Len(rl.history) - 1 THEN Recall(rl, rl.hpos + 1) ELSE [rl EXCEPT !.hpos = Len(rl.history)]
      [] OTHER -> rl

\* untouched is a history: the line is as it was recalled.
handle_escape(seq) ==
    CASE seq = "A" -> IF rl.hpos > 0 THEN Recall(rl, rl.hpos - 1) ELSE rl
      [] seq = "B" -> IF rl.hpos < Len(rl.history) THEN Recall(rl, rl.hpos + 1) ELSE rl
      [] seq = "C" -> IF rl.pos < Len(rl.buf) THEN [rl EXCEPT !.pos = @ + 1] ELSE rl
      [] seq = "D" -> IF rl.pos > 0 THEN [rl EXCEPT !.pos = @ - 1] ELSE rl
      [] seq \in {"H", "1"} -> [rl EXCEPT !.pos = 0]
      [] seq \in {"F", "4"} -> [rl EXCEPT !.pos = Len(rl.buf)]
      [] seq = "3~" /\ rl.pos < Len(rl.buf) -> [rl EXCEPT !.buf = Cut1(@, rl.pos + 1), !.untouched = FALSE]
      [] OTHER -> rl
EscapeSeqs == {"A", "B", "C", "D", "H", "F", "1", "4", "3~"}

\* readline_read starts a line ...
readline_start(history) ==
    [buf |-> << >>, pos |-> 0, history |-> history, hpos |-> Len(history), untouched |-> TRUE]

Typing(r) == rl' = r /\ refresh_line(r) /\ keyed' = keyed + 1 /\ UNCHANGED entered

\* ... and each key changes it.
Escape == \E seq \in EscapeSeqs : Typing(handle_escape(seq))
Insert ==
    \E c \in EditKeys :
        /\ Len(rl.buf) < MAX_LINE - 1
        /\ Typing([rl EXCEPT !.buf = SubSeq(@, 1, rl.pos) \o <<c>> \o SubSeq(@, rl.pos + 1, Len(@)), !.pos = @ + 1,
                             !.untouched = FALSE])
Backspace ==
    /\ rl.pos > 0
    /\ Typing([rl EXCEPT !.buf = Cut1(@, rl.pos), !.pos = @ - 1, !.untouched = FALSE])
\* ^W: the blanks before the cursor, then what is before them up to a blank.
KillWord ==
    LET word == Max({0} \union {i \in 1 .. rl.pos : rl.buf[i] # " "})
        from == Max({0} \union {i \in 1 .. word : rl.buf[i] = " "})
    IN  Typing([rl EXCEPT !.buf = SubSeq(@, 1, from) \o SubSeq(@, rl.pos + 1, Len(@)), !.pos = from, !.untouched = FALSE])
LineStart == Typing([rl EXCEPT !.pos = 0])          \* ^A
LineEnd == Typing([rl EXCEPT !.pos = Len(rl.buf)])  \* ^E
\* ^C: the place in the history stays.
Interrupt == Typing([rl EXCEPT !.buf = << >>, !.pos = 0, !.untouched = (rl.hpos = Len(rl.history))])

\* Return: repl adds the line and, once it is executed, reads the next one.
Return ==
    LET h == readline_history_add(rl.history, rl.buf) IN
    /\ entered' = IF rl.buf = << >> THEN entered ELSE Append(entered, rl.buf)
    /\ rl' = readline_start(h)
    /\ refresh_line(readline_start(h)) /\ keyed' = keyed + 1

ReadlineInit ==
    /\ rl = readline_start(readline_history_load)
    /\ onScreen = [text |-> << >>, pos |-> 0] /\ entered = HistoryFile /\ keyed = 0
ReadlineNext ==
    /\ keyed < MaxKeys
    /\ \/ Escape \/ Insert \/ Backspace \/ KillWord
       \/ LineStart \/ LineEnd \/ Interrupt \/ Return

\* The history is the newest MAX_HISTORY of the lines entered, a line that repeats
\* the one before it left out; the cursor is in the line; a line that was recalled
\* and not edited is the history's line at hpos (empty below the newest); and the
\* screen shows the line and the cursor as they are.
ReadlineSound ==
    LET lines == SelectSeq(entered, LAMBDA l : l # << >>)
        news == SelectSeq([i \in DOMAIN lines |-> <<i, lines[i]>>], LAMBDA e : e[1] = 1 \/ lines[e[1] - 1] # e[2])
        kept == SubSeq(news, Max({1, Len(news) - MAX_HISTORY + 1}), Len(news))
    IN  /\ rl.history = [i \in DOMAIN kept |-> kept[i][2]]
        /\ rl.hpos \in 0 .. Len(rl.history) /\ rl.pos \in 0 .. Len(rl.buf) /\ Len(rl.buf) < MAX_LINE
        /\ rl.untouched => rl.buf = IF rl.hpos = Len(rl.history) THEN << >> ELSE rl.history[rl.hpos + 1]
        /\ onScreen = [text |-> rl.buf, pos |-> rl.pos]
===============================================================================
