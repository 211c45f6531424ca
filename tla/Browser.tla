------------------------------- MODULE Browser --------------------------------
(* The browser: fetching a page, and the window it is shown in.              *)
EXTENDS Integers, Sequences, FiniteSets, SequencesExt, FiniteSetsExt

-------------------------------------------------------------------------------
(***************************************************************************)
(* The browser's HTTP client (apps/browser/http_client.c): URLs, headers,  *)
(* the request, the response and the redirections it follows.  The file    *)
(* has two builds.  The hosted one has the sockets of POSIX: a connection  *)
(* carries any number of bytes at a time, may end at any point, and may    *)
(* fall silent, for no code reads timeout_ms.  The kernel's one, which the *)
(* Makefile makes, reads, writes and closes the number of a kernel socket  *)
(* as a file descriptor, of a table that all programs share.  Text is a    *)
(* sequence of characters without NUL, where a scheme, a status line or a  *)
(* header line counts as one character.  Running out of memory and lines   *)
(* beyond the fixed buffers are left out.                                  *)
(***************************************************************************)

CONSTANTS
    StartUrls,       \* the URLs a fetch starts from
    Pages,           \* url -> what its server answers: code, location, chunked, body (a sequence of pieces)
    MAX_REDIRECTS,   \* max_redirects
    MaxPiece,        \* most characters one read or write moves
    SizeMod,         \* 2^64, the sizes of size_t
    NumericHosts,    \* the hosts the kernel's build takes: addresses and localhost
    SOCKET_MAX,
    OpenTables,      \* the descriptors that programs may have open: sets of numbers
    MaxFetches       \* bound on the fetches of the kernel's build

ASSUME BrowserConstants == SizeMod \in Nat \ {0} /\ SOCKET_MAX \in Nat

VARIABLES
    http,        \* do_request: phase, method, url, redirect_count, bytes sent and received, the response, fd
    kernel,      \* the kernel's build: sockets made, descriptors open; table, files (history): those open
                 \* at first, those the client wrote to
    wire,        \* the server's answer to the request being served
    requested,       \* history: the requests sent completely, in order
    lost         \* history: the last connection ended before the whole answer

httpVars == <<http, kernel, wire, requested, lost>>

----------------------------------------------------------------------------
(* URLs.                                                                     *)

NoPart == <<"absent">>
Digits == {"0", "1", "2", "3", "4", "5", "6", "7", "8", "9"}
DigitOf(c) == CHOOSE d \in 0..9 : ToString(d) = c

\* strchr: where c first occurs, or one past the end.
Find(s, c) == Min({i \in 1..Len(s) : s[i] = c} \union {Len(s) + 1})
Upto(s, i) == SubSeq(s, 1, i - 1)
After(s, i) == SubSeq(s, i + 1, Len(s))
\* atoi
atoi(s) == LET n == Min({i \in 1..Len(s) : s[i] \notin Digits} \union {Len(s) + 1})
           IN  FoldLeft(LAMBDA v, c : 10 * v + DigitOf(c), 0, Upto(s, n))

\* The fragment is looked for in the query when there is one, else in the path.
http_url_parse(raw) ==
    LET tls == raw # << >> /\ raw[1] = "https://"
        rest == IF raw # << >> /\ raw[1] \in {"http://", "https://"} THEN Tail(raw) ELSE raw
        slash == Find(rest, "/")
        authority == Upto(rest, slash)
        colon == Find(authority, ":")
        path == IF slash > Len(rest) THEN <<"/">> ELSE SubSeq(rest, slash, Len(rest))
        mark == Find(path, "?")
        query == After(path, mark)
        inQuery == mark <= Len(path)
        hash == IF inQuery THEN Find(query, "#") ELSE Find(path, "#")
    IN  [tls |-> tls, host |-> Upto(authority, colon),
         port |-> IF colon <= Len(authority) THEN atoi(After(authority, colon)) ELSE IF tls THEN 443 ELSE 80,
         path |-> IF inQuery THEN Upto(path, mark) ELSE Upto(path, hash),
         query |-> IF inQuery THEN Upto(query, hash) ELSE NoPart,
         fragment |-> IF inQuery THEN IF hash <= Len(query) THEN After(query, hash) ELSE NoPart
                      ELSE IF hash <= Len(path) THEN After(path, hash) ELSE NoPart]

Written(n) == IF n < 10 THEN <<ToString(n)>> ELSE <<ToString(n \div 10), ToString(n % 10)>>
\* Mutant of http_url_to_string: the fragment is left out.
http_url_to_string_bare(u) ==
    <<IF u.tls THEN "https://" ELSE "http://">> \o u.host
        \o (IF u.port \in {80, 443} THEN << >> ELSE <<":">> \o Written(u.port)) \o u.path
        \o (IF u.query = NoPart THEN << >> ELSE <<"?">> \o u.query)

\* Ports here have at most two digits but for 443.
http_url_to_string(u) ==
    <<IF u.tls THEN "https://" ELSE "http://">> \o u.host
        \o (IF u.port \in {80, 443} THEN << >> ELSE <<":">> \o Written(u.port)) \o u.path
        \o (IF u.query = NoPart THEN << >> ELSE <<"?">> \o u.query)
        \o (IF u.fragment = NoPart THEN << >> ELSE <<"#">> \o u.fragment)

----------------------------------------------------------------------------
(* Headers and the request.                                                  *)

\* A name that is already there gets the new value in its place.
http_headers_set(h, name, value) ==
    LET at == {i \in 1..Len(h) : h[i].name = name}
    IN  IF at # {} THEN [h EXCEPT ![Min(at)].value = value] ELSE Append(h, [name |-> name, value |-> value])
http_headers_get(h, name) ==
    LET at == {i \in 1..Len(h) : h[i].name = name}
    IN  IF at = {} THEN NoPart ELSE h[Min(at)].value

\* Four headers with different names; their lines are one character each, as are
\* the method and the version.
http_request_new(u) ==
    <<[name |-> "host", value |-> u.host], [name |-> "user-agent", value |-> <<"nv0ken/1.0">>],
      [name |-> "accept", value |-> <<"*/*">>], [name |-> "connection", value |-> <<"close">>]>>
build_request_line(method, u) ==
    <<method>> \o u.path \o (IF u.query = NoPart THEN << >> ELSE <<"?">> \o u.query)
http_request_serialize(method, u) ==
    LET h == http_request_new(u)
    IN  build_request_line(method, u) \o [i \in 1..Len(h) |-> h[i].name] \o <<"\r\n">>

----------------------------------------------------------------------------
(* The response, a sequence of what a server sends: status and header lines  *)
(* without their line break, line breaks, and bytes.                         *)

CRLF == [crlf |-> TRUE]
Status(code) == [status |-> code]
Location(url) == [location |-> url]
Chunked == [coding |-> "chunked"]
Byte(c) == [byte |-> c]

parse_status_line(c) == IF DOMAIN c = {"status"} /\ c.status \in 100..599 THEN c.status ELSE -1
\* A line without a colon is passed over.
parse_header_line(c) ==
    CASE DOMAIN c = {"location"} -> [name |-> "location", value |-> c.location]
      [] DOMAIN c = {"coding"} -> [name |-> "transfer-encoding", value |-> <<c.coding>>]
      [] OTHER -> [name |-> "", value |-> NoPart]

\* Headers end at an empty line; at a line without its break, what is left is the body.
ParsedHeaders(raw) ==
    LET ends == {i \in 2..Len(raw) : raw[i] = CRLF}
        empty == {i \in ends : raw[i - 1] = CRLF}
        body == IF empty # {} THEN Min(empty) + 1 ELSE Max(ends) + 1
        lines == SelectSeq(SubSeq(raw, 3, body - 1), LAMBDA c : c # CRLF /\ parse_header_line(c).name # "")
    IN  [headers |-> FoldLeft(LAMBDA h, c : http_headers_set(h, parse_header_line(c).name, parse_header_line(c).value),
                              << >>, lines),
         body |-> SubSeq(raw, body, Len(raw))]

parse_response(raw) ==
    IF Len(raw) < 2 \/ raw[2] # CRLF \/ parse_status_line(raw[1]) = -1
    THEN [error |-> "invalid response", code |-> 0, headers |-> << >>, body |-> << >>]
    ELSE [error |-> "ok", code |-> parse_status_line(raw[1]),
          headers |-> ParsedHeaders(raw).headers, body |-> ParsedHeaders(raw).body]

\* A size, a line break, that many bytes, a line break.  A size is one byte here;
\* what is no number reads as 0, and a number below 0 as one from the top.
strtoul(c) == IF c = Byte("-1") THEN SizeMod - 1
              ELSE IF DOMAIN c = {"byte"} /\ c.byte \in Digits THEN DigitOf(c.byte) ELSE 0

\* Where pos + chunk_size wraps, memcpy runs far past both buffers.
Overrun == Byte("overrun")

\* Mutant of decode_chunked: the break after a chunk is not passed over.
decode_chunked_tight(body) ==
    LET from[pos \in 1..(Len(body) + 2)] ==
            LET crlf == Min({k \in pos..Len(body) : body[k] = CRLF} \union {Len(body) + 1})
                size == strtoul(body[pos])
            IN  IF crlf > Len(body) \/ size = 0 \/ (crlf + size) % SizeMod > Len(body) THEN << >>
                ELSE IF size > Len(body) THEN <<Overrun>>
                ELSE SubSeq(body, crlf + 1, crlf + size) \o from[crlf + size + 1]
    IN  from[1]

decode_chunked(body) ==
    LET from[pos \in 1..(Len(body) + 2)] ==
            LET crlf == Min({k \in pos..Len(body) : body[k] = CRLF} \union {Len(body) + 1})
                size == strtoul(body[pos])
            IN  IF crlf > Len(body) \/ size = 0 \/ (crlf + size) % SizeMod > Len(body) THEN << >>
                ELSE IF size > Len(body) THEN <<Overrun>>
                ELSE SubSeq(body, crlf + 1, crlf + size) \o from[crlf + size + 2]
    IN  from[1]

Decoded(res) ==
    IF http_headers_get(res.headers, "transfer-encoding") = <<"chunked">>
    THEN [res EXCEPT !.body = decode_chunked(res.body)] ELSE res

----------------------------------------------------------------------------
(* do_request, on a connection to a server that answers as Pages says.       *)

Joined(pieces) == FoldLeft(LAMBDA a, p : a \o p, << >>, pieces)

\* What the server of a page puts on the wire; top: the last size reads as the
\* largest of size_t.
Response(page) ==
    LET Framed(piece) == <<Byte(ToString(Len(piece))), CRLF>> \o piece \o <<CRLF>>
    IN  <<Status(page.code), CRLF>>
        \o (IF page.location = NoPart THEN << >> ELSE <<Location(page.location), CRLF>>)
        \o (IF page.chunked THEN <<Chunked, CRLF>> ELSE << >>) \o <<CRLF>>
        \o (IF page.chunked THEN Joined([i \in 1..Len(page.body) |-> Framed(page.body[i])]) 
                                    \o <<Byte(IF page.top THEN "-1" ELSE "0"), CRLF, CRLF>>
            ELSE Joined(page.body))

Request(method, url, redirects) ==
    [phase |-> "connect", method |-> method, url |-> url, u |-> http_url_parse(url), redirects |-> redirects,
     sent |-> 0, got |-> << >>, error |-> "ok", code |-> 0, body |-> << >>, final |-> NoPart, fd |-> -1]

Fail(error) == http' = [http EXCEPT !.phase = "done", !.error = error, !.final = IF http.redirects = 0 THEN NoPart
                                                                               ELSE http_url_to_string(http.u)]

\* A TLS address is refused before any connection is made.
TlsRefused ==
    /\ http.phase = "connect" /\ http.u.tls
    /\ Fail("tls not supported")
    /\ UNCHANGED <<kernel, wire, requested, lost>>

Finished(res) == [http EXCEPT !.phase = "done", !.error = res.error, !.code = res.code, !.body = res.body,
                              !.final = http_url_to_string(http.u)]

\* Mutant of do_request: one redirection too many is neither followed nor given up.
do_request_endless(got, method) ==
    \E parsed \in {parse_response(got)} : \E res \in {Decoded(parsed)} :
        LET to == http_headers_get(res.headers, "location")
        IN  IF res.code \in {301, 302, 303, 307, 308} /\ to # NoPart
            THEN http' = IF http.redirects < MAX_REDIRECTS THEN Request(method, to, http.redirects + 1) ELSE http
            ELSE http' = Finished(res)

\* What was received is read.  The status is taken from a response that has been
\* freed: a POST is sent on as either method after a 303.
do_request(got, method) ==
    \E parsed \in {parse_response(got)} : \E res \in {Decoded(parsed)} :
        LET to == http_headers_get(res.headers, "location")
        IN  IF res.code \in {301, 302, 303, 307, 308} /\ http.redirects < MAX_REDIRECTS /\ to # NoPart
            THEN http' = Request(method, to, http.redirects + 1) ELSE http' = Finished(res)
Methods == {http.method, "GET"}

(* The hosted build.                                                         *)
Hosted(phase) == ~kernel.on /\ http.phase = phase /\ UNCHANGED kernel

tcp_connect ==
    /\ Hosted("connect") /\ ~http.u.tls
    /\ Fail("connection failed") \/ http' = [http EXCEPT !.phase = "send"]
    /\ UNCHANGED <<wire, requested, lost>>

\* One write moves any number of bytes; the server answers when it has them all.
tcp_send ==
    /\ Hosted("send")
    /\ \E all \in {http_request_serialize(http.method, http.u)} :
          \/ Fail("send failed") /\ UNCHANGED <<wire, requested>>
          \/ \E n \in 1..Min({MaxPiece, Len(all) - http.sent}) :
                IF http.sent + n < Len(all)
                THEN http' = [http EXCEPT !.sent = @ + n] /\ UNCHANGED <<wire, requested>>
                ELSE /\ http' = [http EXCEPT !.sent = @ + n, !.phase = "receive"]
                     /\ wire' = Response(Pages[http.url])
                     /\ requested' = Append(requested, <<http.method, http.url>>)
    /\ UNCHANGED lost

recv_all ==
    /\ Hosted("receive") /\ wire # << >>
    /\ \E n \in 1..Min({MaxPiece, Len(wire)}) :
          /\ http' = [http EXCEPT !.got = @ \o SubSeq(wire, 1, n)]
          /\ wire' = SubSeq(wire, n + 1, Len(wire))
    /\ UNCHANGED <<requested, lost>>

\* The connection ends: with the answer, or before.
tcp_close ==
    /\ Hosted("receive")
    /\ \E method \in Methods : do_request(http.got, method)
    /\ lost' = (wire # << >>)
    /\ wire' = << >> /\ UNCHANGED requested

\* The other side falls silent, and the call under way does not return.
peer_silent ==
    /\ \E phase \in {"connect", "send", "receive"} : Hosted(phase)
    /\ http' = [http EXCEPT !.phase = "blocked"]
    /\ UNCHANGED <<wire, requested, lost>>

(* The kernel's build.                                                       *)
InKernel(phase) == kernel.on /\ http.phase = phase /\ UNCHANGED <<wire, requested, lost>>

\* Sockets are handed out from 0 and never given back.
sys_socket ==
    /\ InKernel("connect") /\ ~http.u.tls
    /\ IF http.u.host \notin NumericHosts \/ kernel.sockets = SOCKET_MAX
       THEN Fail("connection failed") /\ UNCHANGED kernel
       ELSE /\ http' = [http EXCEPT !.phase = "send", !.fd = kernel.sockets]
            /\ kernel' = [kernel EXCEPT !.sockets = @ + 1]

\* Descriptors 1 and 2 are the console; another one has to be open, and what it
\* stands for may refuse the text or a part of it.
sys_write ==
    LET fd == http.fd IN
    /\ InKernel("send")
    /\ \/ fd \in kernel.open \union {1, 2} /\ http' = [http EXCEPT !.phase = "receive"]
       \/ fd \notin {1, 2} /\ Fail("send failed")
    /\ kernel' = [kernel EXCEPT !.files = IF fd \notin {1, 2} /\ fd \in kernel.open THEN @ \union {fd} ELSE @,
                                !.open = IF http'.phase = "done" THEN @ \ {fd} ELSE @]

\* Descriptor 0 is the keyboard, whose reads wait and never report an end.  An open
\* file is read from behind the request to its end; then the descriptor is closed.
sys_read ==
    LET fd == http.fd
        rests == {<< >>} \union (IF fd \in kernel.open THEN {Response(Pages[url]) : url \in StartUrls} ELSE {})
    IN  /\ InKernel("receive")
        /\ IF fd = 0 THEN http' = [http EXCEPT !.phase = "blocked"] /\ UNCHANGED kernel
           ELSE /\ \E got \in rests, method \in Methods : do_request(got, method)
                /\ kernel' = [kernel EXCEPT !.open = @ \ {fd}]

\* Another fetch of the same program.
NextFetch ==
    /\ InKernel("done") /\ kernel.fetches < MaxFetches
    /\ \E url \in StartUrls : http' = Request("GET", url, 0)
    /\ kernel' = [kernel EXCEPT !.fetches = @ + 1]

HttpInit ==
    /\ \E url \in StartUrls, method \in {"GET", "POST"} : http = Request(method, url, 0)
    /\ \E on \in BOOLEAN, table \in OpenTables :
          kernel = [on |-> on, sockets |-> 0, open |-> table, table |-> table, files |-> {}, fetches |-> 0]
    /\ ~kernel.on => kernel.table = {}
    /\ wire = << >> /\ requested = << >> /\ lost = FALSE

HttpCall ==
    \/ TlsRefused \/ tcp_connect \/ tcp_send \/ recv_all \/ tcp_close
    \/ sys_socket \/ sys_write \/ sys_read
HttpNext == HttpCall \/ peer_silent \/ NextFetch
\* A call returns, unless the other side has fallen silent.
HttpFairness == WF_httpVars(HttpCall)

----------------------------------------------------------------------------
(* Properties.                                                               *)

\* On the sockets of POSIX a fetch that reports no error holds the page of the last
\* request sent, and names it: the whole body, with the chunks joined, if the
\* connection lasted, and otherwise a part of it from its start, or an unfinished
\* header line.  Only a chunk size from the top of size_t, which wraps where it is
\* added to the position, makes the joining run past its buffers.  The fetch
\* followed each redirection to the place named, at most MAX_REDIRECTS of them,
\* and gives up on one only then (http_client.c: do_request, decode_chunked).
HostedExact ==
    /\ Len(requested) <= MAX_REDIRECTS + 1
    /\ \A i \in 2..Len(requested) : requested[i][2] = Pages[requested[i - 1][2]].location
    /\ \A i \in 2..Len(requested) : requested[i][1] # requested[i - 1][1] => requested[i][1] = "GET"
    /\ http.phase = "done" /\ http.error = "ok" =>
          LET page == Pages[Last(requested)[2]]
              whole == Joined(page.body) \o (IF page.top THEN <<Overrun>> ELSE << >>)
          IN  /\ http.code = page.code
              /\ http.final = http_url_to_string(http_url_parse(Last(requested)[2]))
              /\ ~lost => http.body = whole
              /\ lost => IsPrefix(http.body, whole) \/ Len(http.body) <= 1
              /\ ~lost /\ page.code # 200 => Len(requested) = MAX_REDIRECTS + 1

\* On the kernel the n-th connection is descriptor n - 1 of whichever program has it
\* open: the fetches write their request to it and close it, in that order, one
\* after the other, and leave the others alone.  What a fetch brings without an error is
\* the rest of such a file.  After SOCKET_MAX connections none is made.
KernelExact ==
    LET used == kernel.sockets - (IF http.phase \in {"send", "receive", "blocked"} THEN 1 ELSE 0)
    IN  /\ kernel.open = kernel.table \ (0 .. used - 1)
        /\ kernel.files \subseteq (kernel.table \intersect (0 .. kernel.sockets - 1)) \ {1, 2}
        /\ http.phase = "done" /\ http.error = "ok" => http.fd \in kernel.table
        /\ kernel.sockets <= SOCKET_MAX

FetchExact == IF kernel.on THEN KernelExact ELSE HostedExact

\* A fetch ends, however the pages redirect to each other, unless a call it makes
\* does not return: the other side is silent, or the kernel reads the keyboard
\* (do_request; no code keeps to timeout_ms).
FetchEnds == []<>(http.phase \in {"done", "blocked"})

\* A URL that is written and read again is the same, but for a port that is the
\* other scheme's default, which is not written (http_url_to_string).
UrlsReadBack(texts) == \A raw \in texts :
    LET u == http_url_parse(raw)
    IN  /\ u.port \in {80, 443} => http_url_parse(http_url_to_string(u)) = [u EXCEPT !.port = IF u.tls THEN 443 ELSE 80]
        /\ u.port \notin {80, 443} => http_url_parse(http_url_to_string(u)) = u

-------------------------------------------------------------------------------
(***************************************************************************)
(* The browser's window (apps/browser/main.c): the address bar, the page   *)
(* shown and its scrolling, links, and the history.  A fetch runs to its   *)
(* end inside of the handler that starts it; what it brings is one of      *)
(* Sites, or an error, with the address the fetch reports for it.  A       *)
(* document is its title, the height it renders to and the links on it;    *)
(* WebPage says how it comes about.  Positions in the history count        *)
(* from 0.  Titles of the window and status texts are left out.            *)
(***************************************************************************)

CONSTANTS
    Sites,          \* what there is to fetch: url, where it leads, doc
    NoDoc, NoTitle,
    StartUrl,       \* argv[1]
    BarChars,       \* typed into the address bar
    MAX_URL_LEN,
    BROWSER_HISTORY,
    ViewHeight,     \* of the page's part of the window
    ScrollStep,
    MaxVisits       \* bound on the events followed

VARIABLES
    browser,        \* url_bar, url_bar_focused, url_bar_cursor, state, doc, render, scroll_y, history, history_pos
    visited,        \* history: the address of the page loaded last
    visits

browserVars == <<browser, visited, visits>>

\* strncpy into a field of MAX_URL_LEN
Cut(url) == SubSeq(url, 1, Min({Len(url), MAX_URL_LEN - 1}))

\* What http_get may bring: an error or a status from 400 on (no record), or a page.
http_get(url) ==
    {<< >>} \cup
        {<<[final |-> http_url_to_string(http_url_parse(s.final)), doc |-> s.doc]>> : s \in {x \in Sites : x.url = url}}

\* Mutant: the entry made when the history is full is taken for the one after it.
browser_push_history_full(b, url) ==
    LET ahead == SubSeq(b.history, 1, Min({Len(b.history), b.pos + 1}))
        kept == IF Len(ahead) >= BROWSER_HISTORY THEN Tail(ahead) ELSE ahead
    IN  [b EXCEPT !.history = Append(kept, [url |-> url, title |-> NoTitle]), !.pos = Len(ahead)]

\* The entries after the current one go; the oldest goes when there is no room.
browser_push_history(b, url) ==
    LET ahead == SubSeq(b.history, 1, Min({Len(b.history), b.pos + 1}))
        kept == IF Len(ahead) >= BROWSER_HISTORY THEN Tail(ahead) ELSE ahead
    IN  [b EXCEPT !.history = Append(kept, [url |-> url, title |-> NoTitle]), !.pos = Len(kept)]

Titled(b) ==
    IF b.doc # NoDoc /\ b.doc.title # NoTitle THEN [b EXCEPT !.history[b.pos + 1].title = b.doc.title] ELSE b

\* The bar, the page and the view are given up before the fetch.
Leaving(b, url) ==
    [b EXCEPT !.bar = Cut(url), !.focused = FALSE, !.cursor = Len(Cut(url)), !.scroll = 0,
              !.doc = NoDoc, !.render = NoDoc]

Loaded(b, res) ==
    LET there == [b EXCEPT !.bar = Cut(res.final)]
        noted == browser_push_history(there, there.bar)
    IN  Titled([noted EXCEPT !.doc = res.doc, !.render = res.doc, !.state = "DONE"])

browser_navigate(b, url) ==
    IF url = << >> THEN browser' = b /\ UNCHANGED visited
    ELSE \E res \in http_get(url) :
            IF res = << >>
            THEN browser' = [Leaving(b, url) EXCEPT !.state = "ERROR"] /\ UNCHANGED visited
            ELSE /\ browser' = Loaded(Leaving(b, url), res[1])
                 /\ visited' = browser'.bar

browser_go_back ==
    LET b == [browser EXCEPT !.pos = @ - 1]
    IN  IF browser.pos <= 0 THEN UNCHANGED <<browser, visited>> ELSE browser_navigate(b, b.history[b.pos + 1].url)

browser_go_forward ==
    LET b == [browser EXCEPT !.pos = @ + 1]
    IN  IF browser.pos >= Len(browser.history) - 1 THEN UNCHANGED <<browser, visited>>
        ELSE browser_navigate(b, b.history[b.pos + 1].url)

browser_reload == browser_navigate(browser, browser.bar)

\* A link that begins with a slash gets the scheme and the host of the address bar,
\* and no port; another is put after the bar's last slash.
Resolved(bar, href) ==
    LET base == http_url_parse(bar)
        slashes == {i \in DOMAIN bar : bar[i] \in {"/", "http://", "https://"}}
    IN  Cut(IF href # << >> /\ href[1] \in {"http://", "https://"} THEN href
            ELSE IF href # << >> /\ href[1] = "/" THEN <<IF base.tls THEN "https://" ELSE "http://">> \o base.host \o href
            ELSE IF slashes = {} THEN bar \o <<"/">> \o href
            ELSE SubSeq(bar, 1, Max(slashes)) \o href)

\* Mutant: the cursor stays where it was.
focus_bar_stale(b) == [b EXCEPT !.focused = TRUE]
focus_bar(b) == [b EXCEPT !.focused = TRUE, !.cursor = Len(b.bar)]

\* The buttons, the bar, and the page: a link, or a place with none.
on_mouse_down ==
    \/ browser_go_back \/ browser_go_forward \/ browser_reload
    \/ browser' = focus_bar(browser) /\ UNCHANGED visited
    \/ browser' = [browser EXCEPT !.focused = FALSE] /\ UNCHANGED visited
    \/ /\ browser.render # NoDoc
       /\ \E href \in browser.render.links :
             browser_navigate([browser EXCEPT !.focused = FALSE], Resolved(browser.bar, href))

FurthestDown(b) == Max({b.render.height - ViewHeight, 0})

browser_scroll(delta) ==
    LET y == Max({browser.scroll + delta * ScrollStep, 0})
    IN  /\ browser' = [browser EXCEPT !.scroll = IF browser.render = NoDoc THEN y ELSE Min({y, FurthestDown(browser)})]
        /\ UNCHANGED visited

BarEdited(bar, cursor) == browser' = [browser EXCEPT !.bar = bar, !.cursor = cursor] /\ UNCHANGED visited

\* The keys of the address bar; memmove takes what is right of the cursor.
bar_key ==
    LET bar == browser.bar
        cur == browser.cursor
        left == SubSeq(bar, 1, cur)
        right == SubSeq(bar, cur + 1, Len(bar))
    IN  \/ browser_reload
        \/ browser' = [browser EXCEPT !.focused = FALSE] /\ UNCHANGED visited
        \/ cur > 0 /\ BarEdited(Front(left) \o right, cur - 1)
        \/ cur < Len(bar) /\ BarEdited(left \o Tail(right), cur)
        \/ \E c \in {Max({cur - 1, 0}), Min({cur + 1, Len(bar)}), 0, Len(bar)} : BarEdited(bar, c)
        \/ Len(bar) < MAX_URL_LEN - 1 /\ \E c \in BarChars : BarEdited(left \o <<c>> \o right, cur + 1)

browser_key_down ==
    \/ ~browser.focused /\ (browser_reload \/ browser_go_back \/ browser_go_forward)
    \/ browser.focused /\ bar_key

BrowserInit ==
    /\ \E b \in {[bar |-> Cut(StartUrl), focused |-> FALSE, cursor |-> 0, state |-> "IDLE", doc |-> NoDoc,
                  render |-> NoDoc, scroll |-> 0, history |-> << >>, pos |-> 0]} :
       \E res \in http_get(StartUrl) :
          browser = IF res = << >> THEN [Leaving(b, StartUrl) EXCEPT !.state = "ERROR"]
                    ELSE Loaded(Leaving(b, StartUrl), res[1])
    /\ visited = IF browser.state = "DONE" THEN browser.bar ELSE << >>
    /\ visits = 0

BrowserNext ==
    /\ visits < MaxVisits /\ visits' = visits + 1
    /\ on_mouse_down \/ browser_key_down \/ \E delta \in {-1, 1} : browser_scroll(delta)

-------------------------------------------------------------------------------
(* Properties.                                                             *)

\* The address bar's cursor is inside of the text whenever a key may edit it, also
\* after a page has changed the text under it (browser_navigate leaves the cursor
\* where the address asked for ended).
CursorInBar ==
    /\ Len(browser.bar) < MAX_URL_LEN
    /\ browser.focused => browser.cursor \in 0 .. Len(browser.bar)

\* The history is within its limit, and its current entry is the page shown, under
\* the address it came from and with its title; it is the last entry, also after
\* going back, which enters the page again and drops those ahead; every entry has its own page's title
\* (browser_push_history, browser_navigate).
HistoryTrue ==
    /\ Len(browser.history) <= BROWSER_HISTORY
    /\ browser.pos \in 0 .. Max({Len(browser.history) - 1, 0})
    /\ browser.state = "DONE" =>
          /\ browser.pos = Len(browser.history) - 1
          /\ browser.history[browser.pos + 1].url = visited
          /\ browser.doc # NoDoc => browser.history[browser.pos + 1].title = browser.doc.title
    /\ \A k \in DOMAIN browser.history :
          \E s \in Sites : /\ browser.history[k].url = Cut(http_url_to_string(http_url_parse(s.final)))
                           /\ browser.history[k].title = IF s.doc = NoDoc THEN NoTitle ELSE s.doc.title

\* What can be clicked and scrolled belongs to the page loaded last, and the view
\* stays on it; an error shows nothing of the page before.
ViewOnPage ==
    /\ browser.state = "ERROR" => browser.doc = NoDoc
    /\ browser.render = browser.doc
    /\ browser.render # NoDoc => browser.scroll \in 0 .. FurthestDown(browser)

\* As long as the bar is not edited, a link that names no host leads to the host of
\* the page it is on: the address a fetch reports always has a path, whose slash the
\* link is put after (on_mouse_down, http_url_to_string).
LinksStay ==
    browser.render # NoDoc /\ browser.bar = visited =>
        \A href \in browser.render.links :
            href[1] \notin {"http://", "https://"} =>
                http_url_parse(Resolved(browser.bar, href)).host = http_url_parse(visited).host

BrowserSound == CursorInBar /\ HistoryTrue /\ ViewOnPage /\ LinksStay
===============================================================================
