---------------------------- MODULE WindowProtocol ----------------------------
(***************************************************************************)
(* Applications and the window server (libnv0/src/ipc.c,                   *)
(* graphics/server/ipc_server.c).  Both sides name their endpoints FIFOs,  *)
(* but create_endpoint and ipc_server_start make ordinary files: a write   *)
(* goes to the writer's own offset and a read at the end returns 0.  Each  *)
(* step is one system call and what its caller computes before the next.   *)
(*                                                                         *)
(* A file is a sequence of units: <<"header", message, length>> and        *)
(* <<"payload", message>>.  The rendezvous file holds process ids.  The    *)
(* server answers on the descriptor it reads from.                         *)
(***************************************************************************)
EXTENDS Integers, Sequences, SequencesExt, FiniteSetsExt

CONSTANTS
    Apps,             \* the applications, by process id
    Kinds,            \* what they send: records of an id, a length and answered
    IPC_MAX_CLIENTS,
    IPC_RECV_BUF,     \* size of a client's buffer, in units
    MaxSent,          \* bound on the messages of an application
    NoApp

ASSUME ProtocolConstants == IPC_MAX_CLIENTS \in Nat /\ IPC_RECV_BUF \in Nat \ {0}

VARIABLES
    rendezvous,       \* [data, offset of the server's descriptor]
    named,            \* applications whose endpoint has its name
    stream,           \* application -> units of its endpoint
    app,              \* application -> [at, offset]: where it is and where it writes
    clients,          \* the server's table: [app, offset, recv, active]
    server,           \* [at, index]: where ipc_server_poll is
    sent,             \* history: messages written completely
    dispatched,       \* history: messages dispatched for each application
    answered          \* history: applications whose message the server answered

protocolVars == <<rendezvous, named, stream, app, clients, server, sent, dispatched, answered>>

Unit(m, i) == IF i = 1 THEN <<"header", m.id, m.length>> ELSE <<"payload", m.id, 0>>
UnitsOf(m) == [i \in 1 .. 1 + m.length |-> Unit(m, i)]

\* A write past the end of a file extends it (external: module Files).
WriteAt(data, offset, units) ==
    [i \in 1 .. IF offset + Len(units) > Len(data) THEN offset + Len(units) ELSE Len(data) |->
        IF i > offset /\ i <= offset + Len(units) THEN units[i - offset] ELSE data[i]]

ProtocolInit ==
    /\ rendezvous = [data |-> << >>, offset |-> 0]
    /\ named = {}
    /\ stream = [c \in Apps |-> << >>]
    /\ app = [c \in Apps |-> [at |-> "new", offset |-> 0, sending |-> << >>]]
    /\ clients = << >>
    /\ server = [at |-> "poll", index |-> 0, pid |-> NoApp]
    /\ sent = [c \in Apps |-> << >>] /\ dispatched = sent
    /\ answered = {}

--------------------------------------------------------------------------------
(* The application *)

\* nv_ipc_connect up to the open of the rendezvous file.
create_endpoints(c) ==
    /\ app[c].at = "new"
    /\ app' = [app EXCEPT ![c].at = "created"]
    /\ named' = named \union {c}
    /\ stream' = [stream EXCEPT ![c] = << >>]
    /\ UNCHANGED <<rendezvous, clients, server, sent, dispatched, answered>>

\* Opened without O_APPEND: every application writes its id at offset 0.
announce(c) ==
    /\ app[c].at = "created"
    /\ rendezvous' = [rendezvous EXCEPT !.data = WriteAt(@, 0, <<c>>)]
    /\ app' = [app EXCEPT ![c].at = "announced"]
    /\ UNCHANGED <<named, stream, clients, server, sent, dispatched, answered>>

\* Opens the endpoint and takes its name away.
unlink_endpoints(c) ==
    /\ app[c].at = "announced"
    /\ named' = named \ {c}
    /\ app' = [app EXCEPT ![c].at = "connected"]
    /\ UNCHANGED <<rendezvous, stream, clients, server, sent, dispatched, answered>>

\* nv_ipc_send: the header in one call, the payload in another.
nv_ipc_send(c, m) ==
    /\ app[c].at = "connected" /\ app[c].sending = << >> /\ Len(sent[c]) < MaxSent
    /\ stream' = [stream EXCEPT ![c] = WriteAt(@, app[c].offset, <<Unit(m, 1)>>)]
    /\ app' = [app EXCEPT ![c].offset = @ + 1, ![c].sending = IF m.length = 0 THEN << >> ELSE <<m>>]
    /\ sent' = IF m.length = 0 THEN [sent EXCEPT ![c] = Append(@, m.id)] ELSE sent
    /\ UNCHANGED <<rendezvous, named, clients, server, dispatched, answered>>

send_payload(c) ==
    /\ app[c].sending # << >>
    /\ LET m == Head(app[c].sending)
       IN  /\ stream' = [stream EXCEPT ![c] = WriteAt(@, app[c].offset, Tail(UnitsOf(m)))]
           /\ app' = [app EXCEPT ![c].offset = @ + m.length, ![c].sending = << >>]
           /\ sent' = [sent EXCEPT ![c] = Append(@, m.id)]
    /\ UNCHANGED <<rendezvous, named, clients, server, dispatched, answered>>

--------------------------------------------------------------------------------
(* The server: ipc_server_poll *)

\* accept_client reads an id unless the table is full.
accept_read ==
    /\ server.at = "poll"
    /\ IF Len(clients) >= IPC_MAX_CLIENTS \/ rendezvous.offset >= Len(rendezvous.data)
       THEN server' = [server EXCEPT !.at = "scan", !.index = 1] /\ UNCHANGED rendezvous
       ELSE /\ server' = [at |-> "open", index |-> 0, pid |-> rendezvous.data[rendezvous.offset + 1]]
            /\ rendezvous' = [rendezvous EXCEPT !.offset = @ + 1]
    /\ UNCHANGED <<named, stream, app, clients, sent, dispatched, answered>>

\* The endpoint may have lost its name meanwhile: the id is gone all the same.
accept_open ==
    /\ server.at = "open"
    /\ clients' = IF server.pid \in named
                  THEN Append(clients, [app |-> server.pid, offset |-> 0, recv |-> << >>, active |-> TRUE])
                  ELSE clients
    /\ server' = [at |-> "scan", index |-> 1, pid |-> NoApp]
    /\ UNCHANGED <<rendezvous, named, stream, app, sent, dispatched, answered>>

Kind(id) == CHOOSE m \in Kinds : m.id = id

\* What dispatch answers: the clipboard, or an error for a type it does not know.
Answer == <<<<"header", "answer", 1>>, <<"payload", "answer", 0>>>>
Answers(unit) == unit[1] = "payload" \/ unit[2] = "answer" \/ Kind(unit[2]).answered

Compacted == SelectSeq(clients, LAMBDA x : x.active)

\* Mutant of Complete: a message is taken for complete when its header is.
Complete_header(recv) == recv # << >>

\* The buffer holds at least one whole message.  Whatever comes first is taken
\* for a header; a payload there is an unknown type of length 0.  Lengths are those
\* nv_ipc_send is called with, far below 2^31, where (int)hdr.length is the length.
Complete(recv) == recv # << >> /\ Len(recv) >= 1 + recv[1][3]

\* Mutant of Rest: the message stays in the buffer.
Rest_header(recv) == Tail(recv)

Rest(recv) == SubSeq(recv, 2 + recv[1][3], Len(recv))

\* One read of up to the room left; nothing to read ends the connection, also
\* when there was no room.
read_client ==
    /\ server.at = "scan" /\ server.index <= Len(clients)
    /\ LET x == clients[server.index]
           room == IPC_RECV_BUF - Len(x.recv)
           got == SubSeq(stream[x.app], x.offset + 1, Min({Len(stream[x.app]), x.offset + room}))
       IN  clients' = [clients EXCEPT ![server.index] =
               IF got = << >> THEN [x EXCEPT !.active = FALSE]
               ELSE [x EXCEPT !.recv = @ \o got, !.offset = @ + Len(got)]]
    /\ server' = IF clients'[server.index].active THEN [server EXCEPT !.at = "dispatch"]
                 ELSE [server EXCEPT !.index = @ + 1]
    /\ UNCHANGED <<rendezvous, named, stream, app, sent, dispatched, answered>>

\* The inner loop: one dispatch, and its answer, at a time.
dispatch ==
    /\ server.at = "dispatch"
    /\ LET x == clients[server.index]
       IN  IF ~Complete(x.recv)
           THEN /\ server' = [server EXCEPT !.at = "scan", !.index = @ + 1]
                /\ UNCHANGED <<stream, clients, dispatched, answered>>
           ELSE /\ dispatched' = [dispatched EXCEPT ![x.app] = Append(@, x.recv[1][2])]
                /\ IF Answers(x.recv[1])
                   THEN /\ stream' = [stream EXCEPT ![x.app] = WriteAt(@, x.offset, Answer)]
                        /\ answered' = IF x.recv[1][1] = "header" THEN answered \union {x.app} ELSE answered
                        /\ clients' = [clients EXCEPT ![server.index] =
                                          [x EXCEPT !.recv = Rest(x.recv), !.offset = @ + Len(Answer)]]
                   ELSE /\ clients' = [clients EXCEPT ![server.index].recv = Rest(x.recv)]
                        /\ UNCHANGED <<stream, answered>>
                /\ UNCHANGED server
    /\ UNCHANGED <<rendezvous, named, app, sent>>

\* The end of the poll: entries of clients that are gone are closed up.
end_poll ==
    /\ server.at = "scan" /\ server.index > Len(clients)
    /\ clients' = Compacted
    /\ server' = [server EXCEPT !.at = "poll", !.index = 0]
    /\ UNCHANGED <<rendezvous, named, stream, app, sent, dispatched, answered>>

ServerStep == accept_read \/ accept_open \/ read_client \/ dispatch \/ end_poll
AppStep(c) == create_endpoints(c) \/ announce(c) \/ unlink_endpoints(c) \/ send_payload(c)

ProtocolNext ==
    \/ ServerStep
    \/ \E c \in Apps : AppStep(c) \/ \E m \in Kinds : nv_ipc_send(c, m)

\* Both sides go on with what they are doing; nobody has to send.
ProtocolSpec ==
    /\ ProtocolInit /\ [][ProtocolNext]_protocolVars
    /\ WF_protocolVars(ServerStep)
    /\ \A c \in Apps : WF_protocolVars(AppStep(c))

--------------------------------------------------------------------------------
(* Properties *)

\* Until the server answers somebody, what it dispatches for them is what they
\* have sent, in order and each message once, however the writes of header and
\* payload and the reads of the server interleave.  An application has at most one
\* entry, and a buffer never holds more than its size (nv_ipc_send,
\* accept_client, ipc_server_poll).
MessagesInOrder ==
    /\ \A c \in Apps \ answered : IsPrefix(dispatched[c], sent[c])
    /\ Len(clients) <= IPC_MAX_CLIENTS
    /\ \A i, j \in DOMAIN clients : clients[i].app = clients[j].app => i = j
    /\ \A i \in DOMAIN clients : Len(clients[i].recv) <= IPC_RECV_BUF

\* "each application that wants a window connects to the compositor's socket"
\* (docs/ipc_protocol.md:5): an application that announced itself is entered in
\* the server's table.
EveryoneConnects ==
    \A c \in Apps : app[c].at = "announced" ~> \E i \in DOMAIN clients : clients[i].app = c
==============================================================================
