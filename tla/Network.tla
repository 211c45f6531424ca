------------------------------- MODULE Network -------------------------------
(***************************************************************************)
(* The network stack (kernel/net): ARP table, Ethernet, IPv4, ICMP echo,   *)
(* UDP with its port table, the socket table, and the pure helpers         *)
(* net_checksum and dns_build_query.  tcp_receive only looks at the length *)
(* and has no effect.                                                      *)
(*                                                                         *)
(* A frame is a record of the fields the code looks at; `short` stands for *)
(* a length below the header of the layer it names.  The device driver     *)
(* (dev->send) takes every frame.  kmalloc may fail: `oom` names the       *)
(* allocation that does.                                                   *)
(***************************************************************************)
EXTENDS Integers, Sequences, FiniteSets, FiniteSetsExt, SequencesExt

CONSTANTS
    Hosts, Macs,         \* IPv4 addresses and hardware addresses of the others
    Ports,               \* UDP ports, 0 among them
    Handlers,            \* functions given to udp_bind
    Nobody,              \* no address, no handler
    ARP_TABLE_SIZE, UDP_MAX_PORTS, SOCKET_MAX,
    ByteBase,            \* a byte is a number below this
    MaxDataLen,          \* bound on checksummed data
    IdMod                \* identification is 16 bits and wraps

ASSUME NetworkConstants ==
    /\ ARP_TABLE_SIZE \in Nat \ {0} /\ UDP_MAX_PORTS \in Nat \ {0}
    /\ Nobody \notin Hosts \union Macs \union Handlers

VARIABLES
    table,               \* ARP table: entries of [ipv4, mac], or Nobody
    next_id,
    bindings,            \* [port, handler]
    sockets,             \* [open, remote]
    frames_out,          \* frames the step just made has sent
    handled,             \* handlers the step just made has called, with their source
    told,                \* history: the last hardware address heard of each host
    heard,               \* history: the host heard of last
    wanted,              \* history: the handler last given for each port
    connected            \* history: the last connect on each open socket

netVars == <<table, next_id, bindings, sockets, frames_out, handled, told, heard, wanted, connected>>

ArpSlots == 0 .. ARP_TABLE_SIZE - 1
UdpSlots == 0 .. UDP_MAX_PORTS - 1
Fds == 0 .. SOCKET_MAX - 1
Closed == [open |-> FALSE, remote |-> Nobody]

NetInit ==
    /\ table = [i \in ArpSlots |-> Nobody]
    /\ next_id = 1
    /\ bindings = [i \in UdpSlots |-> [port |-> 0, handler |-> Nobody]]
    /\ sockets = [fd \in Fds |-> Closed]
    /\ frames_out = << >> /\ handled = << >>
    /\ told = [h \in Hosts |-> Nobody] /\ heard = Nobody
    /\ wanted = << >>
    /\ connected = [fd \in Fds |-> Nobody]

--------------------------------------------------------------------------------
(* ARP.  A full table gives up its first entry. *)

Has(t, i, host) == t[i] # Nobody /\ t[i].ipv4 = host

\* Mutant of arp_learn: the search for the address stops at the first entry.
arp_learn_first(t, host, mac) ==
    LET usable == {i \in ArpSlots : t[i] = Nobody \/ (i = 0 /\ Has(t, i, host))}
        slot == IF usable = {} THEN 0 ELSE Min(usable)
    IN  [t EXCEPT ![slot] = [ipv4 |-> host, mac |-> mac]]

arp_learn(t, host, mac) ==
    LET usable == {i \in ArpSlots : t[i] = Nobody \/ Has(t, i, host)}
        slot == IF usable = {} THEN 0 ELSE Min(usable)
    IN  [t EXCEPT ![slot] = [ipv4 |-> host, mac |-> mac]]

arp_lookup(t, host) ==
    LET found == {i \in ArpSlots : Has(t, i, host)}
    IN  IF found = {} THEN Nobody ELSE t[Min(found)].mac

arp_receive(packet) ==
    IF packet.short
    THEN UNCHANGED <<table, told, heard>>
    ELSE /\ table' = arp_learn(table, packet.spa, packet.sha)
         /\ told' = [told EXCEPT ![packet.spa] = packet.sha]
         /\ heard' = packet.spa

--------------------------------------------------------------------------------
(* Sending: each layer allocates, wraps and frees. *)

ethernet_send(dst, type, payload, oom) ==
    IF oom = "frame" THEN << >> ELSE <<[dst |-> dst, type |-> type, payload |-> payload]>>

ipv4_send(dst, protocol, payload, oom) ==
    IF oom = "packet"
    THEN frames_out' = << >> /\ UNCHANGED next_id
    ELSE /\ next_id' = (next_id + 1) % IdMod
         /\ frames_out' =
              LET mac == arp_lookup(table, dst)
                  packet == [id |-> next_id, dst |-> dst, protocol |-> protocol, payload |-> payload]
              IN  IF mac = Nobody THEN << >> ELSE ethernet_send(mac, "IPV4", packet, oom)

udp_send(dst, dst_port, oom) ==
    /\ IF oom = "datagram"
       THEN frames_out' = << >> /\ UNCHANGED next_id
       ELSE ipv4_send(dst, "UDP", [dst_port |-> dst_port], oom)
    /\ handled' = << >>
    /\ UNCHANGED <<table, bindings, sockets, told, heard, wanted, connected>>

arp_request(target, oom) ==
    /\ frames_out' = ethernet_send("broadcast", "ARP", [tpa |-> target], oom)
    /\ handled' = << >>
    /\ UNCHANGED <<table, next_id, bindings, sockets, told, heard, wanted, connected>>

--------------------------------------------------------------------------------
(* Receiving *)

icmp_receive(ip, oom) ==
    IF ip.short = "icmp" \/ ip.long \/ ip.what # "echo"
    THEN frames_out' = << >> /\ UNCHANGED next_id
    ELSE ipv4_send(ip.src, "ICMP", [what |-> "reply"], oom)

udp_receive(ip) ==
    handled' = IF ip.short = "udp"
               THEN << >>
               ELSE LET hit(i) == bindings[i].port = ip.port /\ bindings[i].handler # Nobody
                        slots == SelectSeq([i \in 1 .. UDP_MAX_PORTS |-> i - 1], hit)
                    IN  [i \in DOMAIN slots |-> [handler |-> bindings[slots[i]].handler,
                                                 port |-> ip.port, src |-> ip.src]]

ipv4_receive(ip, oom) ==
    IF ip.short = "ipv4" \/ ip.ihl < 5 \/ ip.ihl > ip.words
    THEN frames_out' = << >> /\ handled' = << >> /\ UNCHANGED next_id
    ELSE CASE ip.protocol = "ICMP" -> icmp_receive(ip, oom) /\ handled' = << >>
           [] ip.protocol = "UDP"  -> udp_receive(ip) /\ frames_out' = << >> /\ UNCHANGED next_id
           [] ip.protocol = "TCP"  -> frames_out' = << >> /\ handled' = << >> /\ UNCHANGED next_id

\* words is the length of the packet in units of ihl.
Ip(protocol, src) == [short |-> "no", ihl |-> 5, words |-> 9, long |-> FALSE, protocol |-> protocol, src |-> src,
                      what |-> "echo", port |-> 0]
AnyHost == CHOOSE h \in Hosts : TRUE

\* Echo requests from everybody, and one packet for every way to be refused.
ArpPackets == [short : {FALSE}, spa : Hosts, sha : Macs] \union [short : {TRUE}, spa : {AnyHost}, sha : Macs]
EchoPackets == {Ip("ICMP", h) : h \in Hosts}
RefusedPackets == {[Ip("ICMP", AnyHost) EXCEPT !.short = "ipv4"], [Ip("ICMP", AnyHost) EXCEPT !.short = "icmp"],
    [Ip("ICMP", AnyHost) EXCEPT !.ihl = 4], [Ip("ICMP", AnyHost) EXCEPT !.ihl = 10],
    [Ip("ICMP", AnyHost) EXCEPT !.long = TRUE],
    [Ip("ICMP", AnyHost) EXCEPT !.what = "other"], Ip("TCP", AnyHost)}
UdpPackets == {[Ip("UDP", AnyHost) EXCEPT !.short = s, !.port = p] : s \in {"no", "udp"}, p \in Ports}

ethernet_receive(arps, ips, ooms) ==
    /\ \/ \E packet \in arps :
             /\ arp_receive(packet)
             /\ frames_out' = << >> /\ handled' = << >> /\ UNCHANGED next_id
       \/ \E ip \in ips, oom \in ooms :
             ipv4_receive(ip, oom) /\ UNCHANGED <<table, told, heard>>
    /\ UNCHANGED <<bindings, sockets, wanted, connected>>

\* A full table drops the request without a word.
udp_bind(port, handler) ==
    /\ bindings' =
          LET usable == {i \in UdpSlots : bindings[i].port \in {0, port}}
          IN  IF usable = {} THEN bindings
              ELSE [bindings EXCEPT ![Min(usable)] = [port |-> port, handler |-> handler]]
    /\ wanted' = [p \in DOMAIN wanted \union {port} |-> IF p = port THEN handler ELSE wanted[p]]
    /\ frames_out' = << >> /\ handled' = << >>
    /\ UNCHANGED <<table, next_id, sockets, told, heard, connected>>

--------------------------------------------------------------------------------
(* Sockets *)

SocketStep(fd, socket, remote) ==
    /\ sockets' = [sockets EXCEPT ![fd] = socket]
    /\ connected' = [connected EXCEPT ![fd] = remote]
    /\ frames_out' = << >> /\ handled' = << >>
    /\ UNCHANGED <<table, next_id, bindings, told, heard, wanted>>

socket_create ==
    LET free == {fd \in Fds : ~sockets[fd].open}
    IN  free # {} /\ SocketStep(Min(free), [sockets[Min(free)] EXCEPT !.open = TRUE], Nobody)

socket_connect(fd, remote) ==
    sockets[fd].open /\ SocketStep(fd, [sockets[fd] EXCEPT !.remote = remote], remote)

\* Mutant of socket_close: the type is reset and the rest of the slot kept.
socket_close_keeps(fd) ==
    sockets[fd].open /\ SocketStep(fd, [sockets[fd] EXCEPT !.open = FALSE], Nobody)

socket_close(fd) == sockets[fd].open /\ SocketStep(fd, Closed, Nobody)

\* The ARP table, the ports and the sockets are independent of each other.
LinkNext ==
    \/ ethernet_receive(ArpPackets, RefusedPackets, {"none"})
    \/ ethernet_receive({}, EchoPackets, {"none", "packet", "frame"})
    \/ \E h \in Hosts, oom \in {"none", "datagram", "packet", "frame"} : udp_send(h, 1, oom)
    \/ \E h \in Hosts, oom \in {"none", "frame"} : arp_request(h, oom)

PortNext ==
    \/ ethernet_receive({}, UdpPackets, {"none"})
    \/ \E p \in Ports, f \in Handlers : udp_bind(p, f)

SocketNext ==
    \/ socket_create
    \/ \E fd \in Fds : socket_close(fd) \/ \E h \in Hosts : socket_connect(fd, h)

--------------------------------------------------------------------------------
(* Pure helpers *)

WordMod == ByteBase * ByteBase

\* while (sum >> 16): the carries go back in at the low end.
fold_carries[sum \in Nat] ==
    IF sum < WordMod THEN sum ELSE fold_carries[(sum % WordMod) + (sum \div WordMod)]

\* Big-endian words; an odd last byte is the high half of a word.
net_checksum(bytes) ==
    LET word(i) == bytes[i] * ByteBase + (IF i < Len(bytes) THEN bytes[i + 1] ELSE 0)
        sum == FoldSet(LAMBDA i, acc : acc + word(i), 0, {i \in DOMAIN bytes : i % 2 = 1})
    IN  WordMod - 1 - fold_carries[sum]

\* The two bytes of the checksum field: ipv4_send and icmp_receive store
\* the number as the machine does, low byte first.
stored_checksum(c) == <<c % ByteBase, c \div ByteBase>>

\* Mutant of dns_build_query: room for the length byte is forgotten.
dns_build_query_tight(capacity, labels) ==
    LET step(acc, len) ==
            IF acc = 0 \/ len > 63 \/ acc + len + 5 > capacity THEN 0 ELSE acc + 1 + len
        out == IF capacity < 18 THEN 0 ELSE FoldLeft(step, 12, labels)
    IN  IF out = 0 THEN 0 ELSE out + 5

\* A host name is the lengths of its labels; the result is the number of bytes
\* written, 0 for a refusal.
dns_build_query(capacity, labels) ==
    LET step(acc, len) ==
            IF acc = 0 \/ len > 63 \/ acc + len + 6 > capacity THEN 0 ELSE acc + 1 + len
        out == IF capacity < 18 THEN 0 ELSE FoldLeft(step, 12, labels)
    IN  IF out = 0 THEN 0 ELSE out + 5

--------------------------------------------------------------------------------
(* Properties *)

\* The checksum is the right number, stored the wrong way round: with its bytes
\* exchanged the words of a message add up to all ones, the test a receiver applies
\* (net_checksum), and as the message is sent they do only if the two bytes are the
\* same (ipv4_send, icmp_receive).
ChecksumSwapped ==
    \A n \in {2, 3, MaxDataLen} : \A data \in [1 .. n -> 0 .. ByteBase - 1] :
        LET field == stored_checksum(net_checksum(<<0, 0>> \o data))
        IN  /\ net_checksum(Reverse(field) \o data) = 0
            /\ net_checksum(field \o data) = 0 <=> field[1] = field[2]

\* A query that was built fits its buffer, with every label complete.
QueryFits ==
    \A capacity \in 17 .. 30, labels \in SeqOf({0, 1, 4, 63, 64}, 3) :
        LET n == dns_build_query(capacity, labels)
        IN  /\ n <= capacity
            /\ n # 0 => n = 17 + FoldLeft(LAMBDA acc, len : acc + len + 1, 0, labels)

\* What the stack knows about the others is what it was told last.  An ARP lookup
\* never answers with an address that was superseded, the host heard of last is
\* always known, and no host is listed twice, although the table overwrites its
\* first entry when it is full (arp_learn).  Every IPv4 frame goes to the hardware
\* address last heard of its destination (ipv4_send).  As long as no more ports
\* were bound than the table holds, a datagram reaches exactly the handler bound
\* last to its port (udp_bind, udp_receive).  A reused socket does not inherit a
\* connection (socket_close).
NetworkExact ==
    /\ \A h \in Hosts : arp_lookup(table, h) \in {told[h], Nobody}
    /\ heard # Nobody => arp_lookup(table, heard) = told[heard]
    /\ \A h \in Hosts : Cardinality({i \in ArpSlots : Has(table, i, h)}) <= 1
    /\ \A i \in DOMAIN frames_out : LET f == frames_out[i] IN
          f.type = "IPV4" => f.dst = told[f.payload.dst]
    /\ \A i \in DOMAIN handled : LET p == handled[i].port IN
          p # 0 /\ Cardinality(DOMAIN wanted) <= UDP_MAX_PORTS
             => Len(handled) = 1 /\ handled[i].handler = wanted[p]
    /\ \A fd \in Fds : sockets[fd].open => sockets[fd].remote = connected[fd]
==============================================================================
