------------------------------- MODULE Frames --------------------------------
(* A datagram on the wire: laid out as frames of at most an MTU                      *)
(* (src/src/net/frame.rs, dispatch/datagram.rs, the send loop of                     *)
(* dispatch/egress.rs), let through by another netflector's kernel filter            *)
(* (capture/filter.rs, run by a model of the BPF machine) and parsed there           *)
(* (net/packet.rs).                                                                *)
(*                                                                                *)
(* The bytes of the headers are bytes, at their offsets, since the filter's offsets  *)
(* and jumps are what could be wrong.  A datagram's own bytes are their positions:    *)
(* "data" says which of them the frame holds, and from where.  Checksums and          *)
(* addresses are left out.                                                          *)
EXTENDS Integers, Sequences, FiniteSets, TLC

CONSTANTS
    Datagrams,      \* [link, version, payload, id, mtu]: what is sent
    Foreign         \* frames of others: [link, ethertype, tag, proto, next, outgoing]

VARIABLES
    job,        \* the datagram or foreign frame in hand
    index,      \* frames sent so far
    got,        \* what the receiver made of the frames
    taken       \* how many frames the filter took

frameVars == <<job, index, got, taken>>

ETHERNET_HEADER_SIZE == 14
DLT_NULL_HEADER_SIZE == 4
IPV4_HEADER_SIZE == 20
IPV6_HEADER_SIZE == 40
IPV6_FRAGMENT_HEADER_SIZE == 8
UDP_HEADER_SIZE == 8
FRAGMENT_UNIT == 8
IP_PROTO_UDP == 17
IPV6_NEXT_FRAGMENT == 44
MIN_ETHERNET == 60      \* a shorter frame is padded on the wire
AF_INET == 2
AF_INET6 == 30

(* ------------------------------ a frame's bytes --------------------------- *)

OneByte(at, value) == at :> value
TwoBytes(at, value) == (at :> value \div 256) @@ (at + 1 :> value % 256)

Byte(f, at) == IF at \in DOMAIN f.bytes THEN f.bytes[at] ELSE 0
Half(f, at) == Byte(f, at) * 256 + Byte(f, at + 1)
Word(f, at) == Half(f, at) * 65536 + Half(f, at + 2)

Least(a, b) == IF a < b THEN a ELSE b

(* ------------------------------- UdpFrames -------------------------------- *)

\* LinkHeader::size
LinkSize(link) ==
    CASE link = "Ethernet" -> ETHERNET_HEADER_SIZE
      [] link = "DltNull" -> DLT_NULL_HEADER_SIZE
      [] link = "RawIp" -> 0

\* LinkHeader::write; DLT_NULL holds the family in host order, low byte first.
LinkBytes(link, version) ==
    CASE link = "Ethernet" -> TwoBytes(12, IF version = 6 THEN 34525 ELSE 2048)
      [] link = "DltNull" -> OneByte(0, IF version = 6 THEN AF_INET6 ELSE AF_INET)
      [] link = "RawIp" -> <<>>

\* IpHeader::size
IpSize(version, fragmented) ==
    IF version = 4 THEN IPV4_HEADER_SIZE
    ELSE IPV6_HEADER_SIZE + (IF fragmented THEN IPV6_FRAGMENT_HEADER_SIZE ELSE 0)

datagram_len(d) == UDP_HEADER_SIZE + d.payload

\* udp_header: the datagram, for IPv4 its header too, must fit 16 bits.
TooLarge(d) == (IF d.version = 4 THEN IPV4_HEADER_SIZE ELSE 0) + datagram_len(d) > 65535

\* Fault: fragments are as large as the MTU allows.
ChunkToMtu(d) ==
    IF IpSize(d.version, FALSE) + datagram_len(d) <= d.mtu THEN datagram_len(d)
    ELSE d.mtu - IpSize(d.version, TRUE)

\* UdpFrames::new: the bytes each frame carries; 0 is MtuTooSmall.
chunk(d) ==
    LET room == d.mtu - IpSize(d.version, TRUE)
    IN  IF IpSize(d.version, FALSE) + datagram_len(d) <= d.mtu THEN datagram_len(d)
        ELSE IF room <= 0 THEN 0 ELSE room - (room % FRAGMENT_UNIT)

fragmented(d) == IpSize(d.version, FALSE) + datagram_len(d) > d.mtu

count(d) == (datagram_len(d) + chunk(d) - 1) \div chunk(d)

\* IpHeader::write, at offset l.  IPv4 keeps the low half of the identification.
IpBytes(d, l, size, units, more) ==
    IF d.version = 4
    THEN OneByte(l, 69) @@ TwoBytes(l + 2, IPV4_HEADER_SIZE + size) @@ TwoBytes(l + 4, d.id % 65536)
           @@ TwoBytes(l + 6, units + (IF more THEN 8192 ELSE 0)) @@ OneByte(l + 9, IP_PROTO_UDP)
    ELSE LET header == OneByte(l, 96)
             fragment == l + IPV6_HEADER_SIZE
         IN  IF ~fragmented(d)
             THEN header @@ TwoBytes(l + 4, size) @@ OneByte(l + 6, IP_PROTO_UDP)
             ELSE header @@ TwoBytes(l + 4, IPV6_FRAGMENT_HEADER_SIZE + size)
                    @@ OneByte(l + 6, IPV6_NEXT_FRAGMENT) @@ OneByte(fragment, IP_PROTO_UDP)
                    @@ TwoBytes(fragment + 2, units * 8 + (IF more THEN 1 ELSE 0))
                    @@ TwoBytes(fragment + 4, d.id \div 65536) @@ TwoBytes(fragment + 6, d.id % 65536)

\* UdpFrames::write of frame "i".  Only the first holds the UDP header, whose length field it is.
write(d, i) ==
    LET start == i * chunk(d)
        end == Least(start + chunk(d), datagram_len(d))
        l == LinkSize(d.link)
        body == l + IpSize(d.version, fragmented(d))
    IN  [len |-> body + end - start,
         bytes |-> LinkBytes(d.link, d.version)
                     @@ IpBytes(d, l, end - start, IF fragmented(d) THEN start \div FRAGMENT_UNIT ELSE 0,
                                fragmented(d) /\ end < datagram_len(d))
                     @@ (IF start = 0 THEN TwoBytes(body + 4, datagram_len(d)) ELSE <<>>),
         data |-> [at |-> body, from |-> start],
         outgoing |-> FALSE, stripped |-> FALSE, tci |-> 0]

(* ------------------------------ on the wire ------------------------------- *)

\* External: an 802.1Q tag put into the frame at offset 12.
Tagged(f, tci) ==
    [f EXCEPT !.len = @ + 4,
              !.bytes = [at \in {b \in DOMAIN f.bytes : b < 12} |-> f.bytes[at]]
                          @@ TwoBytes(12, 33024) @@ TwoBytes(14, tci)
                          @@ [at \in {b + 4 : b \in {c \in DOMAIN f.bytes : c >= 12}} |-> f.bytes[at - 4]],
              !.data.at = @ + 4]

\* External: an Ethernet frame has a minimal length.
Padded(link, f) == IF link = "Ethernet" /\ f.len < MIN_ETHERNET THEN [f EXCEPT !.len = MIN_ETHERNET] ELSE f

\* A frame of another sender, UDP or not, as the receiver's kernel may hand it to the filter.
ForeignFrame(x) ==
    LET l == LinkSize(x.link)
        v6 == x.version = 6
        plain == [len |-> l + 60,
                  bytes |-> (IF x.link = "Ethernet" THEN TwoBytes(12, x.ethertype)
                             ELSE LinkBytes(x.link, x.version))
                              @@ OneByte(l, IF v6 THEN 96 ELSE 69)
                              @@ (IF v6 THEN TwoBytes(l + 4, 20) @@ OneByte(l + 6, x.proto)
                                                @@ OneByte(l + 40, x.next) @@ TwoBytes(l + 52, 12)
                                                @@ (IF x.proto = 17 THEN TwoBytes(l + 44, 20) ELSE <<>>)
                                  ELSE TwoBytes(l + 2, 60) @@ OneByte(l + 9, x.proto) @@ TwoBytes(l + 24, 40)),
                  data |-> [at |-> l, from |-> 0],
                  outgoing |-> x.outgoing, stripped |-> x.tag = "stripped", tci |-> x.tci]
    IN  IF x.tag = "inside" THEN Tagged(plain, x.tci) ELSE plain

(* ---------------------------- the kernel filter --------------------------- *)

ETHERNET_UDP_FILTER ==
    <<<<"ldx", 0, 0, 0>>, <<"ldh", 0, 0, 12>>, <<"jeq", 0, 3, 33024>>, <<"ldh", 0, 0, 14>>,
      <<"jset", 12, 0, 4095>>, <<"ldx", 0, 0, 4>>, <<"ldhx", 0, 0, 12>>, <<"jeq", 6, 0, 2048>>,
      <<"jeq", 0, 8, 34525>>, <<"ldbx", 0, 0, 20>>, <<"jeq", 5, 0, 17>>, <<"jeq", 0, 5, 44>>,
      <<"ldbx", 0, 0, 54>>, <<"jeq", 2, 3, 17>>, <<"ldbx", 0, 0, 23>>, <<"jeq", 0, 1, 17>>,
      <<"ret", 0, 0, 1>>, <<"ret", 0, 0, 0>>>>

\* Fault: the fragment's next header is not looked at.
RawIpFilterAnyFragment ==
    <<<<"ldb", 0, 0, 0>>, <<"and", 0, 0, 240>>, <<"jeq", 6, 0, 64>>, <<"jeq", 0, 8, 96>>,
      <<"ldb", 0, 0, 6>>, <<"jeq", 5, 0, 17>>, <<"jeq", 4, 5, 44>>, <<"ldb", 0, 0, 40>>,
      <<"jeq", 2, 3, 17>>, <<"ldb", 0, 0, 9>>, <<"jeq", 0, 1, 17>>,
      <<"ret", 0, 0, 1>>, <<"ret", 0, 0, 0>>>>

RAW_IP_UDP_FILTER ==
    <<<<"ldb", 0, 0, 0>>, <<"and", 0, 0, 240>>, <<"jeq", 6, 0, 64>>, <<"jeq", 0, 8, 96>>,
      <<"ldb", 0, 0, 6>>, <<"jeq", 5, 0, 17>>, <<"jeq", 0, 5, 44>>, <<"ldb", 0, 0, 40>>,
      <<"jeq", 2, 3, 17>>, <<"ldb", 0, 0, 9>>, <<"jeq", 0, 1, 17>>,
      <<"ret", 0, 0, 1>>, <<"ret", 0, 0, 0>>>>

\* host_af_to_bpf_be: the family in the byte that the machine loads first.
host_af_to_bpf_be(family) == family * 16777216

DLT_NULL_UDP_FILTER ==
    <<<<"ld", 0, 0, 0>>, <<"jeq", 6, 0, host_af_to_bpf_be(AF_INET)>>,
      <<"jeq", 0, 8, host_af_to_bpf_be(AF_INET6)>>, <<"ldb", 0, 0, 10>>, <<"jeq", 5, 0, 17>>,
      <<"jeq", 0, 5, 44>>, <<"ldb", 0, 0, 44>>, <<"jeq", 2, 3, 17>>, <<"ldb", 0, 0, 13>>,
      <<"jeq", 0, 1, 17>>, <<"ret", 0, 0, 1>>, <<"ret", 0, 0, 0>>>>

DROP_OUTGOING_PROLOGUE == <<<<"pkttype", 0, 0, 0>>, <<"jeq", 0, 1, 4>>, <<"ret", 0, 0, 0>>>>

DROP_VLAN_TAGGED_PROLOGUE ==
    <<<<"vlan_present", 0, 0, 0>>, <<"jeq", 4, 0, 0>>, <<"vlan_tci", 0, 0, 0>>, <<"and", 0, 0, 4095>>,
      <<"jeq", 1, 0, 0>>, <<"ret", 0, 0, 0>>>>

\* The program of a link: on Linux with its prologues (af_packet.rs), on the BSDs without (bpf.rs).
Program(link) ==
    CASE link = "Ethernet" -> DROP_OUTGOING_PROLOGUE \o DROP_VLAN_TAGGED_PROLOGUE \o ETHERNET_UDP_FILTER
      [] link = "RawIp" -> DROP_OUTGOING_PROLOGUE \o RAW_IP_UDP_FILTER
      [] link = "DltNull" -> DLT_NULL_UDP_FILTER

\* External: bytes a load reads; one past the end drops the frame.
Loads == [ldh |-> 2, ldhx |-> 2, ldb |-> 1, ldbx |-> 1, ld |-> 4]

And(a, mask) == IF mask = 240 THEN a - (a % 16) ELSE a % (mask + 1)

\* External: an instruction of the classic BPF machine, whose state is its two registers.
Exec(program, f, m) ==
    LET insn == program[m.pc]
        op == insn[1]
        k == insn[4]
        at == IF op \in {"ldhx", "ldbx"} THEN m.x + k ELSE k
        jump(holds) == [m EXCEPT !.pc = @ + 1 + (IF holds THEN insn[2] ELSE insn[3])]
        load(value) == [m EXCEPT !.pc = @ + 1, !.a = value]
    IN  IF m.verdict # "none" THEN m ELSE
        CASE op = "ret" -> [m EXCEPT !.verdict = IF k = 1 THEN "take" ELSE "drop"]
          [] op = "ldx" -> [m EXCEPT !.pc = @ + 1, !.x = k]
          [] op = "jeq" -> jump(m.a = k)
          [] op = "jset" -> jump(And(m.a, k) # 0)
          [] op = "and" -> load(And(m.a, k))
          [] op = "pkttype" -> load(IF f.outgoing THEN 4 ELSE 0)
          [] op = "vlan_present" -> load(IF f.stripped THEN 1 ELSE 0)
          [] op = "vlan_tci" -> load(f.tci)
          [] op \in DOMAIN Loads ->
                IF at + Loads[op] > f.len THEN [m EXCEPT !.verdict = "drop"]
                ELSE load(IF Loads[op] = 1 THEN Byte(f, at) ELSE IF Loads[op] = 2 THEN Half(f, at) ELSE Word(f, at))

\* Every jump is forward: a program ends within its length.
Accepts(link, f) ==
    LET program == Program(link)
        run[n \in 0..Len(program)] ==
            IF n = 0 THEN [pc |-> 1, a |-> 0, x |-> 0, verdict |-> "none"]
            ELSE CHOOSE m \in {Exec(program, f, before) : before \in {run[n - 1]}} : TRUE
    IN  run[Len(program)].verdict = "take"

(* --------------------------------- parse ---------------------------------- *)

ParseError == [ok |-> FALSE]

\* ethernet_l3, parse_link_header: where the IP header begins, or -1.
l3(link, f) ==
    IF link # "Ethernet" THEN LinkSize(link)
    ELSE IF Half(f, 12) # 33024 THEN ETHERNET_HEADER_SIZE
    ELSE IF Half(f, 14) % 4096 = 0 THEN ETHERNET_HEADER_SIZE + 4 ELSE -1

\* parse_udp, of the bytes at "from" up to "to": the payload ends where the UDP length says.
datagram(f, from, to) ==
    LET udp_len == Half(f, from + 4)
    IN  IF to - from < UDP_HEADER_SIZE \/ udp_len < UDP_HEADER_SIZE \/ udp_len > to - from THEN ParseError
        ELSE [ok |-> TRUE, whole |-> TRUE, offset |-> 0, more |-> FALSE, id |-> 0,
              from |-> from, len |-> udp_len]

FragmentOf(from, to, id, offset, more) ==
    [ok |-> TRUE, whole |-> FALSE, offset |-> offset, more |-> more, id |-> id, from |-> from, len |-> to - from]

parse_ipv4(f, l) ==
    LET header_len == (Byte(f, l) % 16) * 4
        total_len == Half(f, l + 2)
        flags_offset == Half(f, l + 6)
        offset == (flags_offset % 8192) * FRAGMENT_UNIT
        more == (flags_offset \div 8192) % 2 = 1
    IN  IF f.len - l < IPV4_HEADER_SIZE \/ header_len < IPV4_HEADER_SIZE \/ header_len > f.len - l
           \/ Byte(f, l + 9) # IP_PROTO_UDP \/ total_len < header_len \/ total_len > f.len - l
        THEN ParseError
        ELSE IF offset = 0 /\ ~more THEN datagram(f, l + header_len, l + total_len)
        ELSE FragmentOf(l + header_len, l + total_len, Half(f, l + 4), offset, more)

parse_ipv6(f, l) ==
    LET total_len == IPV6_HEADER_SIZE + Half(f, l + 4)
        body == l + IPV6_HEADER_SIZE
        data == body + IPV6_FRAGMENT_HEADER_SIZE
        offset == (Half(f, body + 2) \div 8) * FRAGMENT_UNIT
        more == Half(f, body + 2) % 2 = 1
        next == Byte(f, l + 6)
    IN  IF f.len - l < IPV6_HEADER_SIZE \/ total_len > f.len - l THEN ParseError
        ELSE IF next = IP_PROTO_UDP THEN datagram(f, body, l + total_len)
        ELSE IF \/ next # IPV6_NEXT_FRAGMENT \/ l + total_len < data \/ Byte(f, body) # IP_PROTO_UDP
             THEN ParseError
        ELSE IF offset = 0 /\ ~more THEN datagram(f, data, l + total_len)
        ELSE FragmentOf(data, l + total_len, Word(f, body + 4), offset, more)

\* Parsed::parse: the version nibble decides.
parse(link, f) ==
    LET l == l3(link, f)
        version == Byte(f, l) \div 16
    IN  IF l < 0 \/ f.len <= l THEN ParseError
        ELSE IF version = 4 THEN parse_ipv4(f, l)
        ELSE IF version = 6 THEN parse_ipv6(f, l)
        ELSE ParseError

(* ------------------------------- behaviours ------------------------------- *)

IsDatagram == job.what = "datagram"

FrameInit ==
    /\ job \in {[what |-> "datagram", of |-> d] : d \in Datagrams} \union {[what |-> "foreign", of |-> x] : x \in Foreign}
    /\ index = 0
    /\ got = {}
    /\ taken = 0

\* The receiver's drain of one frame: what its bytes are, and where the parser puts them.
Captured(f) ==
    LET link == job.of.link
        parsed == parse(link, f)
    IN  /\ taken' = taken + (IF Accepts(link, f) THEN 1 ELSE 0)
        /\ got' = IF ~Accepts(link, f) THEN got
                  ELSE got \union {IF parsed.ok THEN [parsed EXCEPT !.from = @ - f.data.at + f.data.from] ELSE parsed}
        /\ index' = index + 1
        /\ UNCHANGED job

Sendable == IsDatagram /\ ~TooLarge(job.of) /\ chunk(job.of) > 0

\* transmit, one frame at a time; a switch may add a priority tag.
transmit(tag) ==
    /\ Sendable /\ index < count(job.of)
    /\ tag => job.of.link = "Ethernet"
    /\ LET f == Padded(job.of.link, write(job.of, index))
       IN  Captured(IF tag THEN Tagged(f, 8192) ELSE f)

\* send fails: the frames left are not sent.
TransmitFails ==
    /\ Sendable /\ index < count(job.of)
    /\ index' = count(job.of) + 1
    /\ UNCHANGED <<job, got, taken>>

Overhear ==
    /\ ~IsDatagram /\ index = 0
    /\ Captured(ForeignFrame(job.of))

FrameNext == (\E tag \in BOOLEAN : transmit(tag)) \/ TransmitFails \/ Overhear

(* ------------------------------- properties ------------------------------- *)

Positions(g) == g.from..g.from + g.len - 1

\* A datagram that can be laid out arrives: no frame exceeds the MTU, each passes the kernel filter
\* and is parsed, padding and priority tags notwithstanding; each piece is put where its bytes belong,
\* and together they are the whole datagram, each byte once, all with one identification
\* (net/frame.rs against capture/filter.rs and net/packet.rs).
DatagramsArrive ==
    IsDatagram =>
        LET d == job.of
        IN  /\ Sendable => \A i \in 0..taken - 1 : write(d, i).len - LinkSize(d.link) <= d.mtu
            /\ (Sendable /\ index <= count(d)) => taken = index
            /\ \A g \in got : g.ok /\ g.from = g.offset /\ (g.more => g.len % FRAGMENT_UNIT = 0)
            /\ \A g, h \in got : g # h => Positions(g) \intersect Positions(h) = {} /\ g.id = h.id
            /\ (Sendable /\ index = count(d)) =>
                  /\ UNION {Positions(g) : g \in got} = 0..datagram_len(d) - 1
                  /\ \A g \in got : g.more <=> g.from + g.len < datagram_len(d)

\* The kernel filter takes a frame of another sender exactly when it is UDP that the parser accepts
\* (net/packet.rs:3), of this network and not our own: a VLAN's traffic is dropped whether the tag is in
\* the frame or with the kernel.
FilterAgrees ==
    (~IsDatagram /\ index = 1) =>
        LET x == job.of
            here == /\ ~x.outgoing /\ (x.tag = "none" \/ x.tci % 4096 = 0)
                    /\ x.link = "Ethernet" => x.ethertype \in {2048, 34525}
        IN  /\ \A g \in got : g.ok
            /\ taken = 1 <=> here /\ parse(x.link, ForeignFrame(x)).ok

=============================================================================
