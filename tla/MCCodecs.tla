------------------------------- MODULE MCCodecs ------------------------------
(* What the daemon makes of outside data, each on small inputs: HTTP streams cut     *)
(* into reads, datagrams laid out as frames, the kernel's lists of addresses, and mDNS   *)
(* messages.  They share nothing: a behaviour is of one.                            *)
EXTENDS HttpFraming, Frames, Resolution, MdnsMessages

Message(empty, lines, body, refused) ==
    [empty |-> empty, lines |-> lines, body |-> body, refused |-> refused]

\* A chunk whose data is an empty line, and the last chunk.
Chunks == <<"size2">> \o CRLF \o CRLF \o CRLF \o <<"size0">> \o CRLF

\* A chunk line that does not end.
Endless == <<"size2", "x", "x">>

Requests ==
    {Message(0, <<"GET", "host">>, <<>>, FALSE),
     Message(1, <<"POST", "cl2">>, CRLF, FALSE),
     Message(0, <<"POST", "chunked">>, Chunks \o <<"trailer">> \o CRLF \o CRLF, FALSE),
     Message(1, <<"HEAD">>, <<>>, TRUE),
     Message(0, <<"POST", "cl2", "cl3">>, CRLF, TRUE),
     Message(0, <<"POST", "chunked">>, <<"junk">> \o CRLF, TRUE),
     Message(0, <<"POST", "chunked">>, Endless, TRUE),
     Message(0, <<"POST", "cl2", "cl2", "cl2">>, CRLF, TRUE),
     Message(7, <<"GET">>, <<>>, TRUE)}

Responses ==
    {Message(0, <<"status200", "cl2", "url1">>, CRLF, FALSE),
     Message(0, <<"status200", "url2", "url1">>, <<"data">> \o CRLF \o CRLF, FALSE),
     Message(1, <<"status204", "cl2", "host">>, <<>>, FALSE),
     Message(0, <<"status201", "chunked", "location">>, Chunks \o CRLF, FALSE),
     Message(0, <<"status200", "chunked", "cl0">>, <<>>, TRUE),
     Message(0, <<"status200", "cl+">>, <<>>, TRUE)}

\* A body that ends with the connection is the last one.
EndsStream(m) == m.body = Endless \/ m.lines = <<"status200", "url2", "url1">>

StreamsOf(kind, messages) ==
    {[kind |-> kind, messages |-> <<m>>] : m \in messages}
      \union {[kind |-> kind, messages |-> <<m, n>>] : m \in {k \in messages : ~EndsStream(k)}, n \in messages}

SmallStreams == StreamsOf("Request", Requests) \union StreamsOf("Response", Responses)

\* MTUs that leave no room, room for one unit, and room that is no multiple of it.
SmallDatagrams ==
    {[link |-> link, version |-> version, payload |-> payload, id |-> 65537, mtu |-> mtu] :
        link \in {"Ethernet", "RawIp", "DltNull"}, version \in {4, 6}, payload \in {0, 1, 8, 17, 30, 65528},
        mtu \in {27, 28, 36, 43, 55, 56, 63, 70}}

SmallForeign ==
    {[link |-> "Ethernet", version |-> version, ethertype |-> ethertype, tag |-> tag, tci |-> tci, proto |-> proto,
      next |-> next, outgoing |-> outgoing] :
        version \in {4, 6}, ethertype \in {2048, 34525, 2054}, tag \in {"none", "inside", "stripped"},
        tci \in {0, 7, 8192}, proto \in {6, 17, 44}, next \in {6, 17}, outgoing \in BOOLEAN}
    \union
    {[link |-> link, version |-> version, ethertype |-> 0, tag |-> "none", tci |-> 0, proto |-> proto, next |-> next,
      outgoing |-> outgoing /\ link = "RawIp"] :
        link \in {"RawIp", "DltNull"}, version \in {4, 5, 6}, proto \in {6, 17, 44}, next \in {6, 17},
        outgoing \in BOOLEAN}

MatchingForeign ==
    {x \in SmallForeign : (x.ethertype = 2048 => x.version = 4) /\ (x.ethertype = 34525 => x.version = 6)}

NoJob == [what |-> "none"]

StreamIdle == sent = [kind |-> "none", messages |-> <<>>, bytes |-> <<>>] /\ read = 0 /\ recv = EmptyBuffer
                /\ framer = [phase |-> "none", body_remaining |-> 0, chunk_remaining |-> 0] /\ out = <<>>
                /\ learned = NoUrl /\ state = "Idle"

FrameIdle == job = NoJob /\ index = 0 /\ got = {} /\ taken = 0

ResolutionIdle == system = "none" /\ listed = <<>> /\ listing = <<>> /\ phase = "idle" /\ cursor = 0
                    /\ datagrams = 0 /\ addrs = NoAddrs /\ seen = {} /\ moves = 0

\* Two of each kind of IPv6 address the picks tell apart, one of another interface.
Address(addr, family, class) ==
    [addr |-> addr, family |-> family, class |-> class, ifindex |-> 1, usable |-> TRUE]

SmallPool ==
    {Address("a", "v4", "Global"), Address("b", "v4", "Global"), Address("l", "v6", "LinkLocal"),
     Address("u", "v6", "UniqueLocal"), Address("g", "v6", "Global"), Address("h", "v6", "Global"),
     Address("n", "v6", "NotASource"), [Address("x", "v6", "LinkLocal") EXCEPT !.ifindex = 2],
     [Address("m", "v6", "LinkLocal") EXCEPT !.usable = FALSE]}

SmallLinks ==
    <<[ifindex |-> 2, family |-> "link", mac |-> {"other"}], [ifindex |-> 1, family |-> "link", mac |-> {"ours"}]>>

HostName == <<Label("h"), End>>
OffListName == <<Label("_r"), Label("_tcp"), End>>
OnListName == <<Label("_s"), Label("_tcp"), End>>
\* Names with and without a pointer: to any label or pointer so far, to itself, or ahead.
NamesAfter(cells) ==
    LET targets == {i \in DOMAIN cells : cells[i].is \in {"label", "pointer"}} \union {Len(cells) + 1, Len(cells) + 4}
    IN  {Append(inline, Pointer(i)) : inline \in {<<>>, <<Label("h")>>}, i \in targets} \union {HostName, OffListName, OnListName}

Record(section, owner, rtype, rdata) ==
    [section |-> section, cells |-> owner \o <<Fixed(rtype, Len(rdata))>> \o rdata]

SmallEntries(m) ==
    {[section |-> Question, cells |-> Append(name, Asked)] : name \in IF m.response THEN {HostName} ELSE NamesAfter(m.cells)}
    \union IF ~m.response THEN {Record(Answer, OffListName, "PTR", HostName)}
    ELSE {Record(4, name, "A", <<Octets("usable")>>) : name \in NamesAfter(m.cells)}
      \union {Record(Answer, HostName, "A", <<Octets("usable")>>)}
      \union {Record(section, HostName, "A", <<Octets("unreachable")>>) : section \in {Answer, 4}}
      \union {Record(Answer, OffListName, "PTR", name) : name \in NamesAfter(m.cells)}
      \union {Record(4, name, "SRV", <<Octets("port")>> \o HostName) : name \in {OffListName, OnListName}}
      \union {Record(3, HostName, "SOA", OffListName \o OnListName), Record(Answer, HostName, "TXT", OnListName)}

SmallAllowed == {<<"_s", "_tcp">>}

MdnsIdle == message = [response |-> FALSE, counts |-> <<0, 0, 0, 0>>, cells |-> <<End>>] /\ judged = <<>>

Init ==
    \/ StreamInit /\ FrameIdle /\ ResolutionIdle /\ MdnsIdle
    \/ StreamIdle /\ FrameInit /\ ResolutionIdle /\ MdnsIdle
    \/ StreamIdle /\ FrameIdle /\ ResolutionInit /\ MdnsIdle
    \/ StreamIdle /\ FrameIdle /\ ResolutionIdle /\ MdnsInit

Next ==
    \/ StreamNext /\ UNCHANGED <<frameVars, resolutionVars, mdnsVars>>
    \/ job # NoJob /\ FrameNext /\ UNCHANGED <<streamVars, resolutionVars, mdnsVars>>
    \/ system # "none" /\ ResolutionNext /\ UNCHANGED <<streamVars, frameVars, mdnsVars>>
    \/ message.cells # <<End>> /\ MdnsNext /\ UNCHANGED <<streamVars, frameVars, resolutionVars>>

Spec == Init /\ [][Next]_<<streamVars, frameVars, resolutionVars, mdnsVars>>

=============================================================================
