------------------------------ MODULE Resolution ------------------------------
(* How the addresses of an interface are read: on Linux by two netlink dumps         *)
(* (src/src/interface/rtnetlink.rs), on the BSDs by one listing and a query of the    *)
(* flags of each IPv6 address (interface/getifaddrs.rs), and how the source           *)
(* addresses are picked from them (interface.rs).                                    *)
(*                                                                                *)
(* The kernel's list may change between two datagrams of a dump, and between the     *)
(* listing and a query.  An address is a record of what the code tells apart, and an  *)
(* Option is the empty set for None and a singleton for Some.                       *)
EXTENDS Integers, Sequences, FiniteSets, SequencesExt

CONSTANTS
    Pool,           \* addresses the kernel may hold
    MaxListed,      \* how many at a time
    Links,          \* its interfaces, with the MAC of each: an Option
    OurIndex,       \* the interface that is read
    DUMP_DEADLINE,  \* datagrams of a dump that its deadline leaves time for
    MaxMoves        \* changes of the kernel's list during a read

VARIABLES
    system,     \* "linux" or "bsd"
    listed,     \* the kernel's addresses, of every interface
    listing,    \* BSD: the entries of getifaddrs not yet looked at
    phase,      \* where resolve is
    cursor,     \* Linux: how much of the list the dump has sent
    datagrams,  \* Linux: datagrams read in this dump
    addrs,      \* the InterfaceAddresses being filled in
    seen,       \* what the kernel has listed since resolve was called
    moves       \* changes of the list since then

resolutionVars == <<system, listed, listing, phase, cursor, datagrams, addrs, seen, moves>>

NoAddrs == [mac |-> {}, v4 |-> {}, v6 |-> {}, v6_routable |-> {}]

(* ------------------------------- the picks -------------------------------- *)

\* v6_rank, as V6Rank orders the classes.
v6_rank(address) ==
    CASE address.class = "NotASource" -> 0
      [] address.class = "Global" -> 1
      [] address.class = "UniqueLocal" -> 2
      [] address.class = "LinkLocal" -> 3

\* Better than what is held, if anything is.
Beats(address, held) == \A other \in held : v6_rank(address) > v6_rank(other)

\* Fault: a later address of the same rank is taken.
ConsiderLast(picked, address) ==
    LET better(held) == \A other \in held : v6_rank(address) >= v6_rank(other) IN
    IF v6_rank(address) = 0 THEN picked
    ELSE [picked EXCEPT !.v6 = IF better(@) THEN {address} ELSE @,
                        !.v6_routable = IF v6_rank(address) < 3 /\ better(@) THEN {address} ELSE @]

\* V6Pick::consider
consider(picked, address) ==
    IF v6_rank(address) = 0 THEN picked
    ELSE [picked EXCEPT !.v6 = IF Beats(address, @) THEN {address} ELSE @,
                        !.v6_routable = IF v6_rank(address) < 3 /\ Beats(address, @)
                                        THEN {address} ELSE @]

\* InterfaceAddresses::v6, the source for a destination of a scope.
v6(held, scope) ==
    IF scope = "Routable" /\ held.v6_routable # {} THEN held.v6_routable ELSE held.v6

FirstV4(picked, address) == [picked EXCEPT !.v4 = IF @ = {} THEN {address} ELSE @]

(* ---------------------------------- Linux --------------------------------- *)

\* scan_addr: one RTM_NEWADDR.
scan_addr(picked, message) ==
    IF message.ifindex # OurIndex \/ ~message.usable THEN picked
    ELSE IF message.family = "v4" THEN FirstV4(picked, message)
    ELSE consider(picked, message)

\* scan_link: one RTM_NEWLINK.
scan_link(picked, message) ==
    IF message.ifindex # OurIndex THEN picked ELSE [picked EXCEPT !.mac = message.mac]

\* netlink_socket, and the first request of resolve.
OpenSocket ==
    /\ phase = "open" /\ system = "linux"
    /\ phase' = "addresses"
    /\ UNCHANGED <<system, listed, listing, cursor, datagrams, addrs, seen, moves>>

Dumped == IF phase = "addresses" THEN listed ELSE Links

\* walk_dump, of a datagram with these messages.
walk_dump(messages) ==
    IF phase = "addresses" THEN FoldLeft(scan_addr, addrs, messages)
    ELSE FoldLeft(scan_link, addrs, messages)

\* One turn of dump: the kernel sends what its list holds from the cursor on, and NLMSG_DONE with the
\* last of it or by itself.  The address dump is followed by the link dump.
dump(count, done) ==
    LET messages == SubSeq(Dumped, cursor + 1, Min({cursor + count, Len(Dumped)})) IN
    /\ phase \in {"addresses", "link"}
    /\ datagrams < DUMP_DEADLINE
    /\ messages = <<>> => done
    /\ done => cursor + count >= Len(Dumped)
    /\ addrs' = walk_dump(messages)
    /\ IF done
       THEN /\ phase' = IF phase = "addresses" THEN "link" ELSE "resolved"
            /\ cursor' = 0 /\ datagrams' = 0
       ELSE cursor' = cursor + Len(messages) /\ datagrams' = datagrams + 1 /\ UNCHANGED phase
    /\ UNCHANGED <<system, listed, listing, seen, moves>>

\* A datagram that is not the kernel's is ignored.
IgnoreSender ==
    /\ phase \in {"addresses", "link"}
    /\ datagrams < DUMP_DEADLINE
    /\ datagrams' = datagrams + 1
    /\ UNCHANGED <<system, listed, listing, phase, cursor, addrs, seen, moves>>

(* ---------------------------------- BSD ----------------------------------- *)

\* inet6_socket and getifaddrs: the links and the addresses, at one time.
OpenListing ==
    /\ phase = "open" /\ system = "bsd"
    /\ listing' = Links \o listed
    /\ phase' = "entries"
    /\ UNCHANGED <<system, listed, cursor, datagrams, addrs, seen, moves>>

\* v6_flags: what the address is by now; the query fails when it is gone.
v6_flags(entry) == {a \in Range(listed) : a.addr = entry.addr /\ a.usable}

\* The next entry of the listing.  IPv4 addresses have no flags.
ReadEntry ==
    /\ phase = "entries" /\ listing # <<>>
    /\ LET entry == Head(listing) IN
       addrs' = IF entry.ifindex # OurIndex THEN addrs
                ELSE IF entry.family = "link" THEN scan_link(addrs, entry)
                ELSE IF entry.family = "v4" THEN FirstV4(addrs, entry)
                ELSE IF v6_flags(entry) = {} THEN addrs
                ELSE consider(addrs, [entry EXCEPT !.usable = TRUE])
    /\ listing' = Tail(listing)
    /\ UNCHANGED <<system, listed, phase, cursor, datagrams, seen, moves>>

EndListing ==
    /\ phase = "entries" /\ listing = <<>>
    /\ phase' = "resolved"
    /\ UNCHANGED <<system, listed, listing, cursor, datagrams, addrs, seen, moves>>

(* ------------------------------- behaviours ------------------------------- *)

\* A call fails, the kernel answers with an error or not at all, or the deadline passes.
ResolveFails ==
    /\ phase \in {"open", "addresses", "link"}
    /\ phase' = "failed"
    /\ UNCHANGED <<system, listed, listing, cursor, datagrams, addrs, seen, moves>>

\* The kernel drops an address, takes one, or changes whether one may be used.
KernelMoves ==
    /\ phase \notin {"resolved", "failed"}
    /\ moves < MaxMoves
    /\ moves' = moves + 1
    /\ \/ \E i \in DOMAIN listed : listed' = RemoveAt(listed, i)
       \/ \E a \in Pool : /\ Len(listed) < MaxListed
                          /\ \A b \in Range(listed) : a.addr # b.addr
                          /\ listed' = Append(listed, a)
       \/ \E i \in DOMAIN listed : listed' = [listed EXCEPT ![i].usable = ~@]
    /\ seen' = seen \union Range(listed')
    /\ UNCHANGED <<system, listing, phase, cursor, datagrams, addrs>>

ResolutionInit ==
    /\ system \in {"linux", "bsd"}
    /\ \E n \in 0..MaxListed : listed \in {l \in [1..n -> Pool] : \A i, j \in 1..n : l[i].addr = l[j].addr => i = j}
    /\ listing = <<>> /\ phase = "open" /\ cursor = 0 /\ datagrams = 0
    /\ addrs = NoAddrs /\ seen = Range(listed) /\ moves = 0

ResolutionNext ==
    \/ OpenSocket \/ OpenListing \/ ReadEntry \/ EndListing \/ IgnoreSender
    \/ \E count \in 0..2, done \in BOOLEAN : dump(count, done)
    \/ ResolveFails
    \/ KernelMoves

(* ------------------------------- properties ------------------------------- *)

\* May be taken for a source: of our interface, and usable as far as the system tells.
MaySource(a) ==
    a.ifindex = OurIndex /\ (a.usable \/ (system = "bsd" /\ a.family = "v4")) /\ v6_rank(a) > 0

\* The first of the best addresses among these.
FirstBest(among) ==
    LET at == {i \in DOMAIN listed : listed[i] \in among}
        Rank(i) == v6_rank(listed[i])
    IN  {listed[i] : i \in {k \in at : \A j \in at : IF j < k THEN Rank(j) < Rank(k) ELSE Rank(j) <= Rank(k)}}

\* What is resolved: nothing the kernel did not list as usable while it was read, an IPv6 address
\* whenever there is a routable one ("so this covers both scopes", interface.rs:72), and, when
\* the list did not change meanwhile, the first IPv4 address and for either scope the first of the
\* best IPv6 addresses, of the scope if the interface has one: aliases listed behind it never move
\* the source that proxies and sessions depend on (interface/getifaddrs.rs:60).
ResolvedIsBest ==
    phase = "resolved" =>
        LET sources == {a \in Range(listed) : MaySource(a)}
            six == {a \in sources : a.family = "v6"}
            beyond == {a \in six : a.class # "LinkLocal"}
        IN  /\ \A a \in addrs.v4 \union addrs.v6 \union addrs.v6_routable : MaySource(a) /\ a \in seen
            /\ addrs.mac = UNION {link.mac : link \in {l \in Range(Links) : l.ifindex = OurIndex}}
            /\ addrs.v6_routable # {} => addrs.v6 # {}
            /\ moves = 0 =>
                  /\ addrs.v4 = FirstBest(sources \ six)
                  /\ v6(addrs, "LinkLocal") = FirstBest(six)
                  /\ v6(addrs, "Routable") = FirstBest(IF beyond = {} THEN six ELSE beyond)

=============================================================================
