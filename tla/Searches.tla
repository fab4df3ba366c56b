------------------------------ MODULE Searches ------------------------------
(* The search direction of SSDP and WSD (src/src/reflector/search.rs, with the     *)
(* protocols of reflector/ssdp.rs and wsd.rs): a search is reflected to the target *)
(* from a port reserved for its searcher, and a registration made for that port     *)
(* carries the answers back, until the session is swept or the target changes.      *)
(*                                                                                *)
(* The program has one thread, so a handler is one step.  Time is in seconds, an    *)
(* expiry the seconds left.  A group stands for the scope of the address it is sent *)
(* from; an address is the scope and its version.                                   *)
EXTENDS Integers, FiniteSetsExt, Functions

CONSTANTS
    Protocol,       \* "SSDP" or "WSD"
    Searchers,
    Ports,          \* the ephemeral ports of an address
    Deliveries,     \* the target sides considered: Link, or the scopes of the peers
    MXs,            \* the MX values of searches; NoMX is none
    MAX_SESSIONS,
    MaxSearches,    \* bound: searches reflected, attempts that fail included
    MaxChanges      \* bound: changes of the target's addresses

Link == {}
NoMX == -1

ASSUME SearchesAssumption ==
    /\ Protocol \in {"SSDP", "WSD"}
    /\ Deliveries \subseteq SUBSET {"v4", "link_local", "routable"}
    /\ MXs \subseteq Nat \union {NoMX}
    /\ {MAX_SESSIONS, MaxSearches, MaxChanges} \subseteq Nat

VARIABLES
    peers,          \* where the target side's datagrams go; it never changes
    addrs,          \* the version of the target's address of each scope, 0 for none
    sessions,       \* the live sessions, by searcher and group
    registrations,  \* the dispatcher's response registrations, by key
    made,           \* registrations ever made
    changes,
    asked           \* observer: the searches reflected, while their window lasts

vars == <<peers, addrs, sessions, registrations, made, changes, asked>>

Scopes == {"v4", "link_local", "routable"}
Family(scope) == IF scope = "v4" THEN "v4" ELSE "v6"

\* SearchProtocol: SSDP has two IPv6 groups, WSD the link-local one.
Groups == IF Protocol = "SSDP" THEN Scopes ELSE {"v4", "link_local"}

MX_MIN == 1
MX_MAX == 5
MSEARCH_MX_DEFAULT == 3
SESSION_GRACE == 2
SESSION_WINDOW == 5

parse_msearch_mx(mx) == Max({MX_MIN, Min({mx, MX_MAX})})
search_window(mx) ==
    SESSION_GRACE + IF mx = NoMX THEN MSEARCH_MX_DEFAULT ELSE parse_msearch_mx(mx)
window(mx) == IF Protocol = "SSDP" THEN search_window(mx) ELSE SESSION_WINDOW

\* Delivery::destination: the scope a datagram to the group reaches, none without a peer of its
\* family.
destination(group) ==
    IF peers = Link THEN {group} ELSE {p \in peers : Family(p) = Family(group)}

\* reply_source: the target's address of that scope.
reply_source(scope) ==
    IF addrs[scope] = 0 THEN {} ELSE {[scope |-> scope, version |-> addrs[scope]]}

(* ---------------------- registrations and reservations -------------------- *)

\* PortReservation: the port is the session's until the session is dropped.
Reserved == {s.source : s \in Range(sessions)}
Free(addr) == {p \in Ports : [addr |-> addr, port |-> p] \notin Reserved}

register(regs, key, source, searcher) ==
    [k \in DOMAIN regs \union {key} |->
        IF k = key THEN [source |-> source, to |-> searcher] ELSE regs[k]]

\* Fault: nothing is unregistered.
UnregisterNothing(regs, keys) == regs

unregister(regs, keys) == [k \in DOMAIN regs \ keys |-> regs[k]]

\* The session of a key, added or replaced; the sessions that stay.
WithSession(key, session) ==
    [k \in DOMAIN sessions \union {key} |-> IF k = key THEN session ELSE sessions[k]]
Keeping(keys) == [k \in keys |-> sessions[k]]
ResponseKeys(keys) == {sessions[k].response_key : k \in keys}

(* ------------------------------- on_packet -------------------------------- *)

Asked(key, source, left) ==
    [searcher |-> key.searcher, source |-> source, left |-> left]

Init ==
    /\ peers \in Deliveries
    /\ addrs \in {[s \in Scopes |-> 1], [s \in Scopes |-> IF s = "v4" THEN 1 ELSE 0]}
    /\ sessions = <<>> /\ registrations = <<>>
    /\ made = 0 /\ changes = 0
    /\ asked = {}

\* Fault: the window of the last search counts.
ExtendReplaces(session, left) == [session EXCEPT !.expiry = left]

\* "Extend, never shorten".
Extend(session, left) == [session EXCEPT !.expiry = Max({@, left})]

\* A search of a live session goes out from the port it holds; a send that fails changes nothing.
Refresh(key, left) ==
    /\ key \in DOMAIN sessions
    /\ sessions' = WithSession(key, Extend(sessions[key], left))
    /\ asked' = asked \union {Asked(key, sessions[key].source, left)}
    /\ made < MaxSearches /\ made' = made + 1
    /\ UNCHANGED <<peers, addrs, registrations, changes>>

\* Fault: one session too many.
UnderCapOrAt == Cardinality(DOMAIN sessions) <= MAX_SESSIONS

UnderCap == Cardinality(DOMAIN sessions) < MAX_SESSIONS

\* make_session, and the send that decides whether the session stays: the registration is made
\* first, and taken back when the send fails.
Open(key, left) ==
    /\ key \notin DOMAIN sessions
    /\ UnderCap
    /\ made < MaxSearches /\ made' = made + 1
    /\ \E scope \in destination(key.dest) : \E addr \in reply_source(scope) :
       \E port \in Free(addr) :
         LET source == [addr |-> addr, port |-> port]
             registered == register(registrations, made + 1, source, key.searcher)
         IN  \/ /\ registrations' = registered
                /\ sessions' = WithSession(key, [expiry |-> left, source |-> source,
                                                 response_key |-> made + 1])
                /\ asked' = asked \union {Asked(key, source, left)}
             \/ /\ registrations' = unregister(registered, {made + 1})
                /\ UNCHANGED <<sessions, asked>>
    /\ UNCHANGED <<peers, addrs, changes>>

on_packet ==
    \E searcher \in Searchers, group \in Groups, mx \in MXs :
        LET key == [searcher |-> searcher, dest |-> group]
        IN  /\ destination(group) # {}
            /\ Refresh(key, window(mx)) \/ Open(key, window(mx))

(* ---------------------- deadlines and interface changes ------------------- *)

\* Fault: a session is kept in the instant it expires.
ExpiredStrictly(session) == session.expiry < 0

Expired(session) == session.expiry <= 0

on_deadline ==
    LET due == {k \in DOMAIN sessions : Expired(sessions[k])}
    IN  /\ due # {}
        /\ registrations' = unregister(registrations, ResponseKeys(due))
        /\ sessions' = Keeping(DOMAIN sessions \ due)
        /\ UNCHANGED <<peers, addrs, made, changes, asked>>

\* Fault: a change of the source drops the sessions too.
StalesOnAny(captures) == captures # {}

\* on_iface_change: "A source change is ignored on purpose".
Stales(captures) == "target" \in captures

\* The dispatcher tells of the captures whose interface changed, in the step of the change: an
\* address comes, moves or goes, or the interface is recreated with the ones it had.
on_iface_change ==
    \E captures \in {{"source"}, {"target"}, {"source", "target"}}, scope \in Scopes :
        /\ changes < MaxChanges /\ changes' = changes + 1
        /\ IF "target" \in captures
           THEN \E version \in {0, addrs[scope], changes + 2} :
                    addrs' = [addrs EXCEPT ![scope] = version]
           ELSE UNCHANGED addrs
        /\ IF Stales(captures)
           THEN /\ registrations' = unregister(registrations, ResponseKeys(DOMAIN sessions))
                /\ sessions' = <<>>
           ELSE UNCHANGED <<registrations, sessions>>
        /\ asked' = IF "target" \in captures THEN {} ELSE asked
        /\ UNCHANGED <<peers, made>>

Elapse(left) == Max({left - 1, 0})

Tick ==
    /\ sessions # <<>> \/ asked # {}
    /\ sessions' = [k \in DOMAIN sessions |-> [sessions[k] EXCEPT !.expiry = Elapse(@)]]
    /\ asked' = {[a EXCEPT !.left = Elapse(@)] : a \in {x \in asked : x.left > 1}}
    /\ UNCHANGED <<peers, addrs, registrations, made, changes>>

Next == on_packet \/ on_deadline \/ on_iface_change \/ Tick

Spec == Init /\ [][Next]_vars /\ WF_vars(Tick) /\ WF_vars(on_deadline)

(* ------------------------------ properties -------------------------------- *)

\* Sessions, response registrations and reserved ports stay one to one through failed sends,
\* sweeps and interface changes (Session: "a RegistrationKey is no RAII guard: eviction and
\* rollback unregister it by hand"); no two share a port, each holds one on an address the target
\* has now (on_packet: "a live one is always bound to the interface's current identity"), and
\* there are never more than the cap.
SessionsInStep ==
    /\ DOMAIN registrations = ResponseKeys(DOMAIN sessions)
    /\ \A j, k \in DOMAIN sessions : sessions[j].source = sessions[k].source => j = k
    /\ \A k \in DOMAIN sessions :
         LET s == sessions[k]
         IN  /\ registrations[s.response_key] = [source |-> s.source, to |-> k.searcher]
             /\ addrs[s.source.addr.scope] = s.source.addr.version
    /\ Cardinality(DOMAIN sessions) <= MAX_SESSIONS

\* An answer to a search that comes within the window the search asked for is relayed to its
\* searcher and to no other, whatever was searched, refused, retransmitted with a shorter MX or
\* swept meanwhile, as long as the target has not changed (make_session; "Extend, never shorten").
RepliesComeBack ==
    \A a \in asked :
        {r.to : r \in {x \in Range(registrations) : x.source = a.source}} = {a.searcher}

\* Once the searches stop, every session ends and gives its port and registration back
\* (next_deadline and on_deadline).
SessionsEnd == <>[](sessions = <<>> /\ registrations = <<>>)

=============================================================================
