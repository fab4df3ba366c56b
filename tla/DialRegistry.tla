---------------------------- MODULE DialRegistry ----------------------------
(* The DIAL proxies: the registry that mints, reuses and evicts them              *)
(* (src/src/dispatch/dial_context.rs, reflector/dial/rewrite.rs) and the listeners *)
(* of each one (reflector/dial/proxy.rs).  What a connection does once it is open   *)
(* is DialConnection's; here it opens and, at some time, closes.                    *)
(*                                                                                *)
(* The program has one thread: rewriting a message and serving a ready listener are *)
(* one step each.  Time is in units of the shortest max-age; a grace is the time    *)
(* left.  Sockets run out: Sockets are all the proxies may open.                    *)
EXTENDS Integers, FiniteSetsExt, Functions

CONSTANTS
    Source, Targets,    \* captures: SSDP entries with dial share a source, each has a target
    Devices,            \* endpoints devices advertise
    Host,               \* those of them that name this host
    DEFAULT_DESC_GRACE, MAX_DESC_GRACE,
    MAX_DIAL_PROXIES, MAX_CONNECTIONS,
    Sockets,            \* the descriptors the rest of the process leaves to the proxies
    MaxMints,           \* bound: proxies ever registered
    MaxClients,         \* bound: clients that connect
    MaxFailures           \* bound: kernel calls that fail for another reason, and interface changes

NoMaxAge == -1
\* The max-ages a message may carry: none, and more than the longest grace.
Ages == {NoMaxAge, MAX_DESC_GRACE + 1}
None == "none"
Listeners == {"Description", "Rest"}

ASSUME DialRegistryAssumption ==
    /\ Host \subseteq Devices /\ None \notin Devices
    /\ {DEFAULT_DESC_GRACE, MAX_DESC_GRACE, MAX_DIAL_PROXIES, MAX_CONNECTIONS, Sockets,
        MaxMints, MaxClients, MaxFailures} \subseteq Nat
    /\ DEFAULT_DESC_GRACE > 0 /\ MAX_DESC_GRACE > 0

VARIABLES
    proxies,    \* the registry: by key, the handler, its description listener, the grace
    live,       \* the reactor's proxy handlers, by handler key
    minted,     \* handlers ever registered; a listener's address is its proxy's number
    clients, faults,
    result,     \* observer: what the last rewrite came to
    told        \* observer: the LOCATIONs rewritten, until they are out of date

registryVars == <<proxies, live, minted, clients, faults, result, told>>

Keys == [source : {Source}, target : Targets, endpoint : Devices]

(* -------------------------------- sockets --------------------------------- *)

OpenConnections == UNION {{<<h, c.n>> : c \in live[h].conns} : h \in DOMAIN live}
Opened == 2 * (Cardinality(DOMAIN live) + Cardinality(OpenConnections))
Room(n) == Opened + n <= Sockets

Fault == faults < MaxFailures /\ faults' = faults + 1
NoFault == UNCHANGED faults

\* The watches of a proxy with these connections: its listeners and both ends of each.
Watches(conns) ==
    ({0} \X Listeners) \union ({c.n : c \in conns} \X {"client", "device"})

(* ------------------------------ the registry ------------------------------ *)

is_registered(h) == h \in DOMAIN live

\* Fault: entries of evicted proxies are kept.
UnprunedRegistry == proxies

\* has_capacity drops the entries whose proxy is gone.
Pruned == [k \in {x \in DOMAIN proxies : is_registered(proxies[x].handler)} |-> proxies[k]]

max_age(age) == IF age = NoMaxAge THEN DEFAULT_DESC_GRACE ELSE Min({age, MAX_DESC_GRACE})

\* Fault: only the first message counts.
RefreshNothing(entry, grace) == entry

Refreshed(entry, grace) == [entry EXCEPT !.grace = grace]

Put(registry, key, entry) ==
    [k \in DOMAIN registry \union {key} |-> IF k = key THEN entry ELSE registry[k]]

NewProxy(key) ==
    [key |-> key, conns |-> {}, rest_endpoint |-> None, watched |-> Watches({}),
     pending |-> [l \in Listeners |-> 0]]

\* A rewritten LOCATION is good for the max-age it goes out with, and takes the place of an
\* earlier one; a message that outgrows its buffer goes out unchanged.
Tell(key, address, grace) ==
    LET others == {t \in told : t.key # key}
    IN  told' \in {others, others \union {[key |-> key, address |-> address, left |-> grace]}}

\* lookup finds a live proxy, and its grace is refreshed.
Reuse(key, grace) ==
    /\ key \in DOMAIN proxies /\ is_registered(proxies[key].handler)
    /\ proxies' = Put(proxies, key, Refreshed(proxies[key], grace))
    /\ result' = "reused"
    /\ Tell(key, proxies[key].desc_addr, grace)
    /\ UNCHANGED <<live, minted, faults>>

\* mint_proxy stops at the cap, at a device of this host (an address list that cannot be read
\* counts as one), at a listener or at a watch: what was opened closes again.
NotMinted(key) ==
    /\ key \notin DOMAIN Pruned
    /\ proxies' = Pruned
    /\ \/ Cardinality(DOMAIN Pruned) >= MAX_DIAL_PROXIES /\ result' = "cap" /\ NoFault
       \/ /\ Cardinality(DOMAIN Pruned) < MAX_DIAL_PROXIES
          /\ \/ key.endpoint \in Host /\ result' = "host" /\ NoFault
             \/ key.endpoint \notin Host /\ ~Room(2) /\ result' = "failed" /\ NoFault
             \/ result' = "failed" /\ Fault
    /\ UNCHANGED <<live, minted, told>>

Mint(key, grace) ==
    /\ key \notin DOMAIN Pruned
    /\ Cardinality(DOMAIN Pruned) < MAX_DIAL_PROXIES
    /\ key.endpoint \notin Host
    /\ Room(2)
    /\ minted < MaxMints /\ minted' = minted + 1
    /\ live' = Put(live, minted + 1, NewProxy(key))
    /\ proxies' = Put(Pruned, key, [handler |-> minted + 1, desc_addr |-> minted + 1, grace |-> grace])
    /\ result' = "minted"
    /\ Tell(key, minted + 1, grace)
    /\ NoFault

\* rewrite_location, for a message of the DIAL service whose LOCATION is a rewritable URL of an
\* address that can name a device.
rewrite_location ==
    \E key \in Keys, age \in Ages :
        /\ Reuse(key, max_age(age)) \/ NotMinted(key) \/ Mint(key, max_age(age))
        /\ UNCHANGED clients

\* Fault: the entries go, the proxies stay.
EvictEntriesOnly(keys) ==
    /\ proxies' = [k \in {x \in DOMAIN proxies \ keys : is_registered(proxies[x].handler)} |-> proxies[k]]
    /\ UNCHANGED live

\* evict_where: the proxies of these keys are unregistered, and their entries go even when the
\* poller complains; entries of proxies that are gone already go too.
evict_where(keys) ==
    LET gone == {proxies[k].handler : k \in keys}
    IN  /\ proxies' = [k \in {x \in DOMAIN proxies \ keys : is_registered(proxies[x].handler)} |->
                          proxies[k]]
        /\ live' = [h \in DOMAIN live \ gone |-> live[h]]

sweep_registry ==
    LET due == {k \in DOMAIN proxies : proxies[k].grace = 0}
    IN  /\ due # {}
        /\ evict_where(due)
        /\ result' = None
        /\ UNCHANGED <<minted, clients, faults, told>>

ChangedUnder(key, capture) == capture \in {key.source, key.target}

\* The interface of a capture moved or was recreated.
evict_on_interface_change ==
    \E capture \in {Source} \union Targets :
        LET keys == {k \in DOMAIN proxies : ChangedUnder(k, capture)}
        IN  /\ keys # {}
            /\ Fault
            /\ evict_where(keys)
            /\ told' = {t \in told : capture \notin {t.key.source, t.key.target}}
            /\ result' = None
            /\ UNCHANGED <<minted, clients>>

(* -------------------------------- a proxy --------------------------------- *)

\* A client that read a LOCATION or an Application-URL connects, and waits at the listener.
ClientConnects ==
    \E h \in DOMAIN live, l \in Listeners :
        /\ clients < MaxClients /\ clients' = clients + 1
        /\ live' = [live EXCEPT ![h].pending[l] = @ + 1]
        /\ result' = None
        /\ UNCHANGED <<proxies, minted, faults, told>>

\* Fault: the proxy is kept.
ShedNothing(h) == UNCHANGED <<live, told>>

\* accept failed: the proxy unregisters itself; its entry is pruned later.
Shed(h) ==
    /\ live' = [g \in DOMAIN live \ {h} |-> live[g]]
    /\ told' = {t \in told : t.key # live[h].key}

\* The endpoint a client of the listener is connected to, if one is known.
EndpointFor(h, l) ==
    IF l = "Description" THEN live[h].key.endpoint ELSE live[h].rest_endpoint

NextConn(conns) == Min((1 .. MAX_CONNECTIONS + 1) \ {c.n : c \in conns})

Taken(h, l) == [live[h] EXCEPT !.pending[l] = @ - 1]

\* Fault: the client's watch is left behind.
DeviceWatchLeaves(proxy, n) == [proxy EXCEPT !.watched = @ \union {<<n, "client">>}]

\* start_connection when the device's fd cannot be watched: the client's is unwatched again.
DeviceWatchFails(proxy, n) ==
    LET watching == [proxy EXCEPT !.watched = @ \union {<<n, "client">>}]
    IN  [watching EXCEPT !.watched = @ \ {<<n, "client">>}]

\* start_connection: the connect fails, or a watch does, or both ends are watched.
start_connection(h, l) ==
    LET proxy == Taken(h, l)
        n == NextConn(proxy.conns)
        conns == proxy.conns \union {[n |-> n, to |-> EndpointFor(h, l)]}
    IN  \/ live' = [live EXCEPT ![h] = proxy] /\ (IF Room(2) THEN Fault ELSE NoFault)
        \/ Room(2) /\ live' = [live EXCEPT ![h] = DeviceWatchFails(proxy, n)] /\ Fault
        \/ Room(2) /\ live' = [live EXCEPT ![h] = [proxy EXCEPT !.conns = conns,
                                              !.watched = Watches(conns)]] /\ NoFault

\* accept_client, accept_desc and accept_rest.
accept(h, l) ==
    /\ live[h].pending[l] > 0
    /\ \/ Shed(h) /\ (IF Room(1) THEN Fault ELSE NoFault)
       \/ /\ Room(1)
          /\ IF Cardinality(live[h].conns) >= MAX_CONNECTIONS \/ EndpointFor(h, l) = None
             THEN live' = [live EXCEPT ![h] = Taken(h, l)] /\ NoFault
             ELSE start_connection(h, l)
          /\ UNCHANGED told
    /\ result' = None
    /\ UNCHANGED <<proxies, minted, clients>>

\* adopt_rest_endpoint: a description response names the device's REST endpoint.
adopt_rest_endpoint ==
    \E h \in DOMAIN live : \E c \in live[h].conns, endpoint \in Devices :
        /\ c.to = live[h].key.endpoint
        /\ endpoint \notin Host
        /\ live[h].rest_endpoint # endpoint
        /\ live' = [live EXCEPT ![h].rest_endpoint = endpoint]
        /\ result' = None
        /\ UNCHANGED <<proxies, minted, clients, faults, told>>

\* close_conn: a connection ends, or the proxy's sweep finds it idle.
close_conn ==
    \E h \in DOMAIN live : \E c \in live[h].conns :
        /\ live' = [live EXCEPT ![h].conns = @ \ {c},
                                ![h].watched = @ \ {<<c.n, "client">>, <<c.n, "device">>}]
        /\ result' = None
        /\ UNCHANGED <<proxies, minted, clients, faults, told>>

GraceTick ==
    /\ \E k \in DOMAIN proxies : proxies[k].grace > 0
    /\ proxies' = [k \in DOMAIN proxies |-> [proxies[k] EXCEPT !.grace = Max({@ - 1, 0})]]
    /\ told' = {[t EXCEPT !.left = @ - 1] : t \in {x \in told : x.left > 1}}
    /\ result' = None
    /\ UNCHANGED <<live, minted, clients, faults>>

RegistryInit ==
    /\ proxies = <<>> /\ live = <<>>
    /\ minted = 0 /\ clients = 0 /\ faults = 0
    /\ result = None /\ told = {}

Accepts(h) == h \in DOMAIN live /\ \E l \in Listeners : accept(h, l)

RegistryNext ==
    \/ rewrite_location \/ sweep_registry \/ evict_on_interface_change
    \/ ClientConnects \/ adopt_rest_endpoint \/ close_conn \/ GraceTick
    \/ \E h \in DOMAIN live : Accepts(h)

\* The reactor serves a proxy with a ready listener.
RegistrySpec ==
    /\ RegistryInit /\ [][RegistryNext]_registryVars
    /\ \A h \in 1 .. MaxMints : WF_registryVars(Accepts(h))

(* ------------------------------ properties -------------------------------- *)

\* Every proxy the reactor runs is the one the registry has for its key, so that its grace, or an
\* interface change, can end it; there are never more than the cap, and a device is turned away for it
\* only when that many run (has_capacity: proxies that shed themselves do not count); and a proxy watches its
\* listeners and both ends of its connections and nothing else, after any failure half way
\* (mint_proxy, evict_where, start_connection).
ProxiesAccounted ==
    /\ \A h \in DOMAIN live :
         /\ live[h].key \in DOMAIN proxies
         /\ proxies[live[h].key].handler = h
         /\ live[h].watched = Watches(live[h].conns)
    /\ Cardinality(DOMAIN live) <= MAX_DIAL_PROXIES
    /\ result = "cap" => Cardinality(DOMAIN live) = MAX_DIAL_PROXIES

\* A LOCATION that was rewritten leads to a listener of a proxy for that very device and pair for
\* as long as the last message's max-age says, unless its interfaces change or the proxy is shed
\* (lookup: "its grace refreshed").
ToldIsServed ==
    \A t \in told : t.address \in DOMAIN live /\ live[t.address].key = t.key

Waiting(h) == h \in DOMAIN live /\ \E l \in Listeners : live[h].pending[l] > 0

\* A client waiting at a listener is accepted, turned away, or loses the listener: a listener
\* whose accept fails for want of descriptors does not stay ready for ever (accept_client: "this
\* level-triggered listener would re-fire on it without end").
QueuesDrain == \A h \in 1 .. MaxMints : Waiting(h) ~> ~Waiting(h)

=============================================================================
