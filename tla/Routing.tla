------------------------------ MODULE Routing -------------------------------
(* The data path of the packet dispatcher: draining a capture, routing each frame to the          *)
(* registrations it matches, and what their handlers send (src/src/dispatch.rs, egress.rs and      *)
(* the captures of interface_table.rs).                                                           *)
(*                                                                                                *)
(* A handler is any code behind the PacketHandler trait: in one call it may make and remove        *)
(* registrations, through live and stale keys, and deliver one datagram or one copy per peer.      *)
(* The program has one thread, so a call is one step.  A filter matches a frame or not; a          *)
(* datagram is told apart by its digest.                                                          *)
EXTENDS Arena, Outcomes, FiniteSetsExt, TLC

CONSTANTS
    Captures, Datagrams,
    MAX_FRAMES_PER_EVENT,
    Batch,              \* frames one read can return: 1 for AF_PACKET, more for BPF
    Configured,         \* registrations made at startup
    MaxFrames,          \* bound: frames received
    MaxPackets,         \* bound: packets routed
    MaxRegistrations    \* bound: registrations made

ASSUME RoutingAssumption ==
    /\ {MAX_FRAMES_PER_EVENT, Batch, Configured, MaxFrames, MaxPackets} \subseteq Nat \ {0}
    /\ MaxRegistrations \in Nat /\ Configured <= MaxRegistrations

\* "A collision needs 2^32 reuses of one slot" (arena.rs): there are fewer.
ASSUME ReuseAssumption == MaxRegistrations < GenMod

VARIABLES
    registrations,      \* Arena<Registration>
    made,               \* registrations ever made; a handler is told apart by its number
    captures,           \* per capture: taken out, frames of the batch still unread, the datagrams sent
    bound,              \* the captures whose interface is bound
    egress,             \* the number of the packet being routed, and whether one is
    at,                 \* "idle", "drain", "route" or "sweep"
    keys,               \* route_keys, or the rest of a deadline sweep or broadcast
    drain,              \* the locals of drain_and_route
    final_outcome,
    recorded,           \* the count the last step added to a capture's counters
    frames,             \* frames received so far
    seen                \* observer, of the packet being routed: the handlers due and fed, their
                        \* outcomes, the datagrams out and the last delivery

vars == <<registrations, made, captures, bound, egress, at, keys, drain, final_outcome, recorded,
          frames, seen>>

None == NoValue

Registrations == [ingress : Captures, matches : BOOLEAN, handler : Nat \cup {None}]

\* An Option's None is none of the values.
ASSUME NoneAssumption ==
    None \notin Nat /\ None \notin Captures /\ None \notin Registrations
        /\ None \notin MessageType \cup {NoType}

NoRecord == [capture |-> None, count |-> record_oversized(0)]
Recorded(c, count) == [capture |-> c, count |-> count]
NoOutcome == [disposition |-> Filtered, type |-> None]
NoDrain == [ingress |-> None, bound |-> FALSE, drained |-> 0, oversized |-> 0, reads |-> 0]
NoDelivery == [ok |-> FALSE, egress |-> None, copies |-> {}]
Unseen == [due |-> {}, fed |-> <<>>, outcomes |-> {}, told |-> NoDelivery,
           out |-> [c \in Captures |-> [d \in Datagrams |-> 0]]]

(* ------------------------- registrations and calls ----------------------- *)

\* A filter matches the frames there are, or it does not.
Legs == [ingress : Captures, matches : BOOLEAN]
Registration(spec, handler) ==
    [ingress |-> spec.ingress, matches |-> spec.matches, handler |-> handler]

\* register and unregister, on the registrations and the number made.
register(r, spec) ==
    [regs |-> Insert(r.regs, Registration(spec, r.made + 1)), made |-> r.made + 1]
unregister(r, key) == [r EXCEPT !.regs = Remove(@, key)]

\* Every key that was ever handed out; the next one of an empty slot removes nothing.
AnyKey(regs) ==
    {k \in [index : DOMAIN regs.slots, generation : 0 .. MaxRegistrations] :
        k.generation <= regs.slots[k.index].generation}

OneCall(r) ==
    {unregister(r, k) : k \in AnyKey(r.regs)}
        \union {register(r, s) : s \in IF r.made < MaxRegistrations THEN Legs ELSE {}}

\* What at most two calls make of the registrations.
Calls(r) == {r} \union OneCall(r) \union UNION {OneCall(x) : x \in OneCall(r)}

take_handler(regs, key) == Put(regs, key, [Get(regs, key) EXCEPT !.handler = None])
restore_handler(regs, key, handler) ==
    IF Contains(regs, key) THEN Put(regs, key, [Get(regs, key) EXCEPT !.handler = handler]) ELSE regs

(* --------------------------------- egress -------------------------------- *)

\* The copies already out for this packet; a send outside routing is never a duplicate.
already_sent(e, copies) ==
    IF egress.routing /\ captures[e].sent_packet = egress.packet THEN captures[e].sent \cap copies
    ELSE {}

\* Fault: the datagrams of the last packet are kept.
RecordSentKeeps(e, out) ==
    IF out = {} \/ ~egress.routing THEN captures
    ELSE [captures EXCEPT ![e].sent_packet = egress.packet, ![e].sent = @ \union out]

\* Fault: the list is cleared after the datagram is added to it.
RecordSentClears(e, out) ==
    IF out = {} \/ ~egress.routing THEN captures
    ELSE [captures EXCEPT ![e].sent_packet = egress.packet,
                          ![e].sent = IF captures[e].sent_packet = egress.packet
                                      THEN @ \union out ELSE {}]

record_sent(e, out) ==
    IF out = {} \/ ~egress.routing THEN captures
    ELSE [captures EXCEPT ![e].sent_packet = egress.packet,
                          ![e].sent = IF captures[e].sent_packet = egress.packet
                                      THEN @ \union out ELSE out]

\* send_udp_to_peers, and with one copy send_udp: a copy is recorded only once every frame of it
\* is out, so that a failed one is left for another handler to try.  The captures after it, what went out, and
\* whether the caller is told Ok.
deliver(e, copies, failed) ==
    LET already == already_sent(e, copies)
        fresh == copies \ already
        out == fresh \ failed
    IN  IF fresh = {} THEN [captures |-> captures, out |-> {}, ok |-> TRUE]
        ELSE IF captures[e].taken THEN [captures |-> captures, out |-> {}, ok |-> TRUE]
        ELSE IF e \notin bound THEN [captures |-> captures, out |-> {}, ok |-> FALSE]
        ELSE [captures |-> record_sent(e, out), out |-> out, ok |-> already # {} \/ out # {}]

\* A delivery gives Reflected or, failing, Dropped; without one a handler returns any other.
OutcomesWithout == {o \in Outcome : o.disposition # Reflected}
OutcomesOf(ok) == [disposition : {IF ok THEN Reflected ELSE Dropped}, type : MessageType]

Emitted(e, out) == [seen.out EXCEPT ![e] = [d \in Datagrams |-> IF d \in out THEN @[d] + 1 ELSE @[d]]]

\* One call of the handler behind a key, taken out before and put back after: what it does to
\* the registrations.
Call(key) ==
    LET handler == Get(registrations, key).handler
    IN  \E after \in Calls([regs |-> take_handler(registrations, key), made |-> made]) :
          /\ registrations' = restore_handler(after.regs, key, handler)
          /\ made' = after.made

\* on_packet: what it delivers, if anything, and the outcome it returns.  A leg never delivers on
\* the capture it listens on.
on_packet(key, outcome) ==
    LET reg == Get(registrations, key)
        fed == [seen EXCEPT !.fed = Append(@, reg.handler), !.outcomes = @ \union {outcome},
                            !.told = NoDelivery]
    IN  /\ \/ /\ outcome \in OutcomesWithout
              /\ seen' = fed
              /\ UNCHANGED captures
           \/ \E e \in Captures \ {reg.ingress}, copies \in (SUBSET Datagrams) \ {{}} :
              \E failed \in SUBSET copies :
                LET sent == deliver(e, copies, failed)
                IN  /\ outcome \in OutcomesOf(sent.ok)
                    /\ captures' = sent.captures
                    /\ seen' = [fed EXCEPT !.told = [ok |-> sent.ok, egress |-> e, copies |-> copies],
                                           !.out = Emitted(e, sent.out)]
        /\ Call(key)

(* ------------------------------ route, sweep ----------------------------- *)

Applies(key) ==
    LET reg == Get(registrations, key)
    IN  Contains(registrations, key) /\ reg.ingress = drain.ingress /\ reg.matches

Init ==
    /\ \E legs \in [1 .. Configured -> Legs] :
         registrations = [slots |-> [i \in 1 .. Configured |->
                              [generation |-> 0, value |-> Registration(legs[i], i)]], free |-> <<>>]
    /\ made = Configured
    /\ captures = [c \in Captures |-> [taken |-> FALSE, buffered |-> 0, sent_packet |-> 0, sent |-> {}]]
    /\ bound = Captures
    /\ egress = [packet |-> 0, routing |-> FALSE]
    /\ at = "idle" /\ keys = {} /\ drain = NoDrain /\ final_outcome = NoOutcome
    /\ recorded = NoRecord
    /\ frames = 0
    /\ seen = Unseen

\* The interface of a capture is bound or unbound by another handler of the dispatcher.
Rebound ==
    /\ at = "idle"
    /\ \E c \in Captures : bound' = IF c \in bound THEN bound \ {c} ELSE bound \union {c}
    /\ UNCHANGED <<registrations, made, captures, egress, at, keys, drain, final_outcome,
                   frames, seen>>
    /\ recorded' = NoRecord

\* route, up to its loop: the keys are a snapshot.
begin_packet ==
    /\ egress' = [packet |-> egress.packet + 1, routing |-> TRUE]
    /\ keys' = Keys(registrations)
    /\ at' = "route"
    /\ final_outcome' = NoOutcome
    /\ seen' = [Unseen EXCEPT !.due =
         {Get(registrations, k).handler : k \in {x \in Keys(registrations) : Applies(x)}}]

\* The loop's next key, in slot order.
TakeKey(key) ==
    /\ key \in keys /\ \A other \in keys : key.index <= other.index
    /\ keys' = keys \ {key}

RouteSkip ==
    /\ at = "route"
    /\ \E key \in keys : TakeKey(key) /\ ~Applies(key)
    /\ UNCHANGED <<registrations, made, captures, bound, egress, at, drain, final_outcome,
                   frames, seen>>
    /\ recorded' = NoRecord

RouteCall ==
    /\ at = "route"
    /\ \E key \in keys, outcome \in Outcome :
         /\ TakeKey(key) /\ Applies(key)
         /\ on_packet(key, outcome)
         /\ final_outcome' = IF final_outcome = NoOutcome THEN outcome
                             ELSE combine(final_outcome, outcome)
    /\ UNCHANGED <<bound, egress, at, drain, frames>>
    /\ recorded' = NoRecord

RouteDone ==
    /\ at = "route" /\ keys = {}
    /\ egress' = [egress EXCEPT !.routing = FALSE]
    /\ recorded' = IF final_outcome = NoOutcome THEN NoRecord
                   ELSE Recorded(drain.ingress, record(final_outcome))
    /\ drain' = [drain EXCEPT !.drained = @ + 1]
    /\ at' = "drain" /\ final_outcome' = NoOutcome /\ seen' = Unseen
    /\ UNCHANGED <<registrations, made, captures, bound, keys, frames>>

\* on_deadline's sweep of the handlers that are due, and the broadcast of notify_iface_change.
SweepStart ==
    /\ at = "idle"
    /\ keys' \in SUBSET Keys(registrations)
    /\ at' = "sweep"
    /\ seen' = Unseen
    /\ UNCHANGED <<registrations, made, captures, bound, egress, drain, final_outcome, frames>>
    /\ recorded' = NoRecord

SweepNext ==
    /\ at = "sweep"
    /\ \E key \in keys :
         /\ TakeKey(key)
         /\ IF Contains(registrations, key) THEN Call(key) ELSE UNCHANGED <<registrations, made>>
    /\ UNCHANGED <<captures, seen, bound, egress, at, drain, final_outcome, frames>>
    /\ recorded' = NoRecord

SweepDone ==
    /\ at = "sweep" /\ keys = {}
    /\ at' = "idle"
    /\ UNCHANGED <<registrations, made, captures, bound, egress, keys, drain, final_outcome,
                   frames, seen>>
    /\ recorded' = NoRecord

(* ---------------------------- drain_and_route ---------------------------- *)

on_readable(c) ==
    /\ at = "idle"
    /\ captures' = [captures EXCEPT ![c].taken = TRUE]
    /\ drain' = [NoDrain EXCEPT !.ingress = c, !.bound = c \in bound]
    /\ at' = "drain"
    /\ UNCHANGED <<registrations, made, bound, egress, keys, final_outcome, frames, seen>>
    /\ recorded' = NoRecord

\* Fault: the frames of the batch are not asked for.
AtLimitUnread == drain.drained >= MAX_FRAMES_PER_EVENT

AtLimit == drain.drained >= MAX_FRAMES_PER_EVENT /\ captures[drain.ingress].buffered = 0

\* next_frame hands out a frame of the batch, and reads the next batch when it is used up.
Reads(buffered) ==
    /\ frames < MaxFrames
    /\ captures' = [captures EXCEPT ![drain.ingress].buffered = buffered]
    /\ frames' = frames + 1

NextFrame(c) ==
    /\ at = "drain" /\ drain.ingress = c /\ ~AtLimit
    /\ IF captures[c].buffered > 0 THEN Reads(captures[c].buffered - 1)
       ELSE \E n \in 1 .. Batch : Reads(n - 1)

\* Fault: a frame that is too large is not counted against the limit.
OversizedIsFree(d, oversized) ==
    [d EXCEPT !.drained = @ + 1 - oversized, !.oversized = @ + oversized, !.reads = @ + 1]

DrainedOne(d, oversized) ==
    [d EXCEPT !.drained = @ + 1, !.oversized = @ + oversized, !.reads = @ + 1]

\* A frame that goes nowhere: it is too large, or the interface is not bound, or it does not parse
\* (or is a fragment that completes nothing), or it is our own.
SkipFrame ==
    /\ NextFrame(drain.ingress)
    /\ \/ drain' = DrainedOne(drain, 1) /\ recorded' = NoRecord
       \/ drain' = DrainedOne(drain, 0) /\ recorded' = NoRecord
       \/ /\ drain.bound
          /\ drain' = DrainedOne(drain, 0)
          /\ recorded' = Recorded(drain.ingress, record_echo)
    /\ UNCHANGED <<registrations, made, bound, egress, at, keys, final_outcome, seen>>

\* A datagram, whole or just reassembled, is routed.
RouteFrame ==
    /\ egress.packet < MaxPackets
    /\ NextFrame(drain.ingress)
    /\ drain.bound
    /\ begin_packet
    /\ drain' = [drain EXCEPT !.reads = @ + 1]
    /\ recorded' = NoRecord
    /\ UNCHANGED <<registrations, made, bound>>

\* The limit, a read that would block, or one that fails: a malformed batch is abandoned.  Only
\* at the limit is the batch left as it is.
DrainDone ==
    /\ at = "drain"
    /\ captures' = [captures EXCEPT ![drain.ingress].taken = FALSE,
                       ![drain.ingress].buffered = IF AtLimit THEN @ ELSE 0]
    /\ recorded' = IF drain.oversized = 0 THEN NoRecord
                   ELSE Recorded(drain.ingress, record_oversized(drain.oversized))
    /\ at' = "idle" /\ drain' = NoDrain
    /\ UNCHANGED <<registrations, made, bound, egress, keys, final_outcome, frames, seen>>

Next ==
    \/ Rebound \/ SweepStart \/ SweepNext \/ SweepDone
    \/ \E c \in Captures : on_readable(c)
    \/ SkipFrame \/ RouteFrame \/ RouteSkip \/ RouteCall \/ RouteDone \/ DrainDone

Spec == Init /\ [][Next]_vars

(* ------------------------------ properties ------------------------------- *)

\* No capture and no datagram is told from another.
Symmetry == Permutations(Captures) \union Permutations(Datagrams)

\* Each handler that matched the packet when it was snapshot is fed it exactly once, unless it was
\* removed before its turn; one registered meanwhile is not fed it, even in a slot that a removed
\* one left (route: "a registration made mid-route isn't fed the in-flight frame").
FedOnce ==
    at = "route" =>
        /\ Range(seen.fed) \subseteq seen.due
        /\ \A i, j \in DOMAIN seen.fed : seen.fed[i] = seen.fed[j] => i = j
        /\ keys = {} => \A k \in Keys(registrations) :
              Get(registrations, k).handler \notin seen.due \ Range(seen.fed)

\* For one packet no datagram goes out twice on a capture, however many handlers relay it
\* (already_sent: "two entries whose legs coincide").
OnceEach == at = "route" => \A c \in Captures, d \in Datagrams : seen.out[c][d] <= 1

\* A handler is told that its delivery succeeded only when one of the copies is out for this very
\* packet, its own or an equal one: neither a datagram of an earlier packet nor a failed attempt
\* of another handler stands for it (record_sent; transmit: "Recorded only once every frame is
\* out, so a failed send leaves the second entry to try").
OkIsOut ==
    seen.told.ok /\ ~captures[seen.told.egress].taken =>
        \E d \in seen.told.copies : seen.out[seen.told.egress][d] > 0

\* Suppressing equal datagrams neither repeats one nor loses one.
SentOnceIfOk == OnceEach /\ OkIsOut

\* One readable event reads no more than the limit and the rest of one batch, whatever the frames
\* are, so a busy capture cannot keep the loop (MAX_FRAMES_PER_EVENT); and it leaves no frame behind
\* in the capture's own buffer, where the level-triggered wait would not see it (has_buffered).
DrainEnds ==
    /\ drain.reads <= MAX_FRAMES_PER_EVENT + Batch - 1
    /\ at \in {"idle", "sweep"} => \A c \in Captures : captures[c].buffered = 0

\* What all the handlers' outcomes amount to: the best disposition, under the protocol's type
\* when any of them has it.
Best(outcomes) ==
    LET disposition == Max({o.disposition : o \in outcomes})
        types == {o.type : o \in outcomes} \ {NoType}
    IN  IF disposition = Filtered THEN FilteredOutcome
        ELSE [disposition |-> disposition,
              type |-> IF types \subseteq {UdpDatagram} THEN UdpDatagram
                       ELSE CHOOSE t \in types : is_specific(t)]

\* A routed packet is counted once, on the capture it came in by, under the best of its handlers'
\* outcomes, in whatever order they were fed (combine: "Order-independent"), unless two protocols
\* claim it, which route logs as an error.
CountedAsBest ==
    [][at = "route" /\ at' = "drain" /\ (\A a, b \in seen.outcomes : ~type_mismatch(a, b)) =>
         recorded' = IF seen.outcomes = {} THEN NoRecord
                     ELSE Recorded(drain.ingress, record(Best(seen.outcomes)))]_vars

=============================================================================
