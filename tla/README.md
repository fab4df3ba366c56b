# A TLA+ model of netflector

netflector joins network segments at the application layer: it captures multicast, broadcast and
discovery traffic on one interface and re-emits it on another (mDNS, SSDP, WSD, Wake-on-LAN, a
generic UDP relay), relays the unicast replies to searches, and proxies DIAL devices over TCP.  It
is one process with one thread, driven by a readiness reactor, and it keeps running while the
interfaces under it come, go, are renamed and change address.

This directory holds TLA+ modules translated from the code, TLC configurations that check them on
small instances, and TLAPS proofs of what can be shown for every instance.  `PROJECT.json` lists the
components, the runs, the source lines each definition stands for, the faults that break each
property, and the hazards that the properties are aimed at.  All source paths below are relative to
`src/src/`.

To check a configuration or the proofs of a module:

    tlc -config Routing.cfg Routing
    tlapm ArenaUseProofs.tla

## The system

| Part | Source | State | Modelled in |
|---|---|---|---|
| Arena | `reactor/arena.rs` | slots with generations, a free list | `Arena`, `ArenaUse`, `Handles` |
| Reactor | `reactor.rs`, `reactor/poll/` | handlers, registrations, kernel interest | `Reactor` |
| Signals | `reactor/signal.rs` | statics, self-pipe, dispositions | `Signal` |
| Routing | `dispatch.rs`, `dispatch/egress.rs`, `capture/` | registrations, captures, datagrams sent | `Routing` |
| Outcomes | `dispatch/counters.rs` | the fold of outcomes, the counters | `Outcomes` |
| Interfaces | `dispatch/interface_table.rs`, `lifecycle.rs`, `multicast.rs` | presence, addresses, memberships, schedules | `Interfaces` |
| Interface addresses | `interface.rs`, `interface/{rtnetlink,getifaddrs}.rs` | none between two reads | `Resolution` |
| Reassembly | `dispatch/reassembly.rs`, `linear_map.rs` | datagrams collected and discarded, buffers | `Reassembly`, `LinearMap` |
| Frames | `net/frame.rs`, `dispatch/datagram.rs`, `capture/filter.rs`, `net/packet.rs` | none | `Frames` |
| DIAL connection | `reflector/dial/connection.rs`, `net/tcp.rs` | two flows, their buffers, interest, deadline | `DialConnection` |
| HTTP streams | `net/stream_buffer.rs`, `net/http/framing.rs` | cursors, the framer's phase | `HttpFraming` |
| DIAL proxies | `reflector/dial/{proxy,rewrite}.rs`, `dispatch/dial_context.rs` | listeners, connections, registry | `DialRegistry` |
| Search sessions | `reflector/search.rs`, `net/port_reservation.rs` | sessions, reserved ports, reply registrations | `Searches` |
| Other reflectors | `reflector/{simple,mdns,ssdp,wsd,wol,udp}.rs` | none of their own | `Legs` |
| mDNS filters | `net/mdns/{message,services,addresses}.rs` | none | `MdnsMessages` |
| Configuration, startup | `config/`, `lib.rs` | none after startup | `Entries` |
| Privileges | `privileges.rs`, `privileges/caps.rs` | ids and capabilities of the process | `Privileges` |
| Other parsers, logging | `net/`, `logging.rs` | none that others read | no |

How the parts meet: `lib.rs` opens the captures and registers the packet dispatcher, and each DIAL
proxy as it is minted, as handlers of the reactor.  The reactor waits, hands each readiness event to
the handler that watched the fd, then serves control requests and deadlines.  The dispatcher drains a
readable capture, reassembles fragments and routes each datagram to the registrations that match it;
their handlers send on other captures, and may register and unregister others.  Another fd of the
dispatcher is the interface monitor's: its events, a periodic reconcile and a periodic recheck keep
the interface table in line with the kernel, and what was built over an interface (memberships,
search sessions, DIAL proxies) is rebuilt or dropped when it moves.

## The modules

**`Arena`** is the generational arena as operators on a value `[slots, free]`; `Reactor` and
`Routing` use the same operators for the arenas they hold.  **`ArenaUse`** is an arena in use:
values are inserted and removed in any order while every key ever handed out is kept and used.
**`Handles`** is what an arena promises, without slots, generations or a free list: a set of handles
issued, never twice, and a map from the live ones to values.  `ArenaUse` refines it.

**`Reactor`** has one action per call a handler can make (`CallWatch`, `CallUnwatch`,
`CallSetWriteInterest`, `CallUnregister`, ...), one per step of `register_with_fds` and
`unregister`, and one per stage of the loop.  A callback is a frame (`running`) during which its
calls interleave with nothing but themselves, as in the code; what makes it hard is that the rest of
the batch, or of the sweep, was taken before.  Fds are numbers that are closed and reused lowest
first.  Kernel calls may fail.

**`Signal`** is main and the signal handlers that interrupt it between any two of its system calls
or accesses to a static, nested in each other.  Every step of `SignalGuard::install` may fail, and
`Reactor::run` is called again.

**`Routing`** is the data path.  `on_readable` takes a capture out, `SkipFrame` and `RouteFrame`
read one frame, `RouteCall` is one call of one handler, `RouteDone` records the outcome, and
`DrainDone` puts the capture back.  A handler is arbitrary code behind the `PacketHandler` trait: in
one call it makes up to two registrations or removals, through live and stale keys, and delivers one
datagram or a copy per peer, some of which fail.  `SweepStart` and `SweepNext` are the deadline sweep
and the interface-change broadcast, which call handlers the same way.  A filter either matches the
frames there are or does not; a datagram is its digest.  **`Outcomes`** holds the lattice of outcomes and
`combine`.

**`Interfaces`** is the table, the lifecycle and the memberships against a kernel that changes
between any two system calls of the daemon and whose notifications can be lost, with notice
(an overflow) or, on macOS, without.  One step is one system call or a group of calls nothing can
tell apart.  Time is a set of countdowns in units of one second, so `RECONCILE_TICK` is a constant
that keeps its order relative to the retry.  The three platforms differ in three constants, as in
the code; the platform is chosen in the initial state.  `holder` is what is held over an interface: a DIAL proxy or a search session.

**`Reassembly`** offers any fragment of a few datagrams to the reassembler, in any order.  Of a
buffer's bytes the model keeps which are the current datagram's own.  **`LinearMap`** is the small
map it uses, whose removal swaps the last entry in.

**`DialConnection`** is one spliced connection, the two TCP peers and the events of a wait.  Bytes
are numbered, so that one lost, repeated or out of order shows.  The framer is any consumption of a
prefix of what was received.  An event is delivered as the wait reported it, so handlers before it
in the batch may have changed what it is about.

**`HttpFraming`** is what `DialConnection` leaves open: the receive buffer with its cursors and its
compaction, the framer, and the read loop between them.  CR and LF are tokens of their own, so that
a read may end between them; the text of a line is one token, named for what the parsers make of it.

**`DialRegistry`** is the registry of proxies and their listeners.  `rewrite_location` is one action
per way it ends (reused, minted, refused for the cap, failed at any of the sockets it opens), and so
is the serving of a ready listener.  Proxies are unregistered by the reactor, by their grace, by
interface changes and by themselves, when descriptors run out.

**`Searches`** is one `SearchReflector`: a search makes or renews a session, with a port reserved on
the target and a registration for the answers; sessions are swept, capped, rolled back when the
send fails, and dropped when the target's addresses change.

**`Legs`** is a leg of a reflector as operators: the filter that feeds it, its classifier, its
destination, its rewrite, and the outcome of `on_packet`.  **`Entries`** starts from the variables of
an environment and a file, reads them in any order, applies the rules for one entry and for two,
falls back to IPv4 on a host without IPv6, builds the legs, and switches to the account that runs
them, which is **`Privileges`**: one action per system call of the switch, each of which may fail or
be accepted and ignored.

**`Frames`** lays out a datagram as frames, runs the kernel filter's instructions on their header
bytes and parses what it lets through.  It also takes frames of other senders.  **`Resolution`** reads
the addresses of an interface from a kernel whose list changes while it is read, by netlink dumps or
by a listing, and picks the sources.  **`MdnsMessages`** walks, judges, trims and strips a message made
of cells (a label, a pointer, the end of a name, fixed octets, rdata).  A trim rewrites every pointer.
**`MCCodecs`** and **`MCEntries`** hold the small inputs these are checked on.

The proofs are in `ArenaTheorems` and `ArenaUseProofs`, in `ReactorLemmas` (the invariant, and what the
operations the actions are made of do to it) and `ReactorProofs` (the actions and the theorems), in
`SignalProofs` and `RoutingProofs`, in `SsdpProofs` (search sessions and the registry of DIAL proxies) and in
`DialProofs` (a DIAL connection).  `DialRegistry` names its specification `RegistrySpec`, so that `SsdpProofs`
can extend it beside `Searches`.

Definitions keep the names the code uses.  A definition commented "Fault:" is a plausible bug of the
definition after it; nothing in the specifications refers to it.  It is there to show that a property can
fail: substituted for that definition it makes TLC find the property violated.

## What is checked

| Run | Instance | Shows |
|---|---|---|
| `arena` | 6 insertions, generation modulus 3 | no key aliases a later occupant, the free list is exact, `Handles` is refined |
| `reactor` | 3 handlers, 2 fds, 4 watches, 3 calls from callbacks | interest, registrations and handlers agree whatever fails; an event reaches who watched the fd; handlers that (un)register each other and themselves are neither lost nor misplaced |
| `signal` | 4 signals, 2 runs, a pipe of 2 bytes | no lost wakeup, nothing left behind by a run, requests are answered |
| `interfaces` | 1 interface with 2 captures, a DIAL proxy and a session, 2 kernel changes, 1 failing call, on Linux, FreeBSD and macOS | the table agrees with the kernel one tick after the last change; announced changes are repaired at once; nothing is held over an interface that moved |
| `dial_connection` | 2 bytes each way, buffers of 1 and 2, window 1, 1 refused call | no panic, a FIFO splice, one FIN, no stranded backlog, wedged connections age out, a hung-up peer does not keep the loop spinning |
| `reassembly` | 3 datagrams, 2 slots, 2 discards, 3 units | a routed datagram is complete and its own, buffers are bounded, every loss is accounted for |
| `routing` | 2 captures, 2 datagrams, 2 legs and a third made while routing, batches of 2, a limit of 1, 3 frames | each due handler is fed once, equal datagrams go out once and Ok means out, an event is bounded and strands no frame, one count per packet, of the best outcome |
| `searches` | 2 searchers, 2 ports, a cap of 2, 3 searches, 1 change | sessions, ports and registrations stay one to one; answers in time come back to their searcher; sessions end |
| `dial_registry` | 2 devices, 2 targets, a cap of 2, 6 sockets, 3 proxies, 2 clients, 1 fault | registry and reactor agree and the cap is exact; a location handed out is served; listeners drain |
| `entries` | 18 kinds of entry in 3 directions with each family, device filter and set of peers, beside an entry of a file; 3 hosts; processes of 3 platforms started as root or not | the conflict rule is exact, the fallback fits, the order of variables does not matter, what runs has what it requires, and it runs as its account or not at all |
| `codecs` | streams of 2 messages; 6 sizes at 8 MTUs on 3 links; lists of 3 of 9 addresses; mDNS messages of 3 entries | messages are relayed whole however they are cut; datagrams arrive in their frames; the kernel filter takes what the parser accepts; the best source is picked; a trimmed message says exactly what it should |

One run shows the code to differ from what a comment beside it says.

* `dial_connection_hangup`: `peer_gone` says that the hung-up peer's "buffered bytes still drain
  toward the live peer (then FIN)" (`reflector/dial/connection.rs:370`).  When the same wait also
  reported the live peer readable, that edge comes after `peer_gone` disarmed it, is taken for a
  second hangup, and the connection is closed with its backlog.

Other differences and limits the models show, without a run of their own:

* `on_deadline` is "Off the data path (about once a second at most)" (`dispatch.rs:723`).  A failed
  join that is due, on an interface that is gone and whose name lookup fails, is stepped by neither
  the join pass nor the reconcile, so the deadline stays in the past and `on_deadline` runs again at
  once until the lookup succeeds (`Interfaces`).
* Two entries that differ only in their device filter are accepted, and both pass on a query or a
  search, which is not from a device.  Copies of a query are equal and go out once; each search has
  a port of its own and goes out twice (`BothAsk` in `Entries`).
* A chunk line is refused for its length only when it has not ended in what was read, so whether
  one just over the cap passes depends on how the stream is cut (`HttpFraming`).
* A dump does not look for the kernel's mark of an interrupted one.  An address it misses is found
  on the notification of the change that interrupted it (`Resolution`, `Interfaces`).
* "Guard first: a signal after the read end closes must find no write fd" (`reactor.rs:330`) holds
  where it is written, at the end of `run`.  When the pipe cannot be watched, `register_with_fds`
  drops the pipe's handler and closes the read end, and only then does the `?` drop the guard.  A
  signal in between writes to a pipe with no reader (`Signal`).

### Bounds

Bounds are constants named in each module and marked `bound`.  They are chosen so that the case a
property is about happens: the generation wraps (modulus 3, 6 insertions), a slot and an fd are
reused while an event for the old user is pending (2 fds, 3 handlers, 4 watches, 3 calls), a pipe is full (2 bytes,
4 signals) and a flag outlives a run (2 runs), an interface is replaced while it is being bound and
changed again (2 creations, 2 changes), a short write leaves a backlog (2 bytes, window 1), a datagram
is evicted and its late fragments come (3 datagrams, 2 slots), a batch straddles the frame limit and
another event follows (3 frames), the cap is reached with sessions or proxies expired but not swept
(caps of 2, 3 made), descriptors run out in the middle of a mint or of an accept (6 sockets).  The
limits of the formats are scaled down together: a stream buffer of 14 tokens for headers of 11, names
of 9 octets, so that one more label or hop is one too many.  MTUs leave no room, room for one unit,
and room that is no multiple of it.  The faults named in `PROJECT.json`, each of which TLC detects
within these bounds, are the evidence that they are not too small.

There is no run with two interfaces: the lifecycle treats them one after the other, and a name that
passes from one to the other is, for each, an interface that goes and one that comes.  The members of
a set of model values are interchangeable in `Routing` and `Reassembly` only, which declare the
symmetry and check no liveness.

`CHECK_DEADLOCK FALSE` appears where there is an end: a closed connection, a stream read to its end,
a datagram that arrived, a daemon that runs or gave up starting, and searches, proxies and clients
that are used up.

### Fairness

In `Signal` the thread goes on (`WF` of main's steps and of the handlers'): the kernel schedules it,
and a wait returns when its fd is readable.  In `DialConnection` the reactor keeps waiting,
dispatching and sweeping (`WF` of `Wait`, `Dispatch` and `sweep`), in `Searches` time passes and the
reactor calls `on_deadline` when it is due (`WF` of `Tick` and `on_deadline`), and in `DialRegistry`
it serves a proxy with a ready listener (`WF` of `Accepts`), all of which `Reactor::run_loop` does until
shutdown.  Peers, the network and the kernel's interfaces are never assumed to act.

## What is proved

`ArenaUseProofs`, for every modulus `GenMod >= 1`, every number of insertions and every interleaving
of insertions and removals, with removals through stale keys:

* `TypeCorrect`, `NoAliasingHolds`, `FreeListExactHolds`: type correctness and the two invariants of
  run `arena`;
* `ArenaKeepsPromise`: `ArenaUse` implements `Handles`.

The assumptions are that `GenMod` is a positive natural, `MaxInserts` a natural and `NoValue` not a
value.  `NoAliasing` alone is not inductive, for it says nothing of where the next reuse of a slot will land.  `IInv`
adds that a slot's generation is the number of times it was emptied (0 again once that reaches
`GenMod`), that every key issued carries the count at which it was issued, and that at the current
count the slot still holds the value the key was issued for.  A removal moves the count past every
key issued, an insertion issues the current count, and the guard of `insert` stops a slot after
`GenMod` reuses, which is the limit the comment at `reactor/arena.rs:92` states ("a collision needs
2^32 reuses of one slot").  Keys then have distinct counts per slot, which gives `NoAliasing` and, for the
refinement, that no handle is issued twice.  `ArenaTheorems` has the lemmas: what `Insert`, `Remove` and `Put`
do to the map from keys to values, in terms that the other users of the arena can cite.

`ReactorProofs`: the four properties of run `reactor` (`WatchesStayConsistent`, `HandlersComeBack`,
`EventsReachTheirWatcher`, `CallsChangeOwnOnly`), for any finite set of fds, any event capacity and any
number of handlers, watches and calls from callbacks, with any call of the kernel failing.  The assumptions
are that there are fewer handlers and watches than generations (`ReuseAssumption`, the limit
`reactor/arena.rs:92` states) and that `None` is no value.  `DeliveredToWatcher` looks at one callback
while the danger is in what was taken before it, so `IInv` follows keys through time:

* `History`: a key was given out for one handler, or for one watch, only, and a slot is past every key of it
  that no longer resolves (`Spent` of `ArenaTheorems`), so that no such key becomes live again;
* `Held`: a live registration's fd is its watcher's, who is the handler it names, and no other
  registration's, and the kernel's interest is the registration's;
* `Registering`, `Unregistering`: what a registration or an unregistration in progress has done so far;
* `Batched`: every event left in the batch is for a key that was watched, with the `user_data` it was watched
  with if that key still resolves; and every key left in a sweep was given out;
* `Running`: the callback is of the handler its key was made for, and its event is about the registration
  of that handler, if that is still there.

An event then reaches its own watcher or is stale, because `dispatch` looks both keys up again.

`SignalProofs`: `WakeupsAreNotLost` and `RunsLeaveNothing`, the two invariants of run `signal`, for every pipe
capacity and every number of signals and runs, with handlers nested to any depth between any two steps of
main (`SignalAssumption`: the bounds are positive).  `NoLostWakeup` speaks of main in its wait.  `Awake`
carries it through the loop: a flag that is set has a byte in the pipe, a handler that has yet to write, or
main past its drain and still to swap that very flag.  That is the order of `on_signal` (flag, then
byte) against that of `on_readable` (drain, then swap), and a full pipe has a byte.  For the rest `IInv` says
at which steps of main each signal is handled and the write end published and open (`Placed`), that a
set flag has a signal of this run behind it (`Caused`), and that the outermost handler will restore main's
errno (`Saved`).

`RoutingProofs`: the four properties of run `routing`, for any captures, datagrams and protocols, any frame
limit, batch size and number of registrations below the number of generations.

* `HandlersAreFedOnce`.  `Regs` says that every live registration has its handler, no two the same, and that
  the slots are past the keys of the snapshot that are stale.  A call, which takes the handler out, makes and
  removes registrations and puts the handler back, leaves every other registration as it was and makes new
  ones only under keys outside the snapshot (`CallRegs`).  `Fed` then splits the live registrations: one whose
  key is still to come is due exactly if it applies and was not fed, any other was fed if it was due.
* `DatagramsGoOutOnce`.  `Sent`: what is out for the packet is exactly what the captures have noted under its
  number, once each.  Numbers noted are never above the current one, so a new packet finds nothing noted.
* `DrainsEnd`.  `Draining`: reads done and frames left in the batch together stay within the bound, since a
  batch is begun only below the limit.
* `PacketsCountAsBest`.  `Summed`: the running outcome has the highest disposition so far, and the
  protocol's type if any outcome has one.  It rests on `CombineCommutes`' lemmas: the type `combine` keeps
  depends on the two types only, the protocol's, else the relay's, else none.  `CombineCommutes` and
  `CombineAssociates` state "Order-independent" (`dispatch/counters.rs:132`) directly.  The hypothesis of all
  three, that no two outcomes are of different protocols, is the negation of
  `Anomalies::type_mismatch`, which `route` logs as an error.  The run has no protocol types, to stay small;
  the theorem covers them.

`SsdpProofs`, of the sessions: `SessionsStayInStep` and `AnswersComeBack`, the two invariants of run `searches`, for
every set of searchers, ports and delivery sides, every cap, any number of searches and changes, and
every MX that is a natural or absent (`SearchesAssumption`).  `RepliesComeBack` speaks of the search and the
registrations and is not inductive.  `IInv` adds that each search still waited for has a session
with its searcher and its port that expires no earlier than the search (`Covered`), and that a
registration key was given out before (`KeysMade`), so that the next one is fresh.  A refresh keeps
`Covered` because it takes the later of two expiries, a sweep because what it drops covers no search with
time left, and a change of the target because it gives up the searches of that target with their
sessions.  That no two sessions share a port then makes the searcher the only one a reply can reach.

`SsdpProofs`, of the registry: `ProxiesStayAccounted` and `ToldStaysServed`, the two invariants of run
`dial_registry`, for every set of devices and targets, every cap, any number of sockets, proxies, clients and
failing calls, and every grace.  The assumptions (`DialRegistryAssumption`) are that the bounds are naturals
and the two graces positive: they are 30 minutes and 2 hours (`reflector/dial/rewrite.rs:25`, `:29`).
`ProxiesAccounted` starts from the proxies that run and is not inductive.  `RegistryIInv` adds the other
direction: an entry whose handler still runs is the entry of that handler's own key, and has its address
(`EntryNames`).  Entries of proxies that shed themselves stay until they are pruned, so the cap is about
proxies and the check is about entries.  That the two have the same number once pruned is `Counted`, a
bijection between the pruned entries and the proxies.  A mint is then allowed exactly below the cap.  For
`ToldIsServed` the invariant has that a LOCATION still in date is of an entry whose grace lasts at least as
long (`Kept`).  A reuse keeps this because it sets the grace to what the message it rewrites says, a sweep
because it takes only entries whose grace is over, and pruning because it takes only entries whose proxy is
gone.  What a proxy watches needs that its connections have distinct numbers (`Sound`), or the end of one
would take the other's watches; a new connection takes the least number that is free (`NextIsFree`).

`DialProofs`: the four invariants of run `dial_connection` (`NoExpectFails`, `SpliceStaysFifo`,
`BacklogStaysArmed`, `WedgedConnectionsAgeOut`), for every size of the buffers and the socket windows, any
number of bytes each way, any number of refused calls, and every batch of events, stale ones included.  The
assumption beyond types is that `CONNECT_TIMEOUT <= IDLE_TIMEOUT` (10 and 30 seconds,
`reflector/dial/connection.rs:23`): a connection is idle while it connects.  `NeverPanics` and `WedgedAgesOut`
say nothing of the state a step starts from.  `IInv` adds that a flow that is not done still has its
destination registered, and its FIN to come (`Ended`), which is what every expect relies on; that no more was
read than fits the receive buffer and was sent (`Spliced`); and that the idle time and the time left until the
deadline together stay within the idle timeout, since only bytes that reach a peer move the deadline, and then
the idle time is zero. A handler works on one flow and, before `sync_write_interest` runs at its end, may
leave that flow with a backlog and no edge.  So the lemmas follow the calls: each says that a function called
with a flow that is spliced and ended but perhaps not armed (`Ready`) leaves it armed or the connection
closed, and the other flow as it was (`Settled`, `Fed`, `Chunked`, `Worked`).  That bytes keep their order is
associativity of concatenation in the end, but the split point moves: the framer's choice, a short write and
the remainder each cut the same stream elsewhere (`Regroup`, `Delivered`).

The invariants of `ReactorProofs`, `SignalProofs`, `RoutingProofs`, `DialProofs` and, of the registry, `SsdpProofs`
were checked by TLC on the instances of their runs (`Reactor` with 2 calls) before they were proved.

Checked by TLC only:

* all liveness (`RequestsAnswered`, and what `Interfaces`, `DialConnection`, `Searches` and `DialRegistry` say
  must happen in the end), which TLAPS does not prove;
* what a recursion or a fold over a message, a stream or an address list computes (`Frames`, `HttpFraming`,
  `MdnsMessages`, `Resolution`, `LinearMap` in `Reassembly`), which needs an induction over data;
* the safety properties of `Interfaces`, `Entries` and `Privileges`, for which there is no inductive
  invariant yet.

## What is not modelled

* Text: the lexing of SSDP, WSD and HTTP lines, of configuration values, interface names and MAC
  addresses, and the wording of errors and logs.  Where a result matters the model takes the result.
* Checksums, and the addresses inside frames.
* In mDNS messages, pointers into the middle of a label and messages longer than a pointer reaches.
* The byte layout of netlink and routing-socket messages.
* The kqueue backend of the poller, and the Ethernet filter as the BSDs run it, without the prologue
  for tags.
* Logging and its rate limits, the counter report and the memory report: nothing else reads their state.
* Clock arithmetic and its saturation: time is a countdown or a "due" bit.
* The modules meet by what each leaves open to the others (a handler in `Routing`, a holder in
  `Interfaces`, a consumed prefix in `DialConnection`); there is no module that runs all of them
  together, whose states TLC could not enumerate.
