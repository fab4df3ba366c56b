----------------------------- MODULE Interfaces -----------------------------
(* The interface table, its lifecycle and its multicast memberships            *)
(* (src/src/dispatch/{interface_table,lifecycle,multicast}.rs and the interface *)
(* part of src/src/dispatch.rs), against a kernel that creates, destroys,       *)
(* renames and re-addresses interfaces at any moment, between any two system    *)
(* calls of the daemon, and whose notifications can be lost.                    *)
(*                                                                            *)
(* One system call, or one group of calls with nothing to tell them apart, is  *)
(* one step.  Time is a set of countdowns in units of RECONCILE_RETRY (1 s): a  *)
(* countdown at 0 is an Instant not after now.  An address is a version number, *)
(* 0 for none; a creation is numbered, so that a recreated interface differs    *)
(* from the one whose name and index it takes over.                             *)
EXTENDS Integers, FiniteSetsExt

CONSTANTS
    Platforms,      \* the builds considered: "linux", "freebsd", "macos"
    Count,          \* the number of configured interfaces
    CapturesPer,    \* captures open on each of them
    Groups,         \* the multicast groups wanted on each of them
    Versions,       \* bound: versions of an address
    HolderKinds,    \* what is held on an interface: "dial", "session_v4", "session_v6"
    RECONCILE_TICK, \* 30 s, also RECHECK_INTERVAL and the ceiling of retry_delay
    MaxCreations,   \* bound: interfaces the kernel ever creates, the first ones included
    MaxChanges,     \* bound: kernel changes
    MaxFaults       \* bound: system calls that fail for want of resources

ASSUME InterfacesAssumption ==
    /\ Platforms \subseteq {"linux", "freebsd", "macos"}
    /\ {Count, CapturesPer, Versions, RECONCILE_TICK} \subseteq Nat \ {0}
    /\ {MaxCreations, MaxChanges, MaxFaults} \subseteq Nat
    /\ Count <= MaxCreations
    /\ HolderKinds \subseteq {"dial", "session_v4", "session_v6"}

VARIABLES
    \* The kernel.
    links,          \* the live interfaces
    attached,       \* the creation each capture is attached to, 0 for none
    sockets,        \* the memberships the sockets of each interface hold
    queue,          \* the monitor's unread notifications
    overflow,       \* some were dropped, and the monitor will say so
    created, changes, faults,   \* budgets spent
    \* The daemon.
    platform,                   \* the build; it never changes
    presence, addrs, groups,    \* the table, by interface
    max_seen_ifindex, next_reconcile, next_recheck,
    holder,         \* a DIAL proxy or a search session on the interface, and the creation its
                    \* captures were attached to when it was made
    pc, job,        \* the handler running and where it is
    \* Observers.
    quiet,          \* ticks since the last kernel change or fault, at most RECONCILE_TICK
    prompt          \* every change since the table last agreed with the kernel was announced

kernel == <<links, attached, sockets, queue, overflow, created, changes>>
table == <<presence, addrs, groups>>
lifecycle == <<max_seen_ifindex, next_reconcile, next_recheck>>
vars == <<platform, kernel, faults, table, lifecycle, holder, pc, job, quiet, prompt>>

\* interface_monitor.rs and its per-platform constants.
INDEXES_MONOTONIC == platform = "linux"
LIFECYCLE_EVENTS == platform # "macos"
READS_BY_NAME == platform # "linux"

Names == 1..Count
Captures == 1..CapturesPer
Indexes == 1..MaxCreations
RECONCILE_RETRY == 1
RECHECK_INTERVAL == RECONCILE_TICK
Addresses == [v4 : 0..Versions, v6 : 0..Versions]
NoAddresses == [v4 |-> 0, v6 |-> 0]
BothAddresses == [v4 |-> 1, v6 |-> 1]
NoHolder == [kind |-> "none", inc |-> 0, address |-> 0]

\* A countdown after one unit of time.
Elapse(timer) == IF timer = 0 THEN 0 ELSE timer - 1

\* Attempts past the one whose delay reaches the ceiling change nothing.
MaxAttempts == CHOOSE n \in 0..RECONCILE_TICK :
    2^n >= RECONCILE_TICK /\ \A m \in 0..RECONCILE_TICK : 2^m >= RECONCILE_TICK => n <= m

retry_delay(attempts) == Min({2^attempts, RECONCILE_TICK})
Again(attempts) == Min({attempts + 1, MaxAttempts})

Present(ifindex) == [at |-> "Present", ifindex |-> ifindex, attempts |-> 0, next_try |-> 0]
Parked == [at |-> "Parked", ifindex |-> 0, attempts |-> 0, next_try |-> 0]
Unbound(ifindex, attempts, next_try) ==
    [at |-> "Unbound", ifindex |-> ifindex, attempts |-> attempts, next_try |-> next_try]

Pending == [state |-> "Pending", attempts |-> 0, retry_at |-> 0]
Joined == [state |-> "Joined", attempts |-> 0, retry_at |-> 0]
Waiting == [state |-> "Waiting", attempts |-> 0, retry_at |-> 0]
Failed(attempts, retry_at) ==
    [state |-> "Failed", attempts |-> attempts, retry_at |-> retry_at]

Membership == [group : Groups, ifindex : Indexes, inc : 1..MaxCreations]
Link == [inc : 1..MaxCreations, ifindex : Indexes, name : 0..Count, addrs : Addresses]

NoJob == [loop |-> "none", names |-> {}, name |-> 0, link_events |-> {}, v4_moved |-> {},
          touched |-> {}, reconcile |-> FALSE, retry_soon |-> FALSE, rebuilt |-> {},
          part |-> "whole", ifindex |-> 0, reading |-> NoAddresses]

(* ------------------------------ the kernel ------------------------------- *)

At(ifindex) == {l \in links : l.ifindex = ifindex}
Named(name) == {l \in links : l.name = name}

\* if_nametoindex: 0 when the name resolves to nothing.
IfIndex(name) == IF Named(name) = {} THEN 0 ELSE (CHOOSE l \in Named(name) : TRUE).ifindex

\* What Interface::read finds: an index or a name that is gone has no address.
ReadAddresses(name, ifindex) ==
    LET found == IF READS_BY_NAME THEN Named(name) ELSE At(ifindex)
    IN  IF found = {} THEN NoAddresses ELSE (CHOOSE l \in found : TRUE).addrs

\* Capture::attached: on Linux the socket's own index, on the BSDs any live attachment.
Attached(name, capture, ifindex) ==
    \E l \in links : /\ l.inc = attached[name][capture]
                     /\ l.ifindex = ifindex \/ READS_BY_NAME

\* Interfaces a capture re-binding to name at ifindex attaches to.
Rebinds(name, ifindex) == IF READS_BY_NAME THEN Named(name) ELSE At(ifindex)

\* A notification is queued, dropped with an overflow to report (silently on macOS), or
\* never sent: some BSD address changes, a daemon running without a monitor.
Announce(ifindex, is_link) ==
    \/ /\ queue' = queue \union {[ifindex |-> ifindex, link |-> is_link /\ LIFECYCLE_EVENTS]}
       /\ UNCHANGED <<overflow, prompt>>
    \/ /\ platform # "macos"
       /\ overflow' = TRUE
       /\ UNCHANGED <<queue, prompt>>
    \/ /\ prompt' = FALSE
       /\ UNCHANGED <<queue, overflow>>

\* A change of the kernel's; it is never the daemon's to wait for one.
Changed ==
    /\ changes < MaxChanges
    /\ changes' = changes + 1
    /\ quiet' = 0
    /\ UNCHANGED <<platform, faults, table, lifecycle, holder, pc, job>>

\* Indexes only grow on Linux; elsewhere a free one is reused.
FreeIndexes ==
    IF INDEXES_MONOTONIC THEN {created + 1}
    ELSE {i \in Indexes : At(i) = {}}

KernelCreates ==
    \E name \in 0..Count, ifindex \in FreeIndexes, a \in {NoAddresses, BothAddresses} :
        /\ created < MaxCreations
        /\ name = 0 \/ Named(name) = {}
        /\ created' = created + 1
        /\ links' = links \union
               {[inc |-> created + 1, ifindex |-> ifindex, name |-> name, addrs |-> a]}
        /\ Announce(ifindex, TRUE)
        /\ Changed
        /\ UNCHANGED <<attached, sockets>>

\* A capture of a destroyed interface is attached to nothing live; a socket keeps its
\* memberships.
KernelDestroys ==
    \E l \in links :
        /\ links' = links \ {l}
        /\ Announce(l.ifindex, TRUE)
        /\ Changed
        /\ UNCHANGED <<attached, sockets, created>>

\* A rename keeps the interface and the captures on it.  No table entry need have its index,
\* so the name's return can wait for the periodic reconcile.
KernelRenames ==
    \E l \in links, name \in 0..Count :
        /\ name # l.name /\ (name = 0 \/ Named(name) = {})
        /\ links' = (links \ {l}) \union {[l EXCEPT !.name = name]}
        /\ \/ queue' = queue \union {[ifindex |-> l.ifindex, link |-> LIFECYCLE_EVENTS]}
           \/ UNCHANGED queue
        /\ prompt' = FALSE
        /\ Changed
        /\ UNCHANGED <<attached, sockets, overflow, created>>

KernelMovesAddress ==
    \E l \in links, a \in Addresses :
        /\ (a.v4 = l.addrs.v4) # (a.v6 = l.addrs.v6)
        /\ links' = (links \ {l}) \union {[l EXCEPT !.addrs = a]}
        /\ Announce(l.ifindex, FALSE)
        /\ Changed
        /\ UNCHANGED <<attached, sockets, created>>

\* A system call fails for want of resources.
Fault ==
    /\ faults < MaxFaults
    /\ faults' = faults + 1
    /\ quiet' = 0
    /\ prompt' = FALSE
    /\ UNCHANGED platform

NoFault == UNCHANGED <<platform, faults, quiet, prompt>>

(* ------------------------------- the table ------------------------------- *)

IsPresent(name) == presence[name].at = "Present"
PresentNames == {name \in Names : IsPresent(name)}

\* Fault: captures are taken to be attached.
ProbeSkipped(name) == TRUE

\* probe: every capture on a bound interface is still attached to its index.
probe(name) == IsPresent(name) =>
    \A c \in Captures : Attached(name, c, presence[name].ifindex)

\* The bound interfaces events name: the first entry at each index (key_by_ifindex).
key_by_ifindex(ifindex) ==
    LET at == {name \in PresentNames : presence[name].ifindex = ifindex}
    IN  IF at = {} THEN 0 ELSE Min(at)

\* wake_unbound and wake_all_unbound: due for a retry now.
Woken(ifindexes) ==
    [name \in Names |->
        IF presence[name].at = "Unbound" /\ presence[name].ifindex \in ifindexes
        THEN [presence[name] EXCEPT !.next_try = 0]
        ELSE presence[name]]

JoinRetries == {g \in Names \X Groups : groups[g[1]][g[2]].state = "Failed"}
JoinDue == \E g \in JoinRetries : groups[g[1]][g[2]].retry_at = 0

\* Fault: the sockets are kept.
RebaseKeepsSockets(name) ==
    /\ groups' = [groups EXCEPT ![name] = [g \in Groups |-> Pending]]
    /\ UNCHANGED sockets

\* Memberships::rebase drops the sockets and every membership with them.
rebase(name) ==
    /\ sockets' = [sockets EXCEPT ![name] = {}]
    /\ groups' = [groups EXCEPT ![name] = [g \in Groups |-> Pending]]

\* Fault: the addresses are kept.
ReleaseKeepsAddresses(name, to) ==
    /\ presence' = [presence EXCEPT ![name] = to]
    /\ rebase(name)
    /\ UNCHANGED addrs

\* InterfaceEntry::release.
release(name, to) ==
    /\ presence' = [presence EXCEPT ![name] = to]
    /\ rebase(name)
    /\ addrs' = [addrs EXCEPT ![name] = NoAddresses]

\* Startup (find_or_add_interface, open_capture, join_on): every configured interface found,
\* read, captured and joined, or waiting where it takes no membership yet.
Init ==
    \E a \in [Names -> {NoAddresses, BothAddresses}] :
        /\ links = {[inc |-> n, ifindex |-> n, name |-> n, addrs |-> a[n]] : n \in Names}
        /\ attached = [n \in Names |-> [c \in Captures |-> n]]
        /\ sockets = [n \in Names |-> IF a[n].v4 = 0 THEN {}
                                      ELSE {[group |-> g, ifindex |-> n, inc |-> n] : g \in Groups}]
        /\ groups = [n \in Names |-> [g \in Groups |-> IF a[n].v4 = 0 THEN Waiting ELSE Joined]]
        /\ queue = {} /\ overflow = FALSE
        /\ platform \in Platforms
        /\ created = Count /\ changes = 0 /\ faults = 0
        /\ presence = [n \in Names |-> Present(n)]
        /\ addrs = a
        /\ max_seen_ifindex = Count
        /\ next_reconcile = RECONCILE_TICK /\ next_recheck = RECHECK_INTERVAL
        /\ holder = [n \in Names |-> NoHolder]
        /\ pc = "idle" /\ job = NoJob
        /\ quiet = 0 /\ prompt = TRUE

(* ------------------------- the loops of a handler ------------------------ *)

\* Where each loop takes up its next interface.
Entry(loop) ==
    CASE loop \in {"drain", "overflow", "recheck"} -> "refresh"
      [] loop \in {"recheck_joins", "joins"} -> "probe"
      [] loop = "reconcile" -> "lookup"

Take(j) ==
    /\ pc' = Entry(j.loop)
    /\ job' = [j EXCEPT !.name = Min(j.names), !.names = @ \ {Min(j.names)},
                        !.ifindex = 0, !.reading = NoAddresses]

\* The loop's next interface, or what follows the loop: a re-read of every interface joins on
\* every interface, and a job that found a reason to reconciles.
Continue(j) ==
    \/ j.names # {} /\ Take(j)
    \/ /\ j.names = {} /\ j.loop = "recheck"
       /\ Take([j EXCEPT !.loop = "recheck_joins", !.names = Names])
    \/ /\ j.names = {} /\ j.loop \notin {"recheck", "reconcile"}
       /\ j.reconcile \/ (j.loop = "joins" /\ next_reconcile = 0)
       /\ Take([j EXCEPT !.loop = "reconcile", !.names = Names, !.reconcile = FALSE,
                      !.link_events = {}])
    \/ /\ j.names = {} /\ j.loop # "recheck"
       /\ \/ j.loop = "reconcile"
          \/ ~(j.reconcile \/ (j.loop = "joins" /\ next_reconcile = 0))
       /\ pc' = "apply"
       /\ job' = j

\* What a loop makes of a converge that found the interface gone, or did not.
ConvergeEnds(gone) ==
    CASE job.loop = "drain" ->
           Continue([job EXCEPT !.reconcile = @ \/ gone \/ job.name \in job.link_events])
      [] job.loop \in {"recheck_joins", "joins"} ->
           Continue([job EXCEPT !.reconcile = @ \/ gone])
      [] job.loop = "reconcile" ->
           Continue([job EXCEPT !.retry_soon = @ \/ gone])

(* ----------------------- InterfaceLifecycle::drain ----------------------- *)

\* Fault: the event raises the ceiling before it is compared.
CreationAfterRaise(event, ceiling) ==
    \/ \E n \in Names : presence[n].at = "Unbound" /\ presence[n].ifindex = event.ifindex
    \/ event.link /\ (INDEXES_MONOTONIC => event.ifindex > Max({ceiling, event.ifindex}))
    \/ ~LIFECYCLE_EVENTS

\* unwatched_event_reconciles, for an index no bound interface has.
unwatched_event_reconciles(event, ceiling) ==
    \/ \E n \in Names : presence[n].at = "Unbound" /\ presence[n].ifindex = event.ifindex
    \/ event.link /\ (INDEXES_MONOTONIC => event.ifindex > ceiling)
    \/ ~LIFECYCLE_EVENTS

\* The monitor is readable: everything queued is read, or part of it before a read fails.
drain ==
    /\ pc = "idle"
    /\ queue # {} \/ overflow
    /\ \E batch \in SUBSET queue, lost \in {FALSE, overflow} :
        /\ batch # {} \/ lost
        /\ IF batch = queue /\ lost = overflow THEN NoFault ELSE Fault
        /\ queue' = queue \ batch
        /\ overflow' = (overflow /\ ~lost)
        /\ max_seen_ifindex' = Max({max_seen_ifindex} \union {e.ifindex : e \in batch})
        /\ LET unwatched == {e \in batch : key_by_ifindex(e.ifindex) = 0}
               watched == batch \ unwatched
           IN  IF lost
               THEN /\ presence' = Woken(Indexes)
                    /\ Continue([NoJob EXCEPT !.loop = "overflow", !.names = PresentNames,
                                              !.reconcile = TRUE])
               ELSE /\ presence' = Woken({e.ifindex : e \in unwatched})
                    /\ Continue([NoJob EXCEPT
                          !.loop = "drain",
                          !.names = {key_by_ifindex(e.ifindex) : e \in watched},
                          !.link_events = {key_by_ifindex(e.ifindex) :
                                              e \in {w \in watched : w.link}},
                          !.reconcile = \E e \in unwatched :
                                            unwatched_event_reconciles(e, max_seen_ifindex)])
    /\ UNCHANGED <<links, attached, sockets, created, changes, addrs, groups,
                   next_reconcile, next_recheck, holder>>

\* Fault: an IPv6 address that moves is not told.
TouchedByV4Only(name, reading) == {n \in {name} : reading.v4 # addrs[n].v4}

\* The interfaces an adopted reading moves an address of.  A bare Link event moves none.
AddressMoved(name, reading) == {n \in {name} : reading # addrs[n]}

\* InterfaceTable::refresh in a drain or a re-read; a drain joins right after it.
refresh ==
    /\ pc = "refresh"
    /\ LET n == job.name
           reading == ReadAddresses(n, presence[n].ifindex)
           v4 == {m \in {n} : reading.v4 # addrs[m].v4}
           j == [job EXCEPT !.v4_moved = @ \union v4,
                            !.touched = @ \union AddressMoved(n, reading)]
       IN  /\ addrs' = [addrs EXCEPT ![n] = reading]
           /\ IF job.loop = "drain" THEN pc' = "probe" /\ job' = j ELSE Continue(j)
    /\ NoFault
    /\ UNCHANGED <<kernel, presence, groups, lifecycle, holder>>

\* A re-read that fails says nothing; in a drain the address counts as moved.
RefreshFails ==
    /\ pc = "refresh"
    /\ Fault
    /\ Continue(IF job.loop = "recheck" THEN job
                ELSE [job EXCEPT !.v4_moved = @ \union {job.name},
                                 !.touched = @ \union {job.name}, !.reconcile = TRUE])
    /\ UNCHANGED <<kernel, table, lifecycle, holder>>

(* ---------------------------- joining groups ----------------------------- *)

\* Groups a converge attempts: those not joined, a failed one once its retry is due.
DueGroups(name) ==
    {g \in Groups : /\ groups[name][g].state # "Joined"
                    /\ groups[name][g].state = "Failed" => groups[name][g].retry_at = 0}

\* InterfaceTable::converge up to the first join.
Probe ==
    /\ pc = "probe"
    /\ LET n == job.name
       IN  IF probe(n) /\ IsPresent(n) /\ DueGroups(n) # {}
           THEN pc' = "join" /\ UNCHANGED job
           ELSE ConvergeEnds(~probe(n))
    /\ NoFault
    /\ UNCHANGED <<kernel, table, lifecycle, holder>>

\* Membership::settle for an attempt that failed.
JoinFailure(m) ==
    LET attempts == IF m.state = "Failed" THEN Again(m.attempts) ELSE 0
    IN  Failed(attempts, retry_delay(attempts))

\* A held membership answers EADDRINUSE, which reads as joined, whichever creation of the
\* interface it was made on.
Held(name, g, ifindex) == \E m \in sockets[name] : m.group = g /\ m.ifindex = ifindex

\* Sockets::join, classify and settle for every due group.  The index names no interface, or
\* an interface that takes no membership and no longer bears the name: the first group refused
\* ends the pass, off the retry timer.  At most one attempt fails otherwise.
converge ==
    /\ pc = "join"
    /\ LET n == job.name
           ifindex == presence[n].ifindex
           due == DueGroups(n)
       IN  \E failed \in {{}} \union {{g} : g \in due} :
            /\ IF failed = {} THEN NoFault ELSE Fault
            /\ \/ /\ At(ifindex) = {} \/ \E l \in At(ifindex) : l.addrs.v4 = 0 /\ l.name # n
                  /\ \E refused \in {due \ failed} :
                       IF refused = {}
                       THEN /\ groups' = [groups EXCEPT ![n] =
                                   [g \in Groups |-> IF g \in failed THEN JoinFailure(@[g])
                                                     ELSE @[g]]]
                            /\ ConvergeEnds(FALSE)
                       ELSE /\ \E first \in refused :
                                 groups' = [groups EXCEPT ![n] =
                                   [g \in Groups |-> IF g \in failed THEN JoinFailure(@[g])
                                                     ELSE IF g = first THEN Pending ELSE @[g]]]
                            /\ ConvergeEnds(TRUE)
                  /\ UNCHANGED sockets
               \/ \E l \in At(ifindex) :
                  LET joins == {g \in due \ failed : Held(n, g, ifindex) \/ l.addrs.v4 # 0}
                  IN  /\ groups' = [groups EXCEPT ![n] =
                             [g \in Groups |-> IF g \in failed THEN JoinFailure(@[g])
                                               ELSE IF g \in joins THEN Joined
                                               ELSE IF g \in due THEN Waiting ELSE @[g]]]
                      /\ sockets' = [sockets EXCEPT ![n] = @ \union
                             {[group |-> g, ifindex |-> ifindex, inc |-> l.inc] :
                                 g \in {j \in joins : ~Held(n, j, ifindex)}}]
                      /\ ConvergeEnds(FALSE)
    /\ UNCHANGED <<links, attached, queue, overflow, created, changes, presence, addrs,
                   lifecycle, holder>>

(* -------------------------- InterfaceTable::step ------------------------- *)

\* The interface as a singleton when the step changed what its captures read.
moved(kind, was, name) == {n \in {name} : kind = "Bound" \/ was.at = "Present"}

\* A bind begins by dropping the memberships of what was bound.
StartBind(ifindex) ==
    /\ rebase(job.name)
    /\ pc' = "read"
    /\ job' = [job EXCEPT !.ifindex = ifindex]
    /\ UNCHANGED <<presence, addrs>>

\* The name lookup and the step it decides.
step ==
    /\ pc = "lookup"
    /\ LET n == job.name
           cur == IfIndex(n)
           was == presence[n]
       IN  \/ /\ cur = 0 /\ was.at = "Parked"
              /\ pc' = "probe"
              /\ UNCHANGED <<job, table, sockets>>
           \/ /\ cur = 0 /\ was.at = "Present"
              /\ release(n, Parked)
              /\ Continue([job EXCEPT !.rebuilt = @ \union moved("Parked", was, n)])
           \/ /\ cur = 0 /\ was.at = "Unbound"
              /\ presence' = [presence EXCEPT ![n] = Parked]
              /\ Continue(job)
              /\ UNCHANGED <<addrs, groups, sockets>>
           \/ /\ cur # 0 /\ was.at = "Present" /\ cur = was.ifindex
              /\ pc' = "check"
              /\ UNCHANGED <<job, table, sockets>>
           \/ /\ cur # 0 /\ was.at = "Unbound" /\ cur = was.ifindex /\ was.next_try > 0
              /\ pc' = "probe"
              /\ UNCHANGED <<job, table, sockets>>
           \/ /\ cur # 0 /\ (was.at = "Parked" \/ cur # was.ifindex
                              \/ (was.at = "Unbound" /\ was.next_try = 0))
              /\ StartBind(cur)
    /\ NoFault
    /\ UNCHANGED <<links, attached, queue, overflow, created, changes, lifecycle, holder>>

\* Under fd pressure the lookup cannot run, which says nothing about the interface.
LookupFails ==
    /\ pc = "lookup"
    /\ Fault
    /\ Continue([job EXCEPT !.retry_soon = TRUE])
    /\ UNCHANGED <<kernel, table, lifecycle, holder>>

\* The name resolves to the bound index: kept while its captures are attached.
Check ==
    /\ pc = "check"
    /\ IF probe(job.name)
       THEN pc' = "probe" /\ UNCHANGED <<job, table, sockets>>
       ELSE StartBind(presence[job.name].ifindex)
    /\ NoFault
    /\ UNCHANGED <<links, attached, queue, overflow, created, changes, lifecycle, holder>>

\* bind's read, adopted only once every capture is re-bound.
Read ==
    /\ pc = "read"
    /\ pc' = "rebind"
    /\ job' = [job EXCEPT !.reading = ReadAddresses(job.name, job.ifindex)]
    /\ NoFault
    /\ UNCHANGED <<kernel, table, lifecycle, holder>>

\* settle_bind on an error.
BindFails ==
    LET n == job.name
        was == presence[n]
        attempts == IF was.at = "Unbound" /\ was.ifindex = job.ifindex
                    THEN Again(was.attempts) ELSE 0
    IN  /\ release(n, Unbound(job.ifindex, attempts, retry_delay(attempts)))
        /\ Continue([job EXCEPT !.rebuilt = @ \union moved("BindFailed", was, n)])

ReadFails ==
    /\ pc = "read"
    /\ Fault
    /\ BindFails
    /\ UNCHANGED <<links, attached, queue, overflow, created, changes, lifecycle, holder>>

\* rebind_captures and settle_bind: the captures move one by one, and one that fails leaves
\* the ones before it on the new interface and the others where they were.
rebind_captures ==
    /\ pc = "rebind"
    /\ LET n == job.name
       IN  \/ \E l \in Rebinds(n, job.ifindex) :
                /\ attached' = [attached EXCEPT ![n] = [c \in Captures |-> l.inc]]
                /\ presence' = [presence EXCEPT ![n] = Present(job.ifindex)]
                /\ addrs' = [addrs EXCEPT ![n] = job.reading]
                /\ pc' = "probe"
                /\ job' = [job EXCEPT !.rebuilt = @ \union moved("Bound", presence[n], n),
                                      !.ifindex = 0, !.reading = NoAddresses]
                /\ NoFault
                /\ UNCHANGED <<groups, sockets>>
           \/ /\ Rebinds(n, job.ifindex) = {}
              /\ BindFails
              /\ NoFault
              /\ UNCHANGED attached
           \/ \E l \in Rebinds(n, job.ifindex), done \in 0..(CapturesPer - 1) :
                /\ attached' = [attached EXCEPT ![n] =
                       [c \in Captures |-> IF c <= done THEN l.inc ELSE @[c]]]
                /\ BindFails
                /\ Fault
    /\ UNCHANGED <<links, queue, overflow, created, changes, lifecycle, holder>>

(* --------------------- the dispatcher, after the table -------------------- *)

\* Fault: the pass after a slow tick is late, and a failed bind's retry is not looked at.
NextPassLate(soon) == (IF soon THEN 0 ELSE RECONCILE_TICK) + RECONCILE_RETRY

\* Soon while something is unsettled, else at the slow tick, and no later than a failed bind's
\* retry, unless that is due already.
next_pass(soon) ==
    Min({IF soon THEN RECONCILE_RETRY ELSE RECONCILE_TICK} \union
        ({presence[n].next_try : n \in {m \in Names : presence[m].at = "Unbound"}} \ {0}))

any_parked == \E n \in Names : presence[n].at = "Parked"

\* The end of a reconcile, and apply_interface_changes or after_repair: DIAL proxies and search
\* sessions over an interface that moved go.
after_repair ==
    /\ pc = "apply"
    /\ next_reconcile' = IF job.loop = "reconcile" THEN next_pass(job.retry_soon \/ any_parked)
                         ELSE next_reconcile
    /\ holder' = [n \in Names |->
           IF n \in job.rebuilt \union (IF holder[n].kind = "dial" THEN job.v4_moved
                                       ELSE job.touched)
           THEN NoHolder ELSE holder[n]]
    /\ pc' = IF job.part = "recheck" THEN "rest" ELSE "idle"
    /\ job' = NoJob
    /\ NoFault
    /\ UNCHANGED <<kernel, table, max_seen_ifindex, next_recheck>>

Due == next_recheck = 0 \/ next_reconcile = 0 \/ JoinDue

\* on_deadline: the periodic re-read first, when it is due.
on_deadline ==
    /\ pc = "idle"
    /\ Due
    /\ IF next_recheck = 0
       THEN /\ next_recheck' = RECHECK_INTERVAL
            /\ Continue([NoJob EXCEPT !.loop = "recheck", !.names = PresentNames,
                                      !.part = "recheck"])
       ELSE /\ pc' = "rest"
            /\ UNCHANGED <<job, next_recheck>>
    /\ NoFault
    /\ UNCHANGED <<kernel, table, max_seen_ifindex, next_reconcile, holder>>

\* The rest of on_deadline: the joins due, then the reconcile.
on_deadline_rest ==
    /\ pc = "rest"
    /\ \/ JoinDue /\ Take([NoJob EXCEPT !.loop = "joins", !.names = Names, !.part = "rest"])
       \/ ~JoinDue /\ next_reconcile = 0
          /\ Take([NoJob EXCEPT !.loop = "reconcile", !.names = Names, !.part = "rest"])
       \/ ~JoinDue /\ next_reconcile # 0 /\ pc' = "idle" /\ UNCHANGED job
    /\ NoFault
    /\ UNCHANGED <<kernel, table, lifecycle, holder>>

\* A capture's read reports its interface lost: drain_and_route pulls the reconcile forward.
reconcile_now ==
    /\ pc = "idle"
    /\ next_reconcile # 0
    /\ \E n \in Names, c \in Captures : \A l \in links : l.inc # attached[n][c]
    /\ next_reconcile' = 0
    /\ UNCHANGED <<platform, kernel, faults, table, max_seen_ifindex, next_recheck, holder, pc, job,
                   quiet, prompt>>

\* The address of a's that a holder of this kind is bound to.
HeldAddress(kind, a) == IF kind = "session_v6" THEN a.v6 ELSE a.v4

\* A DIAL proxy listens on the interface's IPv4 address (mint_proxy); a search session reserves
\* a port on its address of the search's family (make_session).
Mint ==
    /\ pc = "idle"
    /\ \E n \in PresentNames, kind \in HolderKinds :
        /\ holder[n] = NoHolder
        /\ HeldAddress(kind, addrs[n]) # 0
        /\ holder' = [holder EXCEPT ![n] = [kind |-> kind, inc |-> attached[n][1],
                                                address |-> HeldAddress(kind, addrs[n])]]
    /\ UNCHANGED <<platform, kernel, faults, table, lifecycle, pc, job, quiet, prompt>>

\* The table agrees with the kernel.
Agrees(n) ==
    IF Named(n) = {}
    THEN presence[n] = Parked
    ELSE \E l \in Named(n) :
            /\ presence[n] = Present(l.ifindex)
            /\ \A c \in Captures : attached[n][c] = l.inc
            /\ addrs[n] = l.addrs
            /\ \A g \in Groups :
                 l.addrs.v4 # 0 => /\ groups[n][g] = Joined
                                   /\ [group |-> g, ifindex |-> l.ifindex, inc |-> l.inc]
                                          \in sockets[n]

Agreement == \A n \in Names : Agrees(n)

\* Time passes once the daemon has nothing to do.
Tick ==
    /\ pc = "idle"
    /\ queue = {} /\ ~overflow /\ ~Due
    /\ next_reconcile' = Elapse(next_reconcile)
    /\ next_recheck' = Elapse(next_recheck)
    /\ presence' = [n \in Names |-> [presence[n] EXCEPT !.next_try = Elapse(@)]]
    /\ groups' = [n \in Names |-> [g \in Groups |-> [groups[n][g] EXCEPT !.retry_at = Elapse(@)]]]
    /\ quiet' = Min({quiet + 1, RECONCILE_TICK})
    /\ prompt' = (prompt \/ Agreement)
    /\ UNCHANGED <<platform, kernel, faults, addrs, max_seen_ifindex, holder, pc, job>>

Kernel == KernelCreates \/ KernelDestroys \/ KernelRenames \/ KernelMovesAddress

Daemon ==
    \/ drain \/ refresh \/ RefreshFails
    \/ Probe \/ converge
    \/ step \/ LookupFails \/ Check
    \/ Read \/ ReadFails \/ rebind_captures
    \/ after_repair \/ on_deadline \/ on_deadline_rest
    \/ reconcile_now \/ Mint

Next == Kernel \/ Daemon \/ Tick

Spec == Init /\ [][Next]_vars

(* ------------------------------ properties ------------------------------- *)

Idle == pc = "idle" /\ queue = {} /\ ~overflow

\* Whatever notifications were lost and whichever calls failed, RECONCILE_TICK after the last
\* change and the last failure the table agrees with the kernel: names that resolve are bound
\* to the interface that bears them now, with its addresses, every capture attached to it and
\* every group really joined on it (the 30 s floor of RECONCILE_TICK and RECHECK_INTERVAL).
RepairedInTime == Idle /\ ~Due /\ quiet = RECONCILE_TICK => Agreement

\* Changes that are announced are repaired by the drain that reads their events, with no tick
\* of the periodic passes: a creation's Link event in particular (lifecycle.rs:152, the ceiling
\* is compared before the batch raises it), an interface gaining the address a join waits for,
\* an interface gone while it was being bound.
AnnouncedIsPrompt == Idle /\ prompt => Agreement

\* Between handlers nothing of an interface that went is left: one that is not bound holds no
\* address, so sources no send, and no membership (InterfaceEntry::release), and no DIAL proxy
\* outlives the IPv4 address it listens on or the binding it was minted over, nor a search session
\* the target's (evict_on_interface_change).
NothingStale ==
    pc = "idle" => \A n \in Names :
        /\ ~IsPresent(n) => /\ addrs[n] = NoAddresses
                            /\ sockets[n] = {}
                            /\ \A g \in Groups : groups[n][g] = Pending
        /\ holder[n] # NoHolder => /\ IsPresent(n)
                                   /\ HeldAddress(holder[n].kind, addrs[n]) = holder[n].address
                                   /\ attached[n][1] = holder[n].inc

=============================================================================
