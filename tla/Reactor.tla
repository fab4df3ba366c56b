------------------------------ MODULE Reactor ------------------------------
(***************************************************************************)
(* The single-threaded reactor of src/src/reactor.rs over epoll            *)
(* (src/src/reactor/poll/epoll.rs): handlers and watched fds live in two   *)
(* arenas, the kernel tags an event with the key its fd was watched under, *)
(* and a handler is taken out of its slot while one of its callbacks runs. *)
(*                                                                         *)
(* A callback may make any of the reactor's calls, through any key the     *)
(* handler was ever given, so its calls interleave with the rest of the    *)
(* batch of events, or of the sweep, that the loop is working through.     *)
(* register_with_fds and unregister take one step per fd; the variable     *)
(* call holds the call in progress and excludes every other step.          *)
(***************************************************************************)
EXTENDS Arena, FiniteSets

CONSTANTS Fds,            \* fd numbers; the lowest closed one is opened next
          EventCapacity,  \* EVENT_CAPACITY
          MaxHandlers,    \* bound: handlers made in a behaviour
          MaxWatches,     \* bound: watches tried in a behaviour
          MaxCalls        \* bound: calls made by callbacks in a behaviour

ASSUME ReactorAssumption ==
    /\ Fds \subseteq Nat /\ IsFiniteSet(Fds)
    /\ {EventCapacity, MaxHandlers, MaxWatches, MaxCalls} \subseteq Nat

\* "A collision needs 2^32 reuses of one slot" (arena.rs): there are fewer.
ASSUME ReuseAssumption == MaxHandlers < GenMod /\ MaxWatches < GenMod

VARIABLES handlers,       \* Arena<HandlerEntry>
          registrations,  \* Arena<Registration>
          interest,       \* the kernel's interest list: per fd, a token and a mask
          events,         \* the rest of the batch the last wait returned
          sweep,          \* the rest of dispatch_keys, each key with its handler
          stage,          \* where run_loop is
          running,        \* the callback in progress
          call,           \* the register_with_fds or unregister in progress
          shutdown,
          dump_pending,
          owner,          \* which handler has opened each fd
          made,           \* history: the pairs <<key, handler>> of register
          watched,        \* history: the pairs <<key, handler>> of watch
          watches,        \* history: how many watches were tried
          calls           \* history: how many calls callbacks made

vars == <<handlers, registrations, interest, events, sweep, stage, running, call,
          shutdown, dump_pending, owner, made, watched, watches, calls>>

loopVars == <<events, sweep, stage, shutdown, dump_pending>>
arenaVars == <<handlers, registrations, interest, owner>>
historyVars == <<made, watched, watches>>

\* A Box<dyn Handler> is told apart by when it was made, a watch by its user_data.
Handler == 1 .. MaxHandlers
UserData == 1 .. MaxWatches

None == NoValue
Closed == 0

\* struct HandlerEntry, its regs as a set, and struct Registration.
Entry == [handler : Handler \cup {None}, regs : SUBSET Key]
Registration == [fd : Fds, handler_key : Key, read_interest : BOOLEAN,
                 write_interest : BOOLEAN, user_data : UserData]

Interest == [token : Nat, read : BOOLEAN, write : BOOLEAN]

\* A callback: the handler that is out, its key, the registration an event was
\* for, whether on_writable is still to be considered, and, as history, the
\* user_data or the handler that the event or sweep was about when it was made
\* and whether no call was made yet.
Frame == [handler : Handler, key : Key, reg : Key \cup {None}, write : BOOLEAN,
          phase : {"readable", "writable", "sweep"}, about : Nat, fresh : BOOLEAN]

Call == [op : {"register_with_fds"}, handler : Handler, key : Key, fds : SUBSET Fds]
        \cup [op : {"unregister"}, handler : Handler \cup {None}, regs : SUBSET Key]

ASSUME NoneAssumption ==
    /\ None \notin Handler /\ None \notin Key /\ None \notin Entry /\ None \notin Registration
    /\ None \notin Interest /\ None \notin Frame /\ None \notin Call

\* The two arenas, the interest list, the open fds and the state of the loop keep their shapes.
TypeOK ==
    /\ IsArena(handlers, Entry)
    /\ IsArena(registrations, Registration)
    /\ interest \in [Fds -> {None} \cup Interest]
    /\ events \in Seq([token : Nat, readable : BOOLEAN, writable : BOOLEAN, about : Nat])
    /\ sweep \subseteq Key \X Handler
    /\ stage \in {"setup", "wait", "events", "controls", "deadlines", "stopped"}
    /\ running \in {None} \cup Frame
    /\ call \in {None} \cup Call
    /\ shutdown \in BOOLEAN /\ dump_pending \in BOOLEAN
    /\ owner \in [Fds -> Handler \cup {Closed}]
    /\ made \subseteq Key \X Handler
    /\ watched \subseteq Key \X Handler
    /\ watches \in 0 .. MaxWatches /\ calls \in 0 .. MaxCalls

Init ==
    /\ handlers = EmptyArena
    /\ registrations = EmptyArena
    /\ interest = [f \in Fds |-> None]
    /\ events = <<>> /\ sweep = {}
    /\ stage = "setup"
    /\ running = None /\ call = None
    /\ shutdown = FALSE /\ dump_pending = FALSE
    /\ owner = [f \in Fds |-> Closed]
    /\ made = {} /\ watched = {} /\ watches = 0 /\ calls = 0

-----------------------------------------------------------------------------
(* Opening and closing fds: what the handlers and the kernel do.           *)

\* The n lowest closed fds, the ones the next n opens return.
LowestClosed(n) ==
    {f \in Fds : owner[f] = Closed
                 /\ Cardinality({g \in Fds : owner[g] = Closed /\ g < f}) < n}

\* close(2) drops the kernel's interest with the last reference to a file.
Close(fds) ==
    /\ owner' = [f \in Fds |-> IF f \in fds THEN Closed ELSE owner[f]]
    /\ interest' = [f \in Fds |-> IF f \in fds THEN None ELSE interest[f]]

OwnedBy(handler) == {f \in Fds : owner[f] = handler}

-----------------------------------------------------------------------------
(* The reactor's calls.                                                    *)

IsWatched(fd) == \E k \in Keys(registrations) : Get(registrations, k).fd = fd

NewRegistration(key, fd) ==
    [fd |-> fd, handler_key |-> key, read_interest |-> TRUE, write_interest |-> FALSE,
     user_data |-> watches + 1]

\* watch: refused for a stale handler key or a watched fd, before any change.
WatchRefused(key, fd) == ~Contains(handlers, key) \/ IsWatched(fd)

\* watch when the kernel fails to add the fd: the slot is used and freed.
FailedAdd(key, fd) ==
    Remove(Insert(registrations, NewRegistration(key, fd)), NextKey(registrations))

\* watch when everything succeeds.
watch(key, fd, handler) ==
    LET regKey == NextKey(registrations)
        entry == Get(handlers, key)
    IN  /\ registrations' = Insert(registrations, NewRegistration(key, fd))
        /\ interest' = [interest EXCEPT ![fd] =
                           [token |-> ToU64(regKey), read |-> TRUE, write |-> FALSE]]
        /\ handlers' = Put(handlers, key, [entry EXCEPT !.regs = @ \cup {regKey}])
        /\ watched' = watched \cup {<<regKey, handler>>}

\* register_with_fds, up to its loop; the handler comes with n fds open.
register(n) ==
    LET handler == Cardinality(made) + 1
        fds == LowestClosed(n)
    IN  /\ handler \in Handler /\ Cardinality(fds) = n /\ watches + n <= MaxWatches
        /\ owner' = [f \in Fds |-> IF f \in fds THEN handler ELSE owner[f]]
        /\ handlers' = Insert(handlers, [handler |-> handler, regs |-> {}])
        /\ made' = made \cup {<<NextKey(handlers), handler>>}
        /\ call' = [op |-> "register_with_fds", handler |-> handler,
                    key |-> NextKey(handlers), fds |-> fds]
        /\ UNCHANGED <<registrations, interest, watched, watches>>

\* unregister, up to its loop: the entry leaves the arena, with its handler
\* inside unless that is out for a callback.
unregister(key) ==
    /\ handlers' = Remove(handlers, key)
    /\ call' = IF Contains(handlers, key)
               THEN [op |-> "unregister", handler |-> Get(handlers, key).handler,
                     regs |-> Get(handlers, key).regs]
               ELSE None

\* The loop of register_with_fds: the next fd is watched, or the first failure
\* unregisters the handler again, or all are done.
RegisterWatch ==
    /\ call # None /\ call.op = "register_with_fds"
    /\ \E fd \in call.fds :
          \/ /\ ~WatchRefused(call.key, fd)
             /\ watch(call.key, fd, call.handler)
             /\ call' = [call EXCEPT !.fds = @ \ {fd}]
          \/ /\ registrations' = IF WatchRefused(call.key, fd) THEN registrations
                                 ELSE FailedAdd(call.key, fd)
             /\ unregister(call.key)
             /\ UNCHANGED <<interest, watched>>
    /\ watches' = watches + 1
    /\ UNCHANGED <<loopVars, running, calls, owner, made>>

RegisterDone ==
    /\ call # None /\ call.op = "register_with_fds" /\ call.fds = {}
    /\ call' = None
    /\ UNCHANGED <<loopVars, arenaVars, historyVars, calls, running>>

\* The loop of unregister: a registration goes, and then its kernel interest.
UnregisterReg ==
    /\ call # None /\ call.op = "unregister"
    /\ \E key \in call.regs :
          /\ registrations' = Remove(registrations, key)
          /\ interest' = IF Contains(registrations, key)
                         THEN [interest EXCEPT ![Get(registrations, key).fd] = None]
                         ELSE interest
          /\ call' = [call EXCEPT !.regs = @ \ {key}]
    /\ UNCHANGED <<loopVars, historyVars, calls, running, handlers, owner>>

\* Fault: the handler is dropped before the interest in its fds is.
UnregisterDropsFirst ==
    /\ call # None /\ call.op = "unregister"
    /\ Close(IF call.handler = None THEN {} ELSE OwnedBy(call.handler))
    /\ call' = None
    /\ UNCHANGED <<loopVars, historyVars, calls, running, handlers, registrations>>

\* The end of unregister: the entry drops, and a handler inside closes its fds.
UnregisterDone ==
    /\ call # None /\ call.op = "unregister" /\ call.regs = {}
    /\ Close(IF call.handler = None THEN {} ELSE OwnedBy(call.handler))
    /\ call' = None
    /\ UNCHANGED <<loopVars, historyVars, calls, running, handlers, registrations>>

\* Fault: the handler still lists the registration.
unwatchKeepsReg(key) ==
    /\ registrations' = Remove(registrations, key)
    /\ interest' = IF Contains(registrations, key)
                   THEN [interest EXCEPT ![Get(registrations, key).fd] = None]
                   ELSE interest
    /\ UNCHANGED handlers

unwatch(key) ==
    LET reg == Get(registrations, key)
        entry == Get(handlers, reg.handler_key)
    IN  IF Contains(registrations, key)
        THEN /\ registrations' = Remove(registrations, key)
             /\ handlers' = IF Contains(handlers, reg.handler_key)
                            THEN Put(handlers, reg.handler_key, [entry EXCEPT !.regs = @ \ {key}])
                            ELSE handlers
             /\ interest' = [interest EXCEPT ![reg.fd] = None]
        ELSE UNCHANGED <<registrations, handlers, interest>>

\* Fault: the flag is set whether or not the kernel was told.
set_write_interestFlagFirst(key, enabled, kernelOk) ==
    LET reg == Get(registrations, key)
    IN  IF Contains(registrations, key)
        THEN /\ registrations' = Put(registrations, key, [reg EXCEPT !.write_interest = enabled])
             /\ interest' = IF kernelOk THEN [interest EXCEPT ![reg.fd].write = enabled]
                            ELSE interest
        ELSE UNCHANGED <<interest, registrations>>

\* set_write_interest: nothing to do when it is set already; the kernel first,
\* the flag only when that succeeded.
set_write_interest(key, enabled, kernelOk) ==
    LET reg == Get(registrations, key)
    IN  IF /\ Contains(registrations, key)
           /\ reg.write_interest # enabled
           /\ kernelOk
        THEN /\ interest' = [interest EXCEPT ![reg.fd] =
                    [token |-> ToU64(key), read |-> reg.read_interest, write |-> enabled]]
             /\ registrations' = Put(registrations, key, [reg EXCEPT !.write_interest = enabled])
        ELSE UNCHANGED <<interest, registrations>>

set_read_interest(key, enabled, kernelOk) ==
    LET reg == Get(registrations, key)
    IN  IF Contains(registrations, key) /\ kernelOk
        THEN /\ interest' = [interest EXCEPT ![reg.fd] =
                    [token |-> ToU64(key), read |-> enabled, write |-> reg.write_interest]]
             /\ registrations' = Put(registrations, key, [reg EXCEPT !.read_interest = enabled])
        ELSE UNCHANGED <<interest, registrations>>

-----------------------------------------------------------------------------
(* What a callback does: any of the reactor's calls, and closing its fds.  *)

InCallback ==
    /\ running # None /\ call = None /\ calls < MaxCalls
    /\ calls' = calls + 1
    /\ running' = [running EXCEPT !.fresh = FALSE]

\* The registration keys the running handler was ever given, stale ones too.
OwnRegs == {p[1] : p \in {q \in watched : q[2] = running.handler}}

CallRegister(n) ==
    InCallback /\ register(n) /\ UNCHANGED loopVars

\* The handler opens an fd and watches it under its own key, which is stale
\* once it has unregistered itself; it closes the fd if that fails.
CallWatch ==
    /\ InCallback /\ watches < MaxWatches
    /\ watches' = watches + 1
    /\ \E fd \in LowestClosed(1) :
          \/ /\ ~WatchRefused(running.key, fd)
             /\ watch(running.key, fd, running.handler)
             /\ owner' = [owner EXCEPT ![fd] = running.handler]
          \/ /\ registrations' = IF WatchRefused(running.key, fd) THEN registrations
                                 ELSE FailedAdd(running.key, fd)
             /\ UNCHANGED <<handlers, interest, watched, owner>>
    /\ UNCHANGED <<loopVars, call, made>>

CallUnwatch ==
    /\ InCallback
    /\ \E key \in OwnRegs : unwatch(key)
    /\ UNCHANGED <<loopVars, historyVars, call, owner>>

\* A handler keeps an fd open while it is watched.
CallClose ==
    /\ InCallback
    /\ \E fd \in OwnedBy(running.handler) : ~IsWatched(fd) /\ Close({fd})
    /\ UNCHANGED <<loopVars, historyVars, call, handlers, registrations>>

CallSetWriteInterest ==
    /\ InCallback
    /\ \E key \in OwnRegs, enabled, kernelOk \in BOOLEAN :
          set_write_interest(key, enabled, kernelOk)
    /\ UNCHANGED <<loopVars, historyVars, call, owner, handlers>>

CallSetReadInterest ==
    /\ InCallback
    /\ \E key \in OwnRegs, enabled, kernelOk \in BOOLEAN :
          set_read_interest(key, enabled, kernelOk)
    /\ UNCHANGED <<loopVars, historyVars, call, owner, handlers>>

\* The dispatcher unregisters DIAL proxies, and a proxy itself.
CallUnregister ==
    /\ InCallback
    /\ \E p \in made : unregister(p[1])
    /\ UNCHANGED <<loopVars, historyVars, registrations, interest, owner>>

CallRequest ==
    /\ InCallback
    /\ \/ shutdown' = TRUE /\ UNCHANGED dump_pending
       \/ dump_pending' = TRUE /\ UNCHANGED shutdown
    /\ UNCHANGED <<events, sweep, stage, call, arenaVars, historyVars>>

-----------------------------------------------------------------------------
(* The run loop.                                                           *)

Idle == running = None /\ call = None

\* Before the loop, main registers its handlers (src/src/lib.rs).
Setup(n) == Idle /\ stage = "setup" /\ register(n) /\ UNCHANGED <<loopVars, running, calls>>

Run ==
    /\ Idle /\ stage = "setup"
    /\ stage' = "wait"
    /\ UNCHANGED <<arenaVars, historyVars, calls, events, sweep, running, call, shutdown, dump_pending>>

\* wait: the kernel fills the batch in any order, an fd at most once.  A hangup
\* or an error counts as readable whatever the mask.
WaitReports ==
    /\ Idle /\ stage = "wait" /\ Len(events) < EventCapacity
    /\ \E k \in Keys(registrations), readable, writable \in BOOLEAN :
          LET reg == Get(registrations, k)
              armed == interest[reg.fd]
          IN  /\ armed # None
              /\ \A i \in DOMAIN events : events[i].token # armed.token
              /\ writable => armed.write
              /\ readable \/ writable
              /\ events' = Append(events, [token |-> armed.token, readable |-> readable,
                                           writable |-> writable, about |-> reg.user_data])
    /\ UNCHANGED <<arenaVars, historyVars, calls, sweep, stage, running, call, shutdown, dump_pending>>

WaitReturns ==
    /\ Idle /\ stage = "wait"
    /\ stage' = "events"
    /\ UNCHANGED <<arenaVars, historyVars, calls, events, sweep, running, call, shutdown, dump_pending>>

\* A wait that fails ends the loop.
WaitFails ==
    /\ Idle /\ stage = "wait" /\ events = <<>>
    /\ stage' = "stopped"
    /\ UNCHANGED <<arenaVars, historyVars, calls, events, sweep, running, call, shutdown, dump_pending>>

\* take_handler succeeds.
CanTake(key) == Contains(handlers, key) /\ Get(handlers, key).handler # None

\* take_handler, and the callback it is taken out for.
take(key, reg, write, phase, about) ==
    LET entry == Get(handlers, key)
    IN  /\ handlers' = Put(handlers, key, [entry EXCEPT !.handler = None])
        /\ running' = [handler |-> entry.handler, key |-> key, reg |-> reg, write |-> write,
                       phase |-> phase, about |-> about, fresh |-> TRUE]

\* Fault: write readiness is not checked again after the read phase.
WriteArmedUnchecked(reg) == TRUE

WriteArmed(reg) == Contains(registrations, reg) /\ Get(registrations, reg).write_interest

\* dispatch: a stale registration, a handler that is gone, and write readiness
\* that was disarmed since the wait, are ignored.
Dispatch ==
    LET event == Head(events)
        reg == FromU64(event.token)
        key == Get(registrations, reg).handler_key
        phase == IF event.readable THEN "readable" ELSE "writable"
    IN  /\ Idle /\ stage = "events" /\ events # <<>>
        /\ events' = Tail(events)
        /\ IF /\ Contains(registrations, reg) /\ CanTake(key)
              /\ event.readable \/ (event.writable /\ WriteArmed(reg))
           THEN take(key, reg, event.writable /\ event.readable, phase, event.about)
           ELSE UNCHANGED <<handlers, running>>
        /\ UNCHANGED <<registrations, interest, owner, historyVars, calls, sweep, stage, call,
                       shutdown, dump_pending>>

\* Between on_readable and on_writable: the read phase may have unwatched the
\* fd or disarmed it.
Writable ==
    /\ running # None /\ call = None
    /\ running.write /\ WriteArmed(running.reg)
    /\ running' = [running EXCEPT !.phase = "writable", !.write = FALSE, !.fresh = TRUE]
    /\ UNCHANGED <<loopVars, arenaVars, historyVars, calls, call>>

\* restore_handler: a handler that was unregistered meanwhile is dropped here,
\* with the fds it still owns.
Restore ==
    /\ running # None /\ call = None
    /\ ~(running.write /\ WriteArmed(running.reg))
    /\ LET entry == Get(handlers, running.key)
       IN  IF Contains(handlers, running.key)
           THEN /\ handlers' = Put(handlers, running.key,
                                   [entry EXCEPT !.handler = running.handler])
                /\ UNCHANGED <<owner, interest>>
           ELSE Close(OwnedBy(running.handler)) /\ UNCHANGED handlers
    /\ running' = None
    /\ UNCHANGED <<loopVars, historyVars, calls, registrations, call>>

\* poll_once is done: the control sweep is over a snapshot of every handler,
\* the deadline sweep over the ones that are due.
Snapshot(keys) == {<<k, Get(handlers, k).handler>> : k \in keys}

EventsDone ==
    /\ Idle /\ stage = "events" /\ events = <<>>
    /\ dump_pending' = FALSE
    /\ sweep' = IF dump_pending THEN Snapshot(Keys(handlers)) ELSE {}
    /\ stage' = "controls"
    /\ UNCHANGED <<arenaVars, historyVars, calls, events, running, call, shutdown>>

ControlsDone ==
    /\ Idle /\ stage = "controls" /\ sweep = {}
    /\ \E due \in SUBSET Keys(handlers) : sweep' = Snapshot(due)
    /\ stage' = "deadlines"
    /\ UNCHANGED <<arenaVars, historyVars, calls, events, running, call, shutdown, dump_pending>>

DeadlinesDone ==
    /\ Idle /\ stage = "deadlines" /\ sweep = {}
    /\ stage' = IF shutdown THEN "stopped" ELSE "wait"
    /\ UNCHANGED <<arenaVars, historyVars, calls, events, sweep, running, call, shutdown, dump_pending>>

\* One handler of dispatch_control or dispatch_deadlines, in the order of the
\* slots; one that went mid-sweep is skipped.
Sweep ==
    \E p \in sweep :
        /\ Idle /\ stage \in {"controls", "deadlines"}
        /\ \A q \in sweep : p[1].index <= q[1].index
        /\ sweep' = sweep \ {p}
        /\ IF CanTake(p[1])
           THEN take(p[1], None, FALSE, "sweep", p[2])
           ELSE UNCHANGED <<handlers, running>>
        /\ UNCHANGED <<registrations, interest, owner, historyVars, calls, events, stage, call,
                       shutdown, dump_pending>>

Stopped == stage = "stopped" /\ UNCHANGED vars

Next ==
    \/ \E n \in {0, 1, 2} : Setup(n) \/ CallRegister(n)
    \/ RegisterWatch \/ RegisterDone \/ UnregisterReg \/ UnregisterDone
    \/ CallWatch \/ CallUnwatch \/ CallClose \/ CallUnregister \/ CallRequest
    \/ CallSetWriteInterest \/ CallSetReadInterest
    \/ Run \/ WaitReports \/ WaitReturns \/ WaitFails \/ Dispatch \/ Writable \/ Restore
    \/ EventsDone \/ ControlsDone \/ DeadlinesDone \/ Sweep \/ Stopped

Spec == Init /\ [][Next]_vars

-----------------------------------------------------------------------------
\* The kernel's interest list and the registrations never disagree, whatever
\* kernel calls fail: each live registration's fd is armed with its key and
\* its two flags, and nothing else is armed (watch, unwatch, unregister and
\* set_*_interest each change both).
InterestMirrorsRegistrations ==
    /\ \A k \in Keys(registrations) :
          LET reg == Get(registrations, k)
          IN  interest[reg.fd] = [token |-> ToU64(k), read |-> reg.read_interest,
                                  write |-> reg.write_interest]
    /\ \A f \in Fds : interest[f] # None => IsWatched(f)

\* Every live registration is listed by the live handler it names, or by the
\* unregister in progress, and a handler lists only its live registrations: no
\* watch outlives its handler, and unregister misses none.
RegsMatchHandlers ==
    /\ \A k \in Keys(registrations) :
          LET key == Get(registrations, k).handler_key
          IN  \/ Contains(handlers, key) /\ k \in Get(handlers, key).regs
              \/ call # None /\ call.op = "unregister" /\ k \in call.regs
    /\ \A key \in Keys(handlers) : \A k \in Get(handlers, key).regs :
          Contains(registrations, k) /\ Get(registrations, k).handler_key = key

\* "The reactor holds only kernel interest, and drops it before the handler
\* drops and closes the fd": a watched fd is open, and is its watcher's, also
\* when a handler is unregistered from its own callback or by another's.
FdsOutliveInterest ==
    \A k \in Keys(registrations) : <<k, owner[Get(registrations, k).fd]>> \in watched

\* The bookkeeping of watches is consistent at every step: each of the three above, in states of the
\* shape that TypeOK gives.
WatchesConsistent ==
    TypeOK /\ InterestMirrorsRegistrations /\ RegsMatchHandlers /\ FdsOutliveInterest

\* A callback begins only for a handler that is still registered, with the fd
\* it watched and the user_data it gave then, armed for what is delivered, and
\* an event or a sweep never reaches a later user of the slot or of the fd
\* (dispatch and the sweeps work from keys taken before other callbacks ran).
DeliveredToWatcher ==
    running # None /\ running.fresh =>
        /\ Contains(handlers, running.key)
        /\ <<running.key, running.handler>> \in made
        /\ IF running.phase = "sweep" THEN running.about = running.handler
           ELSE LET reg == Get(registrations, running.reg)
                IN  /\ Contains(registrations, running.reg)
                    /\ reg.user_data = running.about
                    /\ owner[reg.fd] = running.handler
                    /\ running.phase = "writable" => reg.write_interest

\* A handler is missing from its slot only while its own callback runs, and
\* comes back to the slot it was registered in (take_handler and
\* restore_handler): none is lost to a later dispatch, and none is put in the
\* place of a handler registered while it was out.
HandlerComesBack ==
    \A key \in Keys(handlers) :
        LET handler == Get(handlers, key).handler
        IN  IF handler = None THEN running # None /\ running.key = key
            ELSE <<key, handler>> \in made

\* A handler's call through its own registration keys, stale ones included,
\* never changes a registration or the interest of another handler's fd.
OnlyOwnRegistrations ==
    [][running # None /\ call = None /\ call' = None =>
          \A k \in Keys(registrations) :
              LET fd == Get(registrations, k).fd
              IN  owner[fd] # running.handler =>
                     /\ Get(registrations', k) = Get(registrations, k)
                     /\ interest'[fd] = interest[fd]]_vars

=============================================================================
