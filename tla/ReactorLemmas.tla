--------------------------- MODULE ReactorLemmas ---------------------------
(***************************************************************************)
(* The inductive invariant of Reactor, and what the operations its actions *)
(* are made of do to it: registering, watching, a watch that fails,        *)
(* unregistering, dropping a registration, closing fds, arming and taking  *)
(* a handler out.  What a stale key or a batched event can reach rests on  *)
(* Spent: an arena gives out no key twice, so a key that resolves is the   *)
(* one its holder was given.                                               *)
(***************************************************************************)
EXTENDS Reactor, ArenaTheorems, FiniteSetTheorems

MadeKeys == {p[1] : p \in made}
WatchedKeys == {p[1] : p \in watched}

\* A key stands for one handler, and a handler has one key; a registration's key for one watcher.
History ==
    /\ IsFiniteSet(made) /\ Cardinality(made) <= MaxHandlers
    /\ \A p \in made : p[2] <= Cardinality(made)
    /\ \A p, q \in made : p[1] = q[1] \/ p[2] = q[2] => p = q
    /\ \A p, q \in watched : p[1] = q[1] => p = q
    /\ Spent(handlers, MadeKeys, Cardinality(made))
    /\ Spent(registrations, WatchedKeys, watches)

\* A live registration's fd is its watcher's, who is the handler that it names, and no other
\* registration's; the kernel has it as the registration does.
Held ==
    /\ \A k \in Keys(registrations) :
          LET reg == Get(registrations, k)
          IN  /\ <<k, owner[reg.fd]>> \in watched
              /\ <<reg.handler_key, owner[reg.fd]>> \in made
    /\ \A j, k \in Keys(registrations) :
          Get(registrations, j).fd = Get(registrations, k).fd => j = k
    /\ InterestMirrorsRegistrations

\* A running callback is of the handler that its key was made for, and its event is about the
\* registration it has, if that is still there.
Running ==
    running # None =>
        /\ <<running.key, running.handler>> \in made
        /\ IF running.phase = "sweep"
           THEN running.reg = None /\ ~running.write /\ running.about = running.handler
           ELSE /\ running.reg \in WatchedKeys
                /\ Contains(registrations, running.reg) =>
                      /\ Get(registrations, running.reg).handler_key = running.key
                      /\ Get(registrations, running.reg).user_data = running.about
        /\ running.fresh =>
              /\ call = None
              /\ Contains(handlers, running.key)
              /\ running.phase # "sweep" => Contains(registrations, running.reg)
              /\ running.phase = "writable" => Get(registrations, running.reg).write_interest

\* A register in progress is for a handler in its slot and fds it has opened.
Registering ==
    call # None /\ call.op = "register_with_fds" =>
        /\ <<call.key, call.handler>> \in made
        /\ Contains(handlers, call.key)
        /\ \A fd \in call.fds : owner[fd] = call.handler
        /\ watches + Cardinality(call.fds) <= MaxWatches

\* An unregister in progress has live registrations of no live handler, and the handler is no
\* longer in its slot.
Unregistering ==
    call # None /\ call.op = "unregister" =>
        /\ \A k \in call.regs : /\ Contains(registrations, k)
                                /\ ~Contains(handlers, Get(registrations, k).handler_key)
        /\ call.handler # None =>
              \E p \in made : p[2] = call.handler /\ ~Contains(handlers, p[1])

\* An event of the batch is for a key that was watched, with the user_data it was watched with if
\* the key still resolves.
Batched ==
    \A i \in DOMAIN events :
        \E k \in WatchedKeys :
            /\ events[i].token = ToU64(k)
            /\ Contains(registrations, k) => Get(registrations, k).user_data = events[i].about

IInv ==
    /\ TypeOK
    /\ History
    /\ Held
    /\ RegsMatchHandlers
    /\ HandlerComesBack
    /\ Running
    /\ Registering
    /\ Unregistering
    /\ Batched
    /\ sweep \subseteq made

-----------------------------------------------------------------------------
\* The parts of the invariant, for proofs that need a few of them.
LEMMA Parts ==
    IInv => /\ TypeOK /\ History /\ Held /\ RegsMatchHandlers /\ HandlerComesBack
            /\ Running /\ Registering /\ Unregistering /\ Batched /\ sweep \subseteq made
BY DEF IInv

\* The values of the two arenas.
LEMMA Values ==
    ASSUME TypeOK
    PROVE  /\ \A k \in Key : Get(handlers, k) \in Entry \cup {None}
           /\ \A k \in Key : Get(registrations, k) \in Registration \cup {None}
           /\ Keys(handlers) = {k \in Key : Get(handlers, k) # None}
           /\ Keys(registrations) = {k \in Key : Get(registrations, k) # None}
BY Resolved DEF TypeOK, None

\* What is known of a live registration.
LEMMA LiveReg ==
    ASSUME IInv, NEW k \in Keys(registrations)
    PROVE  LET reg == Get(registrations, k)
           IN  /\ k \in Key /\ reg \in Registration /\ Contains(registrations, k)
               /\ k \in WatchedKeys
               /\ <<k, owner[reg.fd]>> \in watched
               /\ <<reg.handler_key, owner[reg.fd]>> \in made
               /\ reg.handler_key \in Key /\ reg.fd \in Fds /\ owner[reg.fd] \in Handler
<1> DEFINE reg == Get(registrations, k)
<1>1. k \in Key /\ reg \in Registration /\ reg # None
  BY Values, Parts
<1>2. <<k, owner[reg.fd]>> \in watched /\ <<reg.handler_key, owner[reg.fd]>> \in made
  BY Parts DEF Held
<1>3. k \in WatchedKeys
  <2>1. <<k, owner[reg.fd]>>[1] = k
    OBVIOUS
  <2> HIDE DEF reg
  <2> QED BY <1>2, <2>1 DEF WatchedKeys
<1>4. reg.handler_key \in Key /\ reg.fd \in Fds
  BY <1>1 DEF Registration
<1>5. owner[reg.fd] \in Handler
  BY <1>2, Parts DEF TypeOK
<1> QED BY <1>1, <1>2, <1>3, <1>4, <1>5 DEF Contains, None

\* The kernel has a live registration's fd as the registration does.
LEMMA LiveArmed ==
    ASSUME IInv
    PROVE  \A k \in Keys(registrations) :
               interest[Get(registrations, k).fd] =
                  [token |-> ToU64(k), read |-> Get(registrations, k).read_interest,
                   write |-> Get(registrations, k).write_interest]
BY Parts DEF Held, InterestMirrorsRegistrations

-----------------------------------------------------------------------------
\* No callback begins: none runs before and after, or the one that runs makes a call.
Calm ==
    \/ running = None /\ running' = None
    \/ running # None /\ running' = [running EXCEPT !.fresh = FALSE]

\* The keys that were watched resolve to what they did, in so far as events depend on it, or to
\* nothing.
Keeps ==
    \A k \in WatchedKeys :
        Contains(registrations', k) =>
            /\ Contains(registrations, k)
            /\ Get(registrations', k).handler_key = Get(registrations, k).handler_key
            /\ Get(registrations', k).user_data = Get(registrations, k).user_data

\* A callback that makes a call stays the one it is.
LEMMA CalmRunning ==
    ASSUME TypeOK, Calm
    PROVE  /\ running' \in {None} \cup Frame
           /\ running # None <=> running' # None
           /\ running # None => running'.key = running.key /\ running'.handler = running.handler
<1>1. CASE running = None
  BY <1>1 DEF Calm
<1>2. CASE running # None
  <2>1. running \in Frame /\ running' = [running EXCEPT !.fresh = FALSE]
    BY <1>2 DEF Calm, TypeOK
  <2>2. running' \in Frame /\ running'.key = running.key /\ running'.handler = running.handler
    BY <2>1, Zenon DEF Frame
  <2> QED BY <1>2, <2>2, NoneAssumption
<1> QED BY <1>1, <1>2

\* While a call is in progress no callback begins.
LEMMA BusyCalm ==
    ASSUME IInv, call # None, UNCHANGED running
    PROVE  Calm
<1>1. CASE running = None
  BY <1>1 DEF Calm
<1>2. CASE running # None
  <2>1. running \in Frame /\ ~running.fresh
    BY <1>2, Parts DEF TypeOK, Running
  <2>2. running = [running EXCEPT !.fresh = FALSE]
    BY <2>1 DEF Frame
  <2> QED BY <1>2, <2>2 DEF Calm
<1> QED BY <1>1, <1>2

\* What was taken from the arenas before a call stays right through it.
LEMMA KeptIInv ==
    ASSUME IInv, Calm, Keeps, watched \subseteq watched', made \subseteq made', UNCHANGED <<events, sweep>>
    PROVE  Running' /\ Batched' /\ (sweep \subseteq made)'
<1>1. WatchedKeys \subseteq WatchedKeys'
  BY DEF WatchedKeys
<1>2. Batched'
  <2> SUFFICES ASSUME NEW i \in DOMAIN events
               PROVE  \E k \in WatchedKeys' :
                         /\ events[i].token = ToU64(k)
                         /\ Contains(registrations', k) => Get(registrations', k).user_data = events[i].about
      BY DEF Batched
  <2>1. PICK k \in WatchedKeys :
           /\ events[i].token = ToU64(k)
           /\ Contains(registrations, k) => Get(registrations, k).user_data = events[i].about
    BY Parts DEF Batched
  <2> QED BY <1>1, <2>1 DEF Keeps
<1>3. Running'
  <2>1. CASE running = None /\ running' = None
    BY <2>1 DEF Running
  <2>2. CASE running # None /\ running' = [running EXCEPT !.fresh = FALSE]
    <3>1. running \in Frame
      BY <2>2, Parts DEF TypeOK
    <3>2. /\ running'.key = running.key /\ running'.handler = running.handler
          /\ running'.phase = running.phase /\ running'.reg = running.reg
          /\ running'.write = running.write /\ running'.about = running.about
          /\ running'.fresh = FALSE
      BY <2>2, <3>1 DEF Frame
    <3>3. Running
      BY Parts
    <3>4. /\ <<running.key, running.handler>> \in made'
          /\ IF running.phase = "sweep"
             THEN running.reg = None /\ ~running.write /\ running.about = running.handler
             ELSE /\ running.reg \in WatchedKeys'
                  /\ Contains(registrations', running.reg) =>
                        /\ Get(registrations', running.reg).handler_key = running.key
                        /\ Get(registrations', running.reg).user_data = running.about
      BY <1>1, <2>2, <3>3 DEF Running, Keeps
    <3> QED BY <3>2, <3>4 DEF Running
  <2> QED BY <2>1, <2>2 DEF Calm
<1>4. (sweep \subseteq made)'
  BY Parts
<1> QED BY <1>2, <1>3, <1>4

\* A handler is registered in a slot of its own, with fds of its own.
LEMMA RegisterIInv ==
    ASSUME IInv, NEW n \in Nat, register(n), call = None, Calm,
           UNCHANGED loopVars, calls' \in 0 .. MaxCalls
    PROVE  IInv'
<1> DEFINE handler == Cardinality(made) + 1
           key == NextKey(handlers)
           fds == LowestClosed(n)
           entry == [handler |-> handler, regs |-> {}]
<1>1. /\ handler \in Handler /\ Cardinality(fds) = n /\ watches + n <= MaxWatches
      /\ owner' = [f \in Fds |-> IF f \in fds THEN handler ELSE owner[f]]
      /\ handlers' = Insert(handlers, entry)
      /\ made' = made \cup {<<key, handler>>}
      /\ call' = [op |-> "register_with_fds", handler |-> handler, key |-> key, fds |-> fds]
      /\ UNCHANGED <<registrations, interest, watched, watches>>
      /\ UNCHANGED <<events, sweep, stage, shutdown, dump_pending>>
  BY DEF register, loopVars
<1>2. IsArena(handlers, Entry) /\ None \notin Entry /\ entry \in Entry
  BY <1>1, NoneAssumption, Parts DEF TypeOK, Entry
<1>3. MadeKeys \in SUBSET Key /\ made \subseteq Key \X Handler
  BY Parts DEF MadeKeys, TypeOK
<1>4. IsFiniteSet(made) /\ Cardinality(made) \in Nat /\ Spent(handlers, MadeKeys, Cardinality(made))
  BY FS_CardinalityType, Parts DEF History
<1> HIDE DEF entry
<1>5. /\ IsArena(handlers', Entry) /\ key \in Key
      /\ Get(handlers, key) = None /\ Get(handlers', key) = entry
      /\ \A k \in Key : k # key => Get(handlers', k) = Get(handlers, k)
  BY <1>1, <1>2, InsertMap DEF None
<1>6. key \notin MadeKeys /\ Spent(handlers', MadeKeys \cup {key}, Cardinality(made) + 1)
  BY <1>1, <1>2, <1>3, <1>4, SpentInsert DEF None
<1>7. fds \subseteq Fds
  BY DEF LowestClosed
<1> HIDE DEF key, fds
<1>8. TypeOK'
  <2>1. owner' \in [Fds -> Handler \cup {Closed}]
    BY <1>1, Parts DEF TypeOK
  <2>2. call' \in Call
    BY <1>1, <1>5, <1>7 DEF Call
  <2>3. made' \subseteq Key \X Handler
    BY <1>1, <1>3, <1>5
  <2> HIDE DEF entry, handler
  <2> QED BY <1>1, <1>5, <2>1, <2>2, <2>3, CalmRunning, Parts DEF TypeOK
<1>9. <<key, handler>> \notin made /\ MadeKeys' = MadeKeys \cup {key}
  BY <1>1, <1>6 DEF MadeKeys
<1>10. /\ IsFiniteSet(made') /\ Cardinality(made') = Cardinality(made) + 1
       /\ Cardinality(made') <= MaxHandlers
  <2>1. IsFiniteSet(made') /\ Cardinality(made') = Cardinality(made) + 1
    BY <1>1, <1>4, <1>9, FS_AddElement, Zenon
  <2>2. Cardinality(made) + 1 \in 1 .. MaxHandlers
    BY <1>1 DEF Handler
  <2> QED BY <2>1, <2>2
<1>11. History'
  <2>1. \A p \in made : p[2] <= Cardinality(made) /\ p[2] \in Nat /\ p[1] \in MadeKeys
    BY <1>3, ReactorAssumption, Parts DEF History, MadeKeys, Handler
  <2>2. \A p \in made' : p[2] <= Cardinality(made')
    BY <1>1, <1>4, <1>10, <2>1
  <2>3. \A p, q \in made' : p[1] = q[1] \/ p[2] = q[2] => p = q
    <3>1. \A p \in made : p[1] # key /\ p[2] # handler
      BY <1>4, <1>6, <2>1
    <3> QED BY <1>1, <3>1, Parts DEF History
  <2>4. WatchedKeys' = WatchedKeys
    BY <1>1 DEF WatchedKeys
  <2> HIDE DEF handler
  <2> QED BY <1>1, <1>6, <1>9, <1>10, <2>2, <2>3, <2>4, Parts, Zenon DEF History
<1>12. \A k \in Key : Get(registrations, k) # None =>
          /\ Get(registrations, k) \in Registration
          /\ owner[Get(registrations, k).fd] \in Handler
          /\ owner'[Get(registrations, k).fd] = owner[Get(registrations, k).fd]
  <2> SUFFICES ASSUME NEW k \in Key, Get(registrations, k) # None
               PROVE  /\ Get(registrations, k) \in Registration
                      /\ owner[Get(registrations, k).fd] \in Handler
                      /\ owner'[Get(registrations, k).fd] = owner[Get(registrations, k).fd]
      OBVIOUS
  <2>1. k \in Keys(registrations) /\ Get(registrations, k) \in Registration
    BY Values, Parts
  <2>2. <<Get(registrations, k).handler_key, owner[Get(registrations, k).fd]>> \in made
    BY <2>1, Parts, Zenon DEF Held
  <2>3. owner[Get(registrations, k).fd] \in Handler /\ Get(registrations, k).fd \in Fds
    BY <1>3, <2>1, <2>2 DEF Registration
  <2>4. Get(registrations, k).fd \notin fds
    BY <2>3, ReactorAssumption DEF fds, LowestClosed, Closed, Handler
  <2> QED BY <1>1, <2>1, <2>3, <2>4
<1>13. Keys(registrations)' = Keys(registrations)
       /\ Keys(registrations) = {k \in Key : Get(registrations, k) # None}
  BY <1>1, Values, Parts
<1>14. Held'
  BY <1>1, <1>12, <1>13, Parts DEF Held, InterestMirrorsRegistrations, IsWatched
<1>15. Keys(handlers) = {k \in Key : Get(handlers, k) # None}
       /\ Keys(handlers)' = {k \in Key : Get(handlers', k) # None}
  <2>1. IsArena(handlers, Entry) /\ IsArena(handlers', Entry)
    BY <1>2, <1>5
  <2> QED BY <2>1, Resolved DEF None
<1>16. RegsMatchHandlers'
  <2>1. ASSUME NEW k \in Keys(registrations)
        PROVE  LET hk == Get(registrations, k).handler_key
               IN  Contains(handlers', hk) /\ k \in Get(handlers', hk).regs
    <3> DEFINE hk == Get(registrations, k).handler_key
    <3>1. hk \in Key
      BY <1>12, <1>13 DEF Registration
    <3>2. Contains(handlers, hk) /\ k \in Get(handlers, hk).regs
      BY Parts DEF RegsMatchHandlers
    <3>3. hk # key
      BY <1>5, <3>2 DEF Contains, None
    <3> QED BY <1>5, <3>1, <3>2, <3>3 DEF Contains
  <2>2. ASSUME NEW k \in Keys(handlers)', NEW j \in Get(handlers', k).regs
        PROVE  Contains(registrations, j) /\ Get(registrations, j).handler_key = k
    <3>1. k # key
      BY <1>5, <2>2 DEF entry
    <3>2. k \in Keys(handlers) /\ Get(handlers', k) = Get(handlers, k)
      BY <1>5, <1>15, <3>1
    <3> QED BY <2>2, <3>2, Parts DEF RegsMatchHandlers
  <2> QED BY <1>1, <1>13, <2>1, <2>2 DEF RegsMatchHandlers
<1>17. HandlerComesBack'
  <2> SUFFICES ASSUME NEW k \in Keys(handlers)'
               PROVE  IF Get(handlers', k).handler = None THEN running' # None /\ running'.key = k
                      ELSE <<k, Get(handlers', k).handler>> \in made'
      BY DEF HandlerComesBack
  <2>1. CASE k = key
    <3>1. Get(handlers', k).handler = handler /\ handler # None
      BY <1>1, <1>5, <2>1, NoneAssumption DEF entry
    <3> QED BY <1>1, <2>1, <3>1
  <2>2. CASE k # key
    <3>1. k \in Keys(handlers) /\ Get(handlers', k) = Get(handlers, k)
      BY <1>5, <1>15, <2>2
    <3>2. IF Get(handlers, k).handler = None THEN running # None /\ running.key = k
          ELSE <<k, Get(handlers, k).handler>> \in made
      BY <3>1, Parts DEF HandlerComesBack
    <3>3. running # None => running' # None /\ running'.key = running.key
      BY CalmRunning, Parts
    <3> QED BY <1>1, <3>1, <3>2, <3>3
  <2> QED BY <2>1, <2>2
<1>18. Registering'
  <2>1. call'.fds = fds /\ call'.key = key /\ call'.handler = handler
    BY <1>1
  <2>2. Contains(handlers', key)
    BY <1>2, <1>5 DEF Contains, None
  <2>3. \A fd \in fds : owner'[fd] = handler
    BY <1>1, <1>7
  <2> HIDE DEF handler
  <2> QED BY <1>1, <2>1, <2>2, <2>3 DEF Registering
<1>19. Unregistering'
  BY <1>1 DEF Unregistering
<1>20. Running' /\ Batched' /\ (sweep \subseteq made)'
  <2>1. Keeps
    BY <1>1 DEF Keeps
  <2> QED BY <1>1, <2>1, KeptIInv
<1> QED BY <1>8, <1>11, <1>14, <1>16, <1>17, <1>18, <1>19, <1>20 DEF IInv

\* An entry is written in place: the same keys resolve.
LEMMA PutEntry ==
    ASSUME IInv, NEW key \in Keys(handlers), NEW new \in Entry, handlers' = Put(handlers, key, new)
    PROVE  /\ IsArena(handlers', Entry) /\ Get(handlers', key) = new
           /\ \A k \in Key : k # key => Get(handlers', k) = Get(handlers, k)
           /\ Spent(handlers', MadeKeys, Cardinality(made))
           /\ Keys(handlers)' = Keys(handlers) /\ Keys(handlers) \subseteq Key
           /\ \A k \in Key : Contains(handlers', k) <=> Contains(handlers, k)
<1>1. IsArena(handlers, Entry) /\ NoValue \notin Entry
  BY Parts, NoneAssumption DEF TypeOK, None
<1>2. Keys(handlers) = {k \in Key : Get(handlers, k) # NoValue}
  BY <1>1, Resolved
<1>3. key \in Key /\ Contains(handlers, key)
  BY <1>2 DEF Contains
<1>4. /\ IsArena(handlers', Entry) /\ Get(handlers', key) = new
      /\ \A k \in Key : k # key => Get(handlers', k) = Get(handlers, k)
  BY <1>1, <1>3, PutMap
<1>5. Spent(handlers', MadeKeys, Cardinality(made))
  BY <1>1, <1>3, SpentPut, Parts DEF History
<1>6. \A k \in Key : Contains(handlers', k) <=> Contains(handlers, k)
  BY <1>1, <1>3, <1>4 DEF Contains
<1>7. Keys(handlers)' = {k \in Key : Get(handlers', k) # NoValue}
  BY <1>4, Resolved
<1>8. Keys(handlers)' = Keys(handlers)
  BY <1>2, <1>6, <1>7 DEF Contains
<1> QED BY <1>2, <1>4, <1>5, <1>6, <1>8

\* watch succeeds: the key of the new registration was never given out before.
LEMMA WatchIInv ==
    ASSUME IInv, NEW key \in Key, NEW fd \in Fds, NEW handler \in Handler,
           <<key, handler>> \in made, ~WatchRefused(key, fd), watch(key, fd, handler),
           watches + 1 <= MaxWatches, watches' = watches + 1,
           owner' \in [Fds -> Handler \cup {Closed}],
           owner'[fd] = handler, \A f \in Fds \ {fd} : owner'[f] = owner[f],
           Calm, ~(call # None /\ call.op = "unregister"), UNCHANGED <<loopVars, made>>
    PROVE  /\ IsArena(handlers', Entry) /\ IsArena(registrations', Registration)
           /\ interest' \in [Fds -> {None} \cup Interest]
           /\ watched' \subseteq Key \X Handler
           /\ History' /\ Held' /\ RegsMatchHandlers' /\ HandlerComesBack'
           /\ Running' /\ Batched' /\ (sweep \subseteq made)'
           /\ \A k \in Key : Contains(handlers', k) <=> Contains(handlers, k)
<1> DEFINE regKey == NextKey(registrations)
           entry == Get(handlers, key)
           new == NewRegistration(key, fd)
           armed == [token |-> ToU64(regKey), read |-> TRUE, write |-> FALSE]
           longer == [entry EXCEPT !.regs = @ \cup {regKey}]
<1>1. /\ registrations' = Insert(registrations, new)
      /\ interest' = [interest EXCEPT ![fd] = armed]
      /\ handlers' = Put(handlers, key, longer)
      /\ watched' = watched \cup {<<regKey, handler>>}
      /\ UNCHANGED <<events, sweep>>
  BY DEF watch, loopVars
<1>2. /\ IsArena(handlers, Entry) /\ IsArena(registrations, Registration)
      /\ NoValue \notin Entry /\ NoValue \notin Registration
      /\ interest \in [Fds -> {None} \cup Interest]
      /\ watched \subseteq Key \X Handler /\ watches \in Nat
  BY NoneAssumption, Parts DEF TypeOK, None
<1>3. /\ new \in Registration /\ new.fd = fd /\ new.handler_key = key
      /\ new.read_interest = TRUE /\ new.write_interest = FALSE
  BY <1>2 DEF NewRegistration, Registration, UserData
<1> HIDE DEF new
<1>4. /\ IsArena(registrations', Registration) /\ regKey \in Key
      /\ Get(registrations, regKey) = None /\ Get(registrations', regKey) = new
      /\ \A k \in Key : k # regKey => Get(registrations', k) = Get(registrations, k)
  BY <1>1, <1>2, <1>3, InsertMap DEF None
<1>5. entry \in Entry /\ Contains(handlers, key) /\ ~IsWatched(fd) /\ key \in Keys(handlers)
  BY Values, Parts DEF WatchRefused, Contains, None
<1> HIDE DEF regKey
<1>6. longer \in Entry /\ longer.regs = entry.regs \cup {regKey} /\ longer.handler = entry.handler
  BY <1>4, <1>5 DEF Entry
<1> HIDE DEF longer
<1>7. /\ IsArena(handlers', Entry) /\ Get(handlers', key) = longer
      /\ \A k \in Key : k # key => Get(handlers', k) = Get(handlers, k)
      /\ Spent(handlers', MadeKeys, Cardinality(made))
      /\ Keys(handlers)' = Keys(handlers) /\ Keys(handlers) \subseteq Key
      /\ \A k \in Key : Contains(handlers', k) <=> Contains(handlers, k)
  BY <1>1, <1>5, <1>6, PutEntry, Zenon
<1>8. armed \in Interest
  BY <1>4, TokenRoundTrip DEF Interest
<1>9. interest' \in [Fds -> {None} \cup Interest] /\ interest'[fd] = armed
      /\ \A f \in Fds \ {fd} : interest'[f] = interest[f]
  BY <1>1, <1>2, <1>8
<1>10. watched' \subseteq Key \X Handler
  BY <1>1, <1>2, <1>4
<1>12. WatchedKeys \in SUBSET Key /\ WatchedKeys' = WatchedKeys \cup {regKey}
  <2>1. <<regKey, handler>>[1] = regKey
    OBVIOUS
  <2>2. WatchedKeys' = WatchedKeys \cup {regKey}
    BY <1>1, <2>1, Zenon DEF WatchedKeys
  <2>3. WatchedKeys \in SUBSET Key
    BY <1>2 DEF WatchedKeys
  <2> QED BY <2>2, <2>3
<1>13. regKey \notin WatchedKeys /\ Spent(registrations', WatchedKeys', watches')
  <2>1. Spent(registrations, WatchedKeys, watches)
    BY Parts DEF History
  <2> QED BY <1>1, <1>2, <1>3, <1>12, <2>1, SpentInsert DEF regKey
<1>14. History'
  <2>2. \A p, q \in watched' : p[1] = q[1] => p = q
    <3>1. \A p \in watched : p[1] # regKey
      BY <1>13 DEF WatchedKeys
    <3> QED BY <1>1, <3>1, Parts DEF History
  <2> QED BY <1>7, <1>13, <2>2, Parts DEF History, MadeKeys
<1>15. /\ Keys(registrations) = {k \in Key : Get(registrations, k) # None}
       /\ Keys(registrations)' = {k \in Key : Get(registrations', k) # None}
  BY <1>2, <1>4, Resolved DEF None
<1>16. regKey \notin Keys(registrations) /\ Keys(registrations)' = Keys(registrations) \cup {regKey}
  BY <1>2, <1>3, <1>4, <1>15 DEF None
<1>17. \A k \in Keys(registrations) :
          /\ k # regKey /\ k \in Key /\ Get(registrations', k) = Get(registrations, k)
          /\ Get(registrations, k).fd \in Fds \ {fd}
  BY <1>4, <1>5, <1>16, LiveReg, Zenon DEF IsWatched
<1> HIDE DEF armed
<1>18. Held'
  <2>1. \A k \in Keys(registrations)' :
          /\ <<k, owner'[Get(registrations', k).fd]>> \in watched'
          /\ <<Get(registrations', k).handler_key, owner'[Get(registrations', k).fd]>> \in made'
    <3>1. <<regKey, owner'[fd]>> \in watched' /\ <<key, owner'[fd]>> \in made'
      BY <1>1
    <3>2. \A k \in Keys(registrations) :
             /\ <<k, owner'[Get(registrations', k).fd]>> \in watched'
             /\ <<Get(registrations', k).handler_key, owner'[Get(registrations', k).fd]>> \in made'
      BY <1>1, <1>17, LiveReg
    <3> QED BY <1>3, <1>4, <1>16, <3>1, <3>2
  <2>2. \A j, k \in Keys(registrations)' :
           Get(registrations', j).fd = Get(registrations', k).fd => j = k
    BY <1>3, <1>4, <1>16, <1>17, Parts DEF Held
  <2>3. \A k \in Keys(registrations)' :
           interest'[Get(registrations', k).fd] =
              [token |-> ToU64(k), read |-> Get(registrations', k).read_interest,
               write |-> Get(registrations', k).write_interest]
    <3>1. interest'[new.fd] = [token |-> ToU64(regKey), read |-> new.read_interest,
                               write |-> new.write_interest]
      BY <1>3, <1>9, Zenon DEF armed
    <3>2. \A k \in Keys(registrations) :
             interest'[Get(registrations, k).fd] =
                [token |-> ToU64(k), read |-> Get(registrations, k).read_interest,
                 write |-> Get(registrations, k).write_interest]
      BY <1>9, <1>17, LiveArmed
    <3> QED BY <1>4, <1>16, <1>17, <3>1, <3>2, Zenon
  <2>4. \A f \in Fds : interest'[f] # None =>
           \E k \in Keys(registrations)' : Get(registrations', k).fd = f
    <3> SUFFICES ASSUME NEW f \in Fds, interest'[f] # None
                 PROVE  \E k \in Keys(registrations)' : Get(registrations', k).fd = f
        OBVIOUS
    <3>1. CASE f = fd
      BY <1>3, <1>4, <1>16, <3>1
    <3>2. CASE f # fd
      <4>1. PICK k \in Keys(registrations) : Get(registrations, k).fd = f
        BY <1>9, <3>2, Parts DEF Held, InterestMirrorsRegistrations, IsWatched
      <4> QED BY <1>16, <1>17, <4>1
    <3> QED BY <3>1, <3>2
  <2> QED BY <2>1, <2>2, <2>3, <2>4 DEF Held, InterestMirrorsRegistrations, IsWatched
<1>19. RegsMatchHandlers'
  <2>1. ASSUME NEW k \in Keys(registrations)'
        PROVE  LET hk == Get(registrations', k).handler_key
               IN  Contains(handlers', hk) /\ k \in Get(handlers', hk).regs
    <3>1. CASE k = regKey
      BY <1>3, <1>4, <1>5, <1>6, <1>7, <3>1, Zenon
    <3>2. CASE k # regKey
      <4> DEFINE hk == Get(registrations, k).handler_key
      <4>1. k \in Keys(registrations)
        BY <1>16, <2>1, <3>2
      <4>2. hk \in Key /\ Get(registrations', k) = Get(registrations, k)
        BY <1>17, <4>1, LiveReg, Zenon
      <4>3. Contains(handlers, hk) /\ k \in Get(handlers, hk).regs
        BY <4>1, Parts DEF RegsMatchHandlers
      <4>4. Contains(handlers', hk) /\ k \in Get(handlers', hk).regs
        BY <1>6, <1>7, <4>2, <4>3, Zenon
      <4> QED BY <4>2, <4>4
    <3> QED BY <3>1, <3>2
  <2>2. ASSUME NEW k \in Keys(handlers)', NEW j \in Get(handlers', k).regs
        PROVE  Contains(registrations', j) /\ Get(registrations', j).handler_key = k
    <3>1. CASE j = regKey /\ k = key
      BY <1>2, <1>3, <1>4, <3>1 DEF Contains
    <3>2. CASE ~(j = regKey /\ k = key)
      <4>1. k \in Keys(handlers) /\ k \in Key
        BY <1>7, Zenon
      <4>2. j \in Get(handlers, k).regs
        BY <1>6, <1>7, <2>2, <3>2, <4>1
      <4>3. Contains(registrations, j) /\ Get(registrations, j).handler_key = k
        BY <4>1, <4>2, Parts DEF RegsMatchHandlers
      <4>4. j \in Key
        <5>1. Get(handlers, k) \in Entry
          BY <4>1, Values, Parts
        <5> QED BY <4>2, <5>1 DEF Entry
      <4>5. j # regKey
        BY <1>4, <4>3 DEF Contains, None
      <4> QED BY <1>4, <4>3, <4>4, <4>5 DEF Contains
    <3> QED BY <3>1, <3>2
  <2> QED BY <2>1, <2>2 DEF RegsMatchHandlers
<1>20. HandlerComesBack'
  <2>1. \A k \in Keys(handlers)' : Get(handlers', k).handler = Get(handlers, k).handler
    BY <1>6, <1>7, Zenon
  <2>2. running # None => running' # None /\ running'.key = running.key
    BY CalmRunning, Parts
  <2> QED BY <1>7, <2>1, <2>2, Parts, Zenon DEF HandlerComesBack
<1>21. Running' /\ Batched' /\ (sweep \subseteq made)'
  <2>1. Keeps
    BY <1>4, <1>12, <1>13 DEF Keeps, Contains
  <2> QED BY <1>1, <2>1, KeptIInv
<1> QED BY <1>4, <1>7, <1>9, <1>10, <1>14, <1>18, <1>19, <1>20, <1>21

\* watch fails: no key that anybody holds resolves to anything else.
LEMMA WatchFails ==
    ASSUME IInv, NEW key \in Key, NEW fd \in Fds,
           registrations' = IF WatchRefused(key, fd) THEN registrations ELSE FailedAdd(key, fd),
           watches + 1 <= MaxWatches, watches' = watches + 1, UNCHANGED watched
    PROVE  /\ IsArena(registrations', Registration)
           /\ \A k \in Key : Get(registrations', k) = Get(registrations, k)
           /\ Spent(registrations', WatchedKeys', watches')
<1>1. /\ IsArena(registrations, Registration) /\ NoValue \notin Registration
      /\ watches \in Nat /\ watches + 1 \in Nat /\ watches + 1 < GenMod
  BY NoneAssumption, ReactorAssumption, ReuseAssumption, GenModAssumption, Parts DEF TypeOK, None
<1>2. WatchedKeys \in SUBSET Key /\ Spent(registrations, WatchedKeys, watches) /\ WatchedKeys' = WatchedKeys
  BY Parts DEF TypeOK, History, WatchedKeys
<1>3. CASE WatchRefused(key, fd)
  BY <1>1, <1>2, <1>3, SpentFewer
<1>4. CASE ~WatchRefused(key, fd)
  <2> DEFINE new == NewRegistration(key, fd)
             regKey == NextKey(registrations)
             full == Insert(registrations, new)
  <2>1. new \in Registration
    BY <1>1 DEF NewRegistration, Registration, UserData
  <2>2. registrations' = Remove(full, regKey)
    BY <1>4 DEF FailedAdd
  <2> HIDE DEF new
  <2>3. /\ IsArena(full, Registration) /\ regKey \in Key /\ Get(registrations, regKey) = NoValue
        /\ \A k \in Key : k # regKey => Get(full, k) = Get(registrations, k)
    BY <1>1, <2>1, InsertMap
  <2>4. Spent(full, WatchedKeys \cup {regKey}, watches + 1)
    BY <1>1, <1>2, <2>1, SpentInsert
  <2> HIDE DEF full, regKey
  <2>5. Spent(full, WatchedKeys, watches + 1)
    BY <1>1, <2>3, <2>4, SpentFewer
  <2>6. Spent(registrations', WatchedKeys, watches + 1)
    BY <1>1, <1>2, <2>2, <2>3, <2>5, SpentRemove
  <2>7. /\ IsArena(registrations', Registration) /\ Get(registrations', regKey) = NoValue
        /\ \A k \in Key : k # regKey => Get(registrations', k) = Get(full, k)
    BY <2>2, <2>3, RemoveMap
  <2> QED BY <1>2, <2>3, <2>6, <2>7
<1> QED BY <1>3, <1>4

\* A step that leaves every registration as it is.
LEMMA SameRegs ==
    ASSUME IInv, IsArena(registrations', Registration),
           \A k \in Key : Get(registrations', k) = Get(registrations, k),
           UNCHANGED <<interest, owner, watched, made>>
    PROVE  /\ Keys(registrations)' = Keys(registrations)
           /\ \A k \in Keys(registrations) : Get(registrations', k) = Get(registrations, k)
           /\ Keeps /\ Held'
<1>1. /\ Keys(registrations)' = Keys(registrations)
      /\ \A k \in Keys(registrations) : Get(registrations', k) = Get(registrations, k)
  <2>1. IsArena(registrations, Registration)
    BY Parts DEF TypeOK
  <2> QED BY <2>1, Resolved
<1>2. Keeps
  <2>1. WatchedKeys \subseteq Key
    BY Parts DEF TypeOK, WatchedKeys
  <2> QED BY <2>1 DEF Keeps, Contains
<1>3. Held'
  BY <1>1, Parts, Zenon DEF Held, InterestMirrorsRegistrations, IsWatched
<1> QED BY <1>1, <1>2, <1>3

\* A step that leaves the arenas, the kernel, the fds and the histories as they are.
LEMMA SameArenas ==
    ASSUME IInv, UNCHANGED <<arenaVars, historyVars>>
    PROVE  History' /\ Held' /\ Keeps
<1>1. UNCHANGED <<handlers, registrations, interest, owner, made, watched, watches>>
  BY DEF arenaVars, historyVars
<1>2. History'
  BY <1>1, Parts, Zenon DEF History, MadeKeys, WatchedKeys
<1>3. IsArena(registrations', Registration)
  BY <1>1, Parts DEF TypeOK
<1> QED BY <1>1, <1>2, <1>3, SameRegs

\* unregister takes the entry out: its registrations are the call's from here on.
LEMMA UnregisterIInv ==
    ASSUME IInv, NEW key \in Key, unregister(key), ~(call # None /\ call.op = "unregister"),
           IsArena(registrations', Registration),
           \A k \in Key : Get(registrations', k) = Get(registrations, k),
           Spent(registrations', WatchedKeys', watches'), watches' \in 0 .. MaxWatches,
           calls' \in 0 .. MaxCalls, Calm, UNCHANGED <<loopVars, interest, watched, owner, made>>
    PROVE  IInv'
<1> DEFINE entry == Get(handlers, key)
<1>1. /\ handlers' = Remove(handlers, key)
      /\ Contains(handlers, key) =>
            call' = [op |-> "unregister", handler |-> entry.handler, regs |-> entry.regs]
      /\ ~Contains(handlers, key) => call' = None
      /\ UNCHANGED <<events, sweep, stage, shutdown, dump_pending>>
  BY DEF unregister, loopVars
<1>2. IsArena(handlers, Entry) /\ IsArena(handlers', Entry)
      /\ Get(handlers', key) = None
      /\ \A k \in Key : k # key => Get(handlers', k) = Get(handlers, k)
  BY <1>1, RemoveMap, Parts DEF TypeOK, None
<1>3. /\ Keys(handlers) = {k \in Key : Get(handlers, k) # None}
      /\ Keys(handlers)' = {k \in Key : Get(handlers', k) # None}
  BY <1>2, Resolved DEF None
<1>4. /\ Keys(registrations)' = Keys(registrations)
      /\ \A k \in Keys(registrations) : Get(registrations', k) = Get(registrations, k)
      /\ Keeps /\ Held'
  BY SameRegs
<1>5. Contains(handlers, key) => entry \in Entry /\ key \in Keys(handlers)
  BY <1>3, Values, Parts DEF Contains, None
<1>6. call' \in {None} \cup Call
  <2>1. CASE Contains(handlers, key)
    <3>1. entry \in Entry
      BY <1>5, <2>1
    <3> HIDE DEF entry
    <3> QED BY <1>1, <2>1, <3>1 DEF Call, Entry
  <2> QED BY <1>1, <2>1
<1>7. TypeOK'
  BY <1>1, <1>2, <1>6, CalmRunning, Parts DEF TypeOK
<1>8. History'
  <2>1. /\ MadeKeys \in SUBSET Key /\ MadeKeys' = MadeKeys /\ Cardinality(made) \in Nat
        /\ Cardinality(made) < GenMod /\ Spent(handlers, MadeKeys, Cardinality(made))
    <3>1. MadeKeys \in SUBSET Key /\ MadeKeys' = MadeKeys
      BY Parts DEF MadeKeys, TypeOK
    <3>2. Cardinality(made) \in Nat
      BY FS_CardinalityType, Parts DEF History
    <3>3. Cardinality(made) <= MaxHandlers
      BY Parts DEF History
    <3>4. Cardinality(made) < GenMod
      BY <3>2, <3>3, ReactorAssumption, ReuseAssumption, GenModAssumption
    <3> QED BY <3>1, <3>2, <3>4, Parts DEF History
  <2>2. Spent(handlers', MadeKeys', Cardinality(made))
    BY <1>1, <1>2, <2>1, SpentRemove
  <2> QED BY <2>2, Parts DEF History
<1>9. RegsMatchHandlers'
  <2>1. ASSUME NEW k \in Keys(registrations)
        PROVE  LET hk == Get(registrations, k).handler_key
               IN  \/ Contains(handlers', hk) /\ k \in Get(handlers', hk).regs
                   \/ call' # None /\ call'.op = "unregister" /\ k \in call'.regs
    <3> DEFINE hk == Get(registrations, k).handler_key
    <3>1. hk \in Key /\ Contains(handlers, hk) /\ k \in Get(handlers, hk).regs
      BY LiveReg, Parts, Zenon DEF RegsMatchHandlers
    <3>2. CASE hk = key
      <4>1. call' = [op |-> "unregister", handler |-> entry.handler, regs |-> entry.regs]
        BY <1>1, <3>1, <3>2
      <4>2. call' # None
        BY <1>6, <4>1, <1>5, <3>1, <3>2, NoneAssumption DEF Call, Entry
      <4> QED BY <3>1, <3>2, <4>1, <4>2, Zenon
    <3>3. CASE hk # key
      BY <1>2, <3>1, <3>3 DEF Contains
    <3> QED BY <3>2, <3>3
  <2>2. ASSUME NEW k \in Keys(handlers)', NEW j \in Get(handlers', k).regs
        PROVE  Contains(registrations', j) /\ Get(registrations', j).handler_key = k
    <3>1. k # key /\ k \in Keys(handlers) /\ Get(handlers', k) = Get(handlers, k) /\ k \in Key
      BY <1>2, <1>3
    <3>2. Get(handlers, k) \in Entry
      BY <3>1, Values, Parts
    <3>3. j \in Key
      BY <2>2, <3>1, <3>2 DEF Entry
    <3>4. Contains(registrations, j) /\ Get(registrations, j).handler_key = k
      BY <2>2, <3>1, Parts DEF RegsMatchHandlers
    <3> QED BY <3>3, <3>4 DEF Contains
  <2> QED BY <1>4, <2>1, <2>2 DEF RegsMatchHandlers
<1>10. HandlerComesBack'
  <2>1. \A k \in Keys(handlers)' : k \in Keys(handlers) /\ Get(handlers', k) = Get(handlers, k)
    BY <1>2, <1>3
  <2>2. running # None => running' # None /\ running'.key = running.key
    BY CalmRunning, Parts
  <2> QED BY <2>1, <2>2, Parts DEF HandlerComesBack
<1>11. Registering'
  BY <1>1 DEF Registering
<1>12. Unregistering'
  <2>1. CASE Contains(handlers, key)
    <3>1. call' = [op |-> "unregister", handler |-> entry.handler, regs |-> entry.regs]
      BY <1>1, <2>1
    <3>2. ASSUME NEW k \in entry.regs
          PROVE  /\ Contains(registrations', k)
                 /\ ~Contains(handlers', Get(registrations', k).handler_key)
      <4>1. Contains(registrations, k) /\ Get(registrations, k).handler_key = key
        BY <1>5, <2>1, Parts DEF RegsMatchHandlers
      <4>2. k \in Key
        BY <1>5, <2>1 DEF Entry
      <4> QED BY <1>2, <4>1, <4>2 DEF Contains, None
    <3>3. entry.handler # None => <<key, entry.handler>> \in made'
      BY <1>5, <2>1, Parts DEF HandlerComesBack
    <3>4. ~Contains(handlers', key)
      BY <1>2 DEF Contains, None
    <3> HIDE DEF entry
    <3>5. call'.regs = entry.regs /\ call'.handler = entry.handler
      BY <3>1
    <3>6. entry.handler # None => \E p \in made' : p[2] = entry.handler /\ ~Contains(handlers', p[1])
      <4> SUFFICES ASSUME entry.handler # None
                   PROVE  \E p \in made' : p[2] = entry.handler /\ ~Contains(handlers', p[1])
          OBVIOUS
      <4>1. <<key, entry.handler>> \in made'
        BY <3>3
      <4> QED BY <3>4, <4>1
    <3> QED BY <3>2, <3>5, <3>6 DEF Unregistering
  <2>2. CASE ~Contains(handlers, key)
    BY <1>1, <2>2 DEF Unregistering
  <2> QED BY <2>1, <2>2
<1>13. Running' /\ Batched' /\ (sweep \subseteq made)'
  BY <1>1, <1>4, KeptIInv
<1> QED BY <1>4, <1>7, <1>8, <1>9, <1>10, <1>11, <1>12, <1>13 DEF IInv

\* A registration goes, and its kernel interest with it: no other has the fd.
LEMMA RemoveReg ==
    ASSUME IInv, NEW key \in Keys(registrations),
           registrations' = Remove(registrations, key),
           interest' = [interest EXCEPT ![Get(registrations, key).fd] = None],
           UNCHANGED <<owner, historyVars>>
    PROVE  /\ IsArena(registrations', Registration)
           /\ interest' \in [Fds -> {None} \cup Interest]
           /\ Keys(registrations)' = Keys(registrations) \ {key}
           /\ Get(registrations', key) = None
           /\ \A k \in Key : k # key => Get(registrations', k) = Get(registrations, k)
           /\ Spent(registrations', WatchedKeys', watches')
           /\ Held' /\ Keeps
<1> DEFINE fd == Get(registrations, key).fd
<1>1. /\ IsArena(registrations, Registration) /\ interest \in [Fds -> {None} \cup Interest]
      /\ WatchedKeys \in SUBSET Key /\ WatchedKeys' = WatchedKeys
      /\ watches \in Nat /\ watches < GenMod
  <2>1. watches \in Nat /\ watches <= MaxWatches
    <3>1. watches \in 0 .. MaxWatches
      BY Parts DEF TypeOK
    <3> QED BY <3>1, ReactorAssumption
  <2>2. watches < GenMod
    BY <2>1, ReactorAssumption, ReuseAssumption, GenModAssumption
  <2>3. WatchedKeys \in SUBSET Key /\ WatchedKeys' = WatchedKeys
    BY Parts DEF TypeOK, WatchedKeys, historyVars
  <2> QED BY <2>1, <2>2, <2>3, Parts DEF TypeOK
<1>2. key \in Key /\ fd \in Fds
  BY LiveReg, Zenon
<1>3. /\ IsArena(registrations', Registration)
      /\ Get(registrations', key) = None
      /\ \A k \in Key : k # key => Get(registrations', k) = Get(registrations, k)
  BY <1>1, <1>2, RemoveMap DEF None
<1>4. Spent(registrations', WatchedKeys', watches')
  BY <1>1, <1>2, SpentRemove, Parts DEF History, historyVars
<1>5. Keys(registrations)' = Keys(registrations) \ {key}
  <2>1. /\ Keys(registrations) = {k \in Key : Get(registrations, k) # None}
        /\ Keys(registrations)' = {k \in Key : Get(registrations', k) # None}
    BY <1>1, <1>3, Resolved DEF None
  <2> QED BY <1>3, <2>1
<1>6. interest' \in [Fds -> {None} \cup Interest] /\ interest'[fd] = None
      /\ \A f \in Fds \ {fd} : interest'[f] = interest[f]
  BY <1>1, <1>2
<1> HIDE DEF fd
<1>7. \A k \in Keys(registrations) \ {key} :
         /\ Get(registrations', k) = Get(registrations, k)
         /\ Get(registrations, k).fd \in Fds \ {fd}
  BY <1>3, LiveReg, Parts, Zenon DEF Held, fd
<1>8. Held'
  <2>1. \A k \in Keys(registrations)' :
          /\ <<k, owner'[Get(registrations', k).fd]>> \in watched'
          /\ <<Get(registrations', k).handler_key, owner'[Get(registrations', k).fd]>> \in made'
    BY <1>5, <1>7, LiveReg DEF historyVars
  <2>2. \A j, k \in Keys(registrations)' :
           Get(registrations', j).fd = Get(registrations', k).fd => j = k
    BY <1>5, <1>7, Parts DEF Held
  <2>3. \A k \in Keys(registrations)' :
           interest'[Get(registrations', k).fd] =
              [token |-> ToU64(k), read |-> Get(registrations', k).read_interest,
               write |-> Get(registrations', k).write_interest]
    BY <1>5, <1>6, <1>7, LiveArmed
  <2>4. \A f \in Fds : interest'[f] # None =>
           \E k \in Keys(registrations)' : Get(registrations', k).fd = f
    <3> SUFFICES ASSUME NEW f \in Fds, interest'[f] # None
                 PROVE  \E k \in Keys(registrations)' : Get(registrations', k).fd = f
        OBVIOUS
    <3>1. f # fd /\ interest[f] # None
      BY <1>6
    <3>2. PICK k \in Keys(registrations) : Get(registrations, k).fd = f
      BY <3>1, Parts DEF Held, InterestMirrorsRegistrations, IsWatched
    <3>3. k # key
      BY <3>1, <3>2 DEF fd
    <3> QED BY <1>5, <1>7, <3>2, <3>3
  <2> QED BY <2>1, <2>2, <2>3, <2>4, Zenon DEF Held, InterestMirrorsRegistrations, IsWatched
<1>9. Keeps
  BY <1>1, <1>3 DEF Keeps, Contains, None
<1> QED BY <1>3, <1>4, <1>5, <1>6, <1>8, <1>9

\* Closing fds that no registration has.
LEMMA CloseHeld ==
    ASSUME IInv, NEW fds \in SUBSET Fds, Close(fds),
           \A k \in Keys(registrations) : Get(registrations, k).fd \notin fds,
           UNCHANGED <<registrations, historyVars>>
    PROVE  /\ owner' \in [Fds -> Handler \cup {Closed}]
           /\ interest' \in [Fds -> {None} \cup Interest]
           /\ Held' /\ Keeps
<1>1. /\ owner' = [f \in Fds |-> IF f \in fds THEN Closed ELSE owner[f]]
      /\ interest' = [f \in Fds |-> IF f \in fds THEN None ELSE interest[f]]
  BY DEF Close
<1>2. owner' \in [Fds -> Handler \cup {Closed}] /\ interest' \in [Fds -> {None} \cup Interest]
  BY <1>1, Parts DEF TypeOK
<1>3. Keys(registrations)' = Keys(registrations)
  OBVIOUS
<1>4. \A k \in Keys(registrations) :
         /\ owner'[Get(registrations, k).fd] = owner[Get(registrations, k).fd]
         /\ interest'[Get(registrations, k).fd] = interest[Get(registrations, k).fd]
  BY <1>1, LiveReg, Zenon
<1>5. \A f \in Fds : interest'[f] # None => interest[f] # None
  BY <1>1, Zenon
<1>6. Held'
  BY <1>3, <1>4, <1>5, Parts, Zenon DEF Held, InterestMirrorsRegistrations, IsWatched, historyVars
<1> QED BY <1>2, <1>6 DEF Keeps

\* The fds of a handler whose key no longer resolves are not watched.
LEMMA GoneUnwatched ==
    ASSUME IInv, NEW p \in made, ~Contains(handlers, p[1]),
           call # None /\ call.op = "unregister" => call.regs = {}
    PROVE  \A k \in Keys(registrations) : Get(registrations, k).fd \notin OwnedBy(p[2])
<1> SUFFICES ASSUME NEW k \in Keys(registrations), owner[Get(registrations, k).fd] = p[2]
             PROVE  FALSE
    BY DEF OwnedBy
<1> DEFINE hk == Get(registrations, k).handler_key
<1>1. <<hk, p[2]>> \in made
  BY LiveReg, Zenon
<1>2. Contains(handlers, hk)
  BY Parts, Zenon DEF RegsMatchHandlers
<1> HIDE DEF hk
<1>3. <<hk, p[2]>>[2] = p[2] /\ <<hk, p[2]>>[1] = hk
  OBVIOUS
<1>4. \A q, r \in made : q[1] = r[1] \/ q[2] = r[2] => q = r
  BY Parts DEF History
<1>5. <<hk, p[2]>> = p
  BY <1>1, <1>3, <1>4
<1> QED BY <1>2, <1>3, <1>5, Zenon

\* A callback's call begins none.
LEMMA CallbackCalm ==
    ASSUME IInv, InCallback
    PROVE  Calm /\ calls' \in 0 .. MaxCalls /\ running \in Frame /\ running # None /\ call = None
           /\ running.key \in Key /\ running.handler \in Handler
           /\ <<running.key, running.handler>> \in made
<1>1. Calm /\ running # None /\ call = None
  BY DEF InCallback, Calm
<1>2. calls' \in 0 .. MaxCalls
  BY ReactorAssumption, Parts DEF InCallback, TypeOK
<1>3. running \in Frame
  BY <1>1, Parts DEF TypeOK
<1>4. <<running.key, running.handler>> \in made
  BY <1>1, Parts DEF Running
<1> QED BY <1>1, <1>2, <1>3, <1>4 DEF Frame

\* A call that changes no more than the two flags.
LEMMA IdleCallIInv ==
    ASSUME IInv, InCallback, shutdown' \in BOOLEAN, dump_pending' \in BOOLEAN,
           UNCHANGED <<events, sweep, stage, call, arenaVars, historyVars>>
    PROVE  IInv'
<1>1. Calm /\ calls' \in 0 .. MaxCalls /\ call = None
  BY CallbackCalm
<1>2. /\ running' \in {None} \cup Frame
      /\ running # None => running' # None /\ running'.key = running.key
  BY <1>1, CalmRunning, Parts
<1>3. TypeOK'
  BY <1>1, <1>2, Parts DEF TypeOK, arenaVars, historyVars
<1>4. History' /\ Held'
  BY SameArenas
<1>5. RegsMatchHandlers' /\ HandlerComesBack'
  BY <1>2, Parts, Zenon DEF RegsMatchHandlers, HandlerComesBack, Keys, arenaVars, historyVars
<1>6. Running' /\ Batched' /\ (sweep \subseteq made)'
  <2>1. Keeps
    BY DEF Keeps, arenaVars
  <2> QED BY <1>1, <2>1, KeptIInv DEF historyVars
<1> QED BY <1>1, <1>3, <1>4, <1>5, <1>6 DEF IInv, Registering, Unregistering

\* A registration's flags change with the kernel's mask.
LEMMA ArmReg ==
    ASSUME IInv, NEW key \in Keys(registrations), NEW new \in Registration,
           new.fd = Get(registrations, key).fd,
           new.handler_key = Get(registrations, key).handler_key,
           new.user_data = Get(registrations, key).user_data,
           registrations' = Put(registrations, key, new),
           interest' = [interest EXCEPT ![new.fd] =
                           [token |-> ToU64(key), read |-> new.read_interest,
                            write |-> new.write_interest]],
           UNCHANGED <<owner, historyVars>>
    PROVE  /\ IsArena(registrations', Registration)
           /\ interest' \in [Fds -> {None} \cup Interest]
           /\ Keys(registrations)' = Keys(registrations)
           /\ \A k \in Keys(registrations) :
                 Get(registrations', k).handler_key = Get(registrations, k).handler_key
           /\ \A k \in Key : Contains(registrations', k) <=> Contains(registrations, k)
           /\ Spent(registrations', WatchedKeys', watches')
           /\ Held' /\ Keeps
<1> DEFINE armed == [token |-> ToU64(key), read |-> new.read_interest, write |-> new.write_interest]
<1>1. /\ IsArena(registrations, Registration) /\ NoValue \notin Registration
      /\ interest \in [Fds -> {None} \cup Interest]
      /\ key \in Key /\ Contains(registrations, key)
  <2>1. key \in Key /\ Contains(registrations, key)
    BY LiveReg, Zenon
  <2> QED BY <2>1, NoneAssumption, Parts, Zenon DEF TypeOK, None
<1>2. /\ IsArena(registrations', Registration) /\ Get(registrations', key) = new
      /\ \A k \in Key : k # key => Get(registrations', k) = Get(registrations, k)
  BY <1>1, PutMap
<1>3. Spent(registrations', WatchedKeys', watches')
  <2>1. Spent(registrations', WatchedKeys, watches)
    BY <1>1, SpentPut, Parts, Zenon DEF History
  <2> QED BY <2>1, Zenon DEF WatchedKeys, historyVars
<1>4. armed \in Interest /\ new.fd \in Fds
  BY <1>1, TokenRoundTrip DEF Interest, Registration
<1>5. interest' \in [Fds -> {None} \cup Interest] /\ interest'[new.fd] = armed
      /\ \A f \in Fds \ {new.fd} : interest'[f] = interest[f]
  BY <1>1, <1>4, Zenon
<1> HIDE DEF armed
<1>6. \A k \in Key : Contains(registrations', k) <=> Contains(registrations, k)
  BY <1>1, <1>2 DEF Contains
<1>7. Keys(registrations)' = Keys(registrations)
  <2>1. /\ Keys(registrations) = {k \in Key : Get(registrations, k) # NoValue}
        /\ Keys(registrations)' = {k \in Key : Get(registrations', k) # NoValue}
    BY <1>1, <1>2, Resolved
  <2> QED BY <1>6, <2>1, Zenon DEF Contains
<1>8. \A k \in Keys(registrations) \ {key} :
         /\ Get(registrations', k) = Get(registrations, k)
         /\ Get(registrations, k).fd \in Fds \ {new.fd}
  BY <1>2, LiveReg, Parts, Zenon DEF Held
<1>9. \A k \in Keys(registrations) :
         /\ k \in Key /\ Get(registrations', k).fd = Get(registrations, k).fd
         /\ Get(registrations', k).handler_key = Get(registrations, k).handler_key
         /\ Get(registrations', k).user_data = Get(registrations, k).user_data
  BY <1>2, LiveReg, Zenon
<1>10. Held'
  <2>1. \A k \in Keys(registrations) :
          /\ <<k, owner'[Get(registrations', k).fd]>> \in watched'
          /\ <<Get(registrations', k).handler_key, owner'[Get(registrations', k).fd]>> \in made'
    BY <1>9, LiveReg, Zenon DEF historyVars
  <2>2. \A j, k \in Keys(registrations) :
           Get(registrations', j).fd = Get(registrations', k).fd => j = k
    BY <1>9, Parts, Zenon DEF Held
  <2>3. \A k \in Keys(registrations) :
           interest'[Get(registrations', k).fd] =
              [token |-> ToU64(k), read |-> Get(registrations', k).read_interest,
               write |-> Get(registrations', k).write_interest]
    BY <1>2, <1>5, <1>8, LiveArmed DEF armed
  <2>4. \A f \in Fds : interest'[f] # None =>
           \E k \in Keys(registrations) : Get(registrations', k).fd = f
    <3> SUFFICES ASSUME NEW f \in Fds, interest'[f] # None
                 PROVE  \E k \in Keys(registrations) : Get(registrations, k).fd = f
        BY <1>9, Zenon
    <3>1. CASE f # new.fd
      BY <1>5, <3>1, Parts, Zenon DEF Held, InterestMirrorsRegistrations, IsWatched
    <3> QED BY <3>1, Zenon
  <2> QED BY <1>7, <2>1, <2>2, <2>3, <2>4, Zenon DEF Held, InterestMirrorsRegistrations, IsWatched
<1>11. Keeps
  <2>1. WatchedKeys \subseteq Key
    BY Parts DEF TypeOK, WatchedKeys
  <2>2. \A k \in Key : Contains(registrations, k) => k \in Keys(registrations)
    BY Values, Parts, Zenon DEF Contains, None
  <2> QED BY <1>6, <1>9, <2>1, <2>2, Zenon DEF Keeps
<1> QED BY <1>2, <1>3, <1>5, <1>6, <1>7, <1>9, <1>10, <1>11

\* take_handler: the handler leaves its slot for a callback about a registration of its own, or about
\* itself.
LEMMA TakeIInv ==
    ASSUME IInv, Idle, NEW key \in Key, CanTake(key), NEW reg \in Key \cup {None},
           NEW write \in BOOLEAN, NEW phase \in {"readable", "writable", "sweep"}, NEW about \in Nat,
           take(key, reg, write, phase, about),
           phase = "sweep" => reg = None /\ ~write /\ about = Get(handlers, key).handler,
           phase # "sweep" => /\ reg \in Keys(registrations)
                              /\ Get(registrations, reg).handler_key = key
                              /\ Get(registrations, reg).user_data = about,
           phase = "writable" => Get(registrations, reg).write_interest,
           events' \in Seq([token : Nat, readable : BOOLEAN, writable : BOOLEAN, about : Nat]),
           Batched', (sweep \subseteq made)',
           UNCHANGED <<registrations, interest, owner, historyVars, calls, stage, call, shutdown,
                       dump_pending>>
    PROVE  IInv'
<1> DEFINE entry == Get(handlers, key)
           out == [entry EXCEPT !.handler = None]
           frame == [handler |-> entry.handler, key |-> key, reg |-> reg, write |-> write,
                     phase |-> phase, about |-> about, fresh |-> TRUE]
<1>1. handlers' = Put(handlers, key, out) /\ running' = frame
  BY DEF take
<1>2. /\ IsArena(handlers, Entry) /\ NoValue \notin Entry /\ Contains(handlers, key)
      /\ entry \in Entry /\ entry.handler \in Handler /\ key \in Keys(handlers)
  <2>1. Contains(handlers, key) /\ entry.handler # None
    BY DEF CanTake
  <2>2. entry \in Entry /\ key \in Keys(handlers)
    BY <2>1, Values, Parts, Zenon DEF Contains, None
  <2>3. entry.handler \in Handler
    BY <2>1, <2>2 DEF Entry
  <2> QED BY <2>1, <2>2, <2>3, NoneAssumption, Parts, Zenon DEF TypeOK, None
<1>3. <<key, entry.handler>> \in made
  BY <1>2, NoneAssumption, Parts, Zenon DEF HandlerComesBack
<1> HIDE DEF entry
<1>4. out \in Entry /\ out.handler = None /\ out.regs = entry.regs
  BY <1>2 DEF Entry
<1> HIDE DEF out
<1>5. /\ IsArena(handlers', Entry) /\ Get(handlers', key) = out
      /\ \A k \in Key : k # key => Get(handlers', k) = Get(handlers, k)
      /\ Spent(handlers', MadeKeys, Cardinality(made))
      /\ Keys(handlers)' = Keys(handlers) /\ Keys(handlers) \subseteq Key
      /\ \A k \in Key : Contains(handlers', k) <=> Contains(handlers, k)
  BY <1>1, <1>2, <1>4, PutEntry, Zenon
<1>8. frame \in Frame
  BY <1>2, Zenon DEF Frame
<1>9. /\ running' # None /\ running'.key = key /\ running'.handler = entry.handler
      /\ running'.reg = reg /\ running'.write = write /\ running'.phase = phase
      /\ running'.about = about
  BY <1>1, <1>8, NoneAssumption, Zenon
<1>10. TypeOK'
  <2>1. sweep' \subseteq Key \X Handler
    BY Parts, Zenon DEF TypeOK, historyVars
  <2> HIDE DEF frame
  <2> QED BY <1>1, <1>5, <1>8, <2>1, Parts, Zenon DEF TypeOK, historyVars
<1>11. History'
  BY <1>5, Parts, Zenon DEF History, historyVars, MadeKeys, WatchedKeys
<1>12. Held'
  <2>1. IsArena(registrations', Registration)
    BY Parts DEF TypeOK
  <2> QED BY <2>1, SameRegs DEF historyVars
<1>13. RegsMatchHandlers'
  <2>1. \A k \in Keys(handlers) : Get(handlers', k).regs = Get(handlers, k).regs
    BY <1>4, <1>5 DEF entry
  <2>2. \A k \in Keys(registrations) : Contains(handlers, Get(registrations, k).handler_key)
    BY Parts, Zenon DEF RegsMatchHandlers, Idle
  <2>3. \A k \in Keys(registrations) : LET hk == Get(registrations, k).handler_key
                                       IN  hk \in Keys(handlers) /\ hk \in Key
    BY <2>2, LiveReg, Values, Parts, Zenon DEF Contains, None
  <2>4. Keys(registrations)' = Keys(registrations)
    OBVIOUS
  <2> QED BY <1>5, <2>1, <2>3, <2>4, Parts, Zenon DEF RegsMatchHandlers, Idle
<1>14. HandlerComesBack'
  <2>1. \A k \in Keys(handlers) : k # key => Get(handlers', k) = Get(handlers, k)
    BY <1>5, Zenon
  <2> QED BY <1>4, <1>5, <1>9, <2>1, Parts, Zenon DEF HandlerComesBack, historyVars, Idle
<1>15. Registering' /\ Unregistering'
  BY DEF Idle, Registering, Unregistering
<1>16. Running'
  <2>1. <<key, entry.handler>> \in made' /\ Contains(handlers', key) /\ call' = None
    BY <1>2, <1>3, <1>5, Zenon DEF Idle, historyVars
  <2>2. phase = "sweep" => reg = None /\ ~write /\ about = entry.handler
    BY DEF entry
  <2>3. phase # "sweep" => /\ reg \in WatchedKeys' /\ Contains(registrations', reg)
                           /\ Get(registrations', reg).handler_key = key
                           /\ Get(registrations', reg).user_data = about
    BY LiveReg, Zenon DEF WatchedKeys, historyVars
  <2> QED BY <1>9, <2>1, <2>2, <2>3, Zenon DEF Running
<1> QED BY <1>10, <1>11, <1>12, <1>13, <1>14, <1>15, <1>16 DEF IInv

\* The steps of the loop that run nothing: the arenas, the kernel and the histories stay as they are.
LEMMA QuietIInv ==
    ASSUME IInv, TypeOK', Batched', (sweep \subseteq made)',
           UNCHANGED <<arenaVars, historyVars, running, call>>
    PROVE  IInv'
<1>1. History' /\ Held'
  BY SameArenas
<1>2. RegsMatchHandlers' /\ HandlerComesBack' 
  BY Parts DEF RegsMatchHandlers, HandlerComesBack, Keys, arenaVars, historyVars
<1>3. Running' /\ Registering' /\ Unregistering'
  BY Parts DEF Running, Registering, Unregistering, arenaVars, historyVars, WatchedKeys
<1> QED BY <1>1, <1>2, <1>3 DEF IInv

\* The steps of the loop between callbacks.
LEMMA LoopIInv ==
    ASSUME IInv, Run \/ WaitReturns \/ WaitFails \/ DeadlinesDone
    PROVE  IInv'
<1> USE DEF Run, WaitReturns, WaitFails, DeadlinesDone
<1>1. UNCHANGED <<arenaVars, historyVars, running, call, calls, events, sweep, shutdown, dump_pending>>
      /\ stage' \in {"wait", "events", "stopped"}
  OBVIOUS
<1>2. TypeOK'
  BY <1>1, Parts DEF TypeOK, arenaVars, historyVars
<1>3. Batched' /\ (sweep \subseteq made)'
  BY <1>1, Parts DEF Batched, WatchedKeys, arenaVars, historyVars
<1> QED BY <1>1, <1>2, <1>3, QuietIInv

\* A report of the kernel names a registration by the token it was added with.
LEMMA WaitReportsIInv ==
    ASSUME IInv, WaitReports
    PROVE  IInv'
<1>1. UNCHANGED <<arenaVars, historyVars, running, call, calls, stage, sweep, shutdown, dump_pending>>
  BY DEF WaitReports
<1>2. PICK k \in Keys(registrations), readable \in BOOLEAN, writable \in BOOLEAN :
         LET reg == Get(registrations, k)
             armed == interest[reg.fd]
         IN  /\ armed # None
             /\ events' = Append(events, [token |-> armed.token, readable |-> readable,
                                          writable |-> writable, about |-> reg.user_data])
  BY DEF WaitReports
<1> DEFINE reg == Get(registrations, k)
           event == [token |-> ToU64(k), readable |-> readable, writable |-> writable,
                     about |-> reg.user_data]
<1>3. k \in Key /\ reg \in Registration
  BY Values, Parts
<1>4. interest[reg.fd].token = ToU64(k) /\ k \in WatchedKeys
  <2>1. interest[reg.fd] = [token |-> ToU64(k), read |-> reg.read_interest,
                            write |-> reg.write_interest]
        /\ <<k, owner[reg.fd]>> \in watched
    BY Parts, Zenon DEF Held, InterestMirrorsRegistrations
  <2>2. <<k, owner[reg.fd]>>[1] = k
    OBVIOUS
  <2> HIDE DEF reg
  <2>3. k \in WatchedKeys
    BY <2>1, <2>2 DEF WatchedKeys
  <2> QED BY <2>1, <2>3
<1>5. event \in [token : Nat, readable : BOOLEAN, writable : BOOLEAN, about : Nat]
  BY <1>3, TokenRoundTrip, ReactorAssumption DEF Registration, UserData
<1>6. events' = Append(events, event)
  BY <1>2, <1>4
<1> HIDE DEF event, reg
<1>7. TypeOK'
  BY <1>1, <1>5, <1>6, Parts DEF TypeOK, arenaVars, historyVars
<1>8. Batched'
  <2> SUFFICES ASSUME NEW i \in DOMAIN events'
               PROVE  \E j \in WatchedKeys :
                         /\ events'[i].token = ToU64(j)
                         /\ Contains(registrations, j) => Get(registrations, j).user_data = events'[i].about
      BY <1>1 DEF Batched, arenaVars, historyVars, WatchedKeys
  <2>1. /\ events \in Seq([token : Nat, readable : BOOLEAN, writable : BOOLEAN, about : Nat])
        /\ DOMAIN events' = 1 .. Len(events) + 1 /\ Len(events) \in Nat
        /\ DOMAIN events = 1 .. Len(events)
    BY <1>5, <1>6, Parts DEF TypeOK
  <2>2. CASE i \in DOMAIN events
    <3>1. events'[i] = events[i]
      BY <1>6, <2>1, <2>2
    <3> QED BY <2>2, <3>1, Parts DEF Batched
  <2>3. CASE i = Len(events) + 1
    <3>1. events'[i] = event
      BY <1>6, <2>1, <2>3
    <3> QED BY <1>4, <3>1 DEF event, reg
  <2>4. i \in DOMAIN events \/ i = Len(events) + 1
    BY <2>1
  <2> QED BY <2>2, <2>3, <2>4
<1> QED BY <1>1, <1>7, <1>8, QuietIInv, Parts DEF historyVars

=============================================================================
