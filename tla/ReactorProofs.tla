--------------------------- MODULE ReactorProofs ---------------------------
(***************************************************************************)
(* WatchesConsistent, DeliveredToWatcher, HandlerComesBack and             *)
(* OnlyOwnRegistrations for any number of handlers, fds, watches, events   *)
(* and calls: every action keeps the invariant of ReactorLemmas, which     *)
(* implies them.                                                           *)
(***************************************************************************)
EXTENDS ReactorLemmas

\* register_with_fds watches its next fd, or gives up.
LEMMA RegisterWatchIInv ==
    ASSUME IInv, RegisterWatch
    PROVE  IInv'
<1>1. /\ call # None /\ call.op = "register_with_fds"
      /\ watches' = watches + 1
      /\ UNCHANGED <<loopVars, running, calls, owner, made>>
  BY DEF RegisterWatch
<1>2. PICK fd \in call.fds :
         \/ /\ ~WatchRefused(call.key, fd)
            /\ watch(call.key, fd, call.handler)
            /\ call' = [call EXCEPT !.fds = @ \ {fd}]
         \/ /\ registrations' = IF WatchRefused(call.key, fd) THEN registrations
                                ELSE FailedAdd(call.key, fd)
            /\ unregister(call.key)
            /\ UNCHANGED <<interest, watched>>
  BY DEF RegisterWatch
<1>3. call \in [op : {"register_with_fds"}, handler : Handler, key : Key, fds : SUBSET Fds]
  BY <1>1, Parts DEF TypeOK, Call
<1>4. /\ call.key \in Key /\ call.handler \in Handler /\ call.fds \subseteq Fds /\ fd \in Fds
      /\ <<call.key, call.handler>> \in made /\ Contains(handlers, call.key)
      /\ \A f \in call.fds : owner[f] = call.handler
      /\ watches + Cardinality(call.fds) <= MaxWatches
  BY <1>1, <1>3, Parts DEF Registering
<1>5. IsFiniteSet(call.fds) /\ Cardinality(call.fds) \in Nat
      /\ Cardinality(call.fds \ {fd}) = Cardinality(call.fds) - 1
      /\ Cardinality(call.fds \ {fd}) \in Nat
  <2>1. IsFiniteSet(call.fds)
    BY <1>4, ReactorAssumption, FS_Subset
  <2>2. IsFiniteSet(call.fds \ {fd}) /\ Cardinality(call.fds \ {fd}) = Cardinality(call.fds) - 1
    BY <2>1, FS_RemoveElement
  <2> QED BY <2>1, <2>2, FS_CardinalityType
<1>6. watches \in Nat /\ watches + 1 <= MaxWatches /\ MaxWatches \in Nat /\ watches' \in 0 .. MaxWatches
      /\ watches' + Cardinality(call.fds \ {fd}) <= MaxWatches
  <2>1. watches \in Nat /\ MaxWatches \in Nat
    BY ReactorAssumption, Parts DEF TypeOK
  <2> QED BY <1>1, <1>4, <1>5, <2>1
<1>7. Calm /\ calls' \in 0 .. MaxCalls /\ owner \in [Fds -> Handler \cup {Closed}]
  BY <1>1, BusyCalm, Parts DEF TypeOK
<1>8. CASE /\ ~WatchRefused(call.key, fd)
           /\ watch(call.key, fd, call.handler)
           /\ call' = [call EXCEPT !.fds = @ \ {fd}]
  <2>1. /\ IsArena(handlers', Entry) /\ IsArena(registrations', Registration)
        /\ interest' \in [Fds -> {None} \cup Interest]
        /\ watched' \subseteq Key \X Handler
        /\ History' /\ Held' /\ RegsMatchHandlers' /\ HandlerComesBack'
        /\ Running' /\ Batched' /\ (sweep \subseteq made)'
        /\ \A k \in Key : Contains(handlers', k) <=> Contains(handlers, k)
    BY <1>1, <1>2, <1>4, <1>6, <1>7, <1>8, WatchIInv
  <2>2. /\ call' \in [op : {"register_with_fds"}, handler : Handler, key : Key, fds : SUBSET Fds]
        /\ call'.fds = call.fds \ {fd} /\ call'.key = call.key /\ call'.handler = call.handler
        /\ call'.op = "register_with_fds"
    BY <1>3, <1>8
  <2>3. TypeOK'
    <3>1. call' \in {None} \cup Call
      BY <2>2 DEF Call
    <3> QED BY <1>1, <1>6, <1>7, <2>1, <3>1, Parts DEF TypeOK, loopVars
  <2>4. Registering'
    BY <1>1, <1>4, <1>6, <2>1, <2>2 DEF Registering
  <2>5. Unregistering'
    BY <2>2 DEF Unregistering
  <2> QED BY <2>1, <2>3, <2>4, <2>5 DEF IInv
<1>9. CASE /\ registrations' = IF WatchRefused(call.key, fd) THEN registrations
                               ELSE FailedAdd(call.key, fd)
           /\ unregister(call.key)
           /\ UNCHANGED <<interest, watched>>
  <2>1. /\ IsArena(registrations', Registration)
        /\ \A k \in Key : Get(registrations', k) = Get(registrations, k)
        /\ Spent(registrations', WatchedKeys', watches')
    BY <1>1, <1>4, <1>6, <1>9, WatchFails
  <2> QED BY <1>1, <1>4, <1>6, <1>7, <1>9, <2>1, UnregisterIInv
<1> QED BY <1>2, <1>8, <1>9

\* A callback watches an fd, or the kernel refuses.
LEMMA CallWatchIInv ==
    ASSUME IInv, CallWatch
    PROVE  IInv'
<1>1. /\ InCallback /\ watches < MaxWatches /\ watches' = watches + 1
      /\ UNCHANGED <<loopVars, call, made>>
  BY DEF CallWatch
<1>2. PICK fd \in LowestClosed(1) :
         \/ /\ ~WatchRefused(running.key, fd)
            /\ watch(running.key, fd, running.handler)
            /\ owner' = [owner EXCEPT ![fd] = running.handler]
         \/ /\ registrations' = IF WatchRefused(running.key, fd) THEN registrations
                                ELSE FailedAdd(running.key, fd)
            /\ UNCHANGED <<handlers, interest, watched, owner>>
  BY DEF CallWatch
<1>3. Calm /\ calls' \in 0 .. MaxCalls /\ running \in Frame /\ running # None /\ call = None
           /\ running.key \in Key /\ running.handler \in Handler
           /\ <<running.key, running.handler>> \in made
  BY <1>1, CallbackCalm
<1>4. fd \in Fds /\ owner \in [Fds -> Handler \cup {Closed}]
      /\ watches + 1 <= MaxWatches /\ watches' \in 0 .. MaxWatches
  BY <1>1, ReactorAssumption, Parts DEF LowestClosed, TypeOK
<1>5. Registering' /\ Unregistering'
  BY <1>1, <1>3 DEF Registering, Unregistering
<1>6. CASE /\ ~WatchRefused(running.key, fd)
           /\ watch(running.key, fd, running.handler)
           /\ owner' = [owner EXCEPT ![fd] = running.handler]
  <2>1. /\ owner' \in [Fds -> Handler \cup {Closed}] /\ owner'[fd] = running.handler
        /\ \A f \in Fds \ {fd} : owner'[f] = owner[f]
    BY <1>3, <1>4, <1>6
  <2>2. /\ IsArena(handlers', Entry) /\ IsArena(registrations', Registration)
        /\ interest' \in [Fds -> {None} \cup Interest]
        /\ watched' \subseteq Key \X Handler
        /\ History' /\ Held' /\ RegsMatchHandlers' /\ HandlerComesBack'
        /\ Running' /\ Batched' /\ (sweep \subseteq made)'
    BY <1>1, <1>3, <1>4, <1>6, <2>1, WatchIInv
  <2>3. TypeOK'
    BY <1>1, <1>3, <1>4, <2>1, <2>2, CalmRunning, Parts DEF TypeOK, loopVars
  <2> QED BY <1>5, <2>2, <2>3 DEF IInv
<1>7. CASE /\ registrations' = IF WatchRefused(running.key, fd) THEN registrations
                               ELSE FailedAdd(running.key, fd)
           /\ UNCHANGED <<handlers, interest, watched, owner>>
  <2>1. /\ IsArena(registrations', Registration)
        /\ \A k \in Key : Get(registrations', k) = Get(registrations, k)
        /\ Spent(registrations', WatchedKeys', watches')
    BY <1>1, <1>3, <1>4, <1>7, WatchFails
  <2>2. /\ Keys(registrations)' = Keys(registrations)
        /\ \A k \in Keys(registrations) : Get(registrations', k) = Get(registrations, k)
        /\ Keeps /\ Held'
    BY <1>1, <1>7, <2>1, SameRegs
  <2>3. TypeOK'
    BY <1>1, <1>3, <1>4, <1>7, <2>1, CalmRunning, Parts DEF TypeOK, loopVars
  <2>4. History'
    BY <1>1, <1>7, <2>1, Parts DEF History, MadeKeys
  <2>5. Keys(handlers)' = Keys(handlers)
    BY <1>7
  <2>6. RegsMatchHandlers'
    <3>1. \A key \in Keys(handlers) : \A k \in Get(handlers, key).regs : k \in Key
      BY Values, Parts DEF Entry
    <3> QED BY <1>1, <1>7, <2>1, <2>2, <2>5, <3>1, Parts DEF RegsMatchHandlers, Contains
  <2>7. HandlerComesBack'
    BY <1>1, <1>3, <1>7, <2>5, CalmRunning, Parts DEF HandlerComesBack
  <2>8. Running' /\ Batched' /\ (sweep \subseteq made)'
    BY <1>1, <1>3, <1>7, <2>2, KeptIInv DEF loopVars
  <2> QED BY <1>5, <2>2, <2>3, <2>4, <2>6, <2>7, <2>8 DEF IInv
<1> QED BY <1>2, <1>6, <1>7

\* A callback unregisters a handler: its slot is emptied first.
LEMMA CallUnregisterIInv ==
    ASSUME IInv, CallUnregister
    PROVE  IInv'
<1>1. InCallback /\ UNCHANGED <<loopVars, historyVars, registrations, interest, owner>>
  BY DEF CallUnregister
<1>2. PICK p \in made : unregister(p[1])
  BY DEF CallUnregister
<1>3. Calm /\ calls' \in 0 .. MaxCalls /\ call = None
  BY <1>1, CallbackCalm
<1>4. p[1] \in Key /\ watches' \in 0 .. MaxWatches /\ IsArena(registrations', Registration)
  BY <1>1, Parts DEF TypeOK, historyVars
<1>5. Spent(registrations', WatchedKeys', watches')
  BY <1>1, Parts DEF History, WatchedKeys, historyVars
<1> QED BY <1>1, <1>2, <1>3, <1>4, <1>5, UnregisterIInv DEF historyVars

\* register_with_fds returns.
LEMMA RegisterDoneIInv ==
    ASSUME IInv, RegisterDone
    PROVE  IInv'
<1>1. /\ call # None /\ call.op = "register_with_fds" /\ call' = None
      /\ UNCHANGED <<loopVars, arenaVars, historyVars, calls, running>>
  BY DEF RegisterDone
<1>2. TypeOK'
  BY <1>1, Parts DEF TypeOK, loopVars, arenaVars, historyVars
<1>3. History' /\ Held'
  BY <1>1, SameArenas
<1>4. RegsMatchHandlers' /\ HandlerComesBack'
  BY <1>1, Parts DEF RegsMatchHandlers, HandlerComesBack, Keys, arenaVars, historyVars
<1>5. Running' /\ Batched' /\ (sweep \subseteq made)'
  <2>1. Calm /\ Keeps
    BY <1>1, BusyCalm DEF Keeps, arenaVars
  <2> QED BY <1>1, <2>1, KeptIInv DEF loopVars, historyVars
<1> QED BY <1>1, <1>2, <1>3, <1>4, <1>5 DEF IInv, Registering, Unregistering

\* A callback asks for the shutdown or for a dump.
LEMMA CallRequestIInv ==
    ASSUME IInv, CallRequest
    PROVE  IInv'
<1>1. /\ InCallback /\ shutdown' \in BOOLEAN /\ dump_pending' \in BOOLEAN
      /\ UNCHANGED <<events, sweep, stage, call, arenaVars, historyVars>>
  BY Parts, Zenon DEF CallRequest, TypeOK
<1> QED BY <1>1, IdleCallIInv

\* unregister drops the next registration of the handler.
LEMMA UnregisterRegIInv ==
    ASSUME IInv, UnregisterReg
    PROVE  IInv'
<1>1. /\ call # None /\ call.op = "unregister"
      /\ UNCHANGED <<loopVars, historyVars, calls, running, handlers, owner>>
  BY DEF UnregisterReg
<1>2. PICK key \in call.regs :
          /\ registrations' = Remove(registrations, key)
          /\ interest' = IF Contains(registrations, key)
                         THEN [interest EXCEPT ![Get(registrations, key).fd] = None]
                         ELSE interest
          /\ call' = [call EXCEPT !.regs = @ \ {key}]
  BY Zenon DEF UnregisterReg
<1>3. call \in [op : {"unregister"}, handler : Handler \cup {None}, regs : SUBSET Key]
  BY <1>1, Parts DEF TypeOK, Call
<1>4. /\ key \in Key /\ call' \in [op : {"unregister"}, handler : Handler \cup {None}, regs : SUBSET Key]
      /\ call'.regs = call.regs \ {key} /\ call'.handler = call.handler /\ call'.op = "unregister"
  BY <1>2, <1>3
<1>5. call' \in Call /\ call' # None
  BY <1>4, NoneAssumption DEF Call
<1>6. /\ \A k \in call.regs : /\ Contains(registrations, k)
                              /\ ~Contains(handlers, Get(registrations, k).handler_key)
      /\ call.handler # None => \E p \in made : p[2] = call.handler /\ ~Contains(handlers, p[1])
  BY <1>1, Parts DEF Unregistering
<1>7. key \in Keys(registrations)
  BY <1>4, <1>6, Values, Parts DEF Contains, None
<1>8. /\ IsArena(registrations', Registration)
      /\ interest' \in [Fds -> {None} \cup Interest]
      /\ Keys(registrations)' = Keys(registrations) \ {key}
      /\ Get(registrations', key) = None
      /\ \A k \in Key : k # key => Get(registrations', k) = Get(registrations, k)
      /\ Spent(registrations', WatchedKeys', watches')
      /\ Held' /\ Keeps
  BY <1>1, <1>2, <1>6, <1>7, RemoveReg
<1>9. TypeOK'
  BY <1>1, <1>5, <1>8, Parts DEF TypeOK, loopVars, historyVars
<1>10. History'
  BY <1>1, <1>8, Parts DEF History, historyVars, MadeKeys
<1>11. Keys(handlers)' = Keys(handlers)
  BY <1>1
<1>12. \A k \in Keys(handlers) : \A j \in Get(handlers, k).regs : j \in Key /\ j # key
  <2> SUFFICES ASSUME NEW k \in Keys(handlers), NEW j \in Get(handlers, k).regs
               PROVE  j \in Key /\ j # key
      OBVIOUS
  <2>1. k \in Key /\ Get(handlers, k) \in Entry /\ Contains(handlers, k)
    BY Values, Parts DEF Contains, None
  <2>2. Get(registrations, j).handler_key = k
    BY Parts DEF RegsMatchHandlers
  <2> QED BY <1>6, <2>1, <2>2 DEF Entry
<1>13. RegsMatchHandlers'
  <2>1. \A k \in Keys(registrations) \ {key} :
           LET hk == Get(registrations, k).handler_key
           IN  \/ Contains(handlers, hk) /\ k \in Get(handlers, hk).regs
               \/ k \in call'.regs
    BY <1>4, Parts DEF RegsMatchHandlers
  <2>2. \A k \in Keys(registrations) \ {key} : Get(registrations', k) = Get(registrations, k)
    BY <1>8, LiveReg, Zenon
  <2>3. \A k \in Keys(handlers) : \A j \in Get(handlers, k).regs :
           Contains(registrations', j) /\ Get(registrations', j).handler_key = k
    BY <1>8, <1>12, Parts DEF RegsMatchHandlers, Contains
  <2> QED BY <1>1, <1>4, <1>5, <1>8, <1>11, <2>1, <2>2, <2>3 DEF RegsMatchHandlers
<1>14. HandlerComesBack'
  BY <1>1, <1>11, Parts DEF HandlerComesBack, historyVars
<1>15. Registering'
  BY <1>4 DEF Registering
<1>16. Unregistering'
  <2>1. \A k \in call'.regs : /\ Contains(registrations', k)
                              /\ ~Contains(handlers', Get(registrations', k).handler_key)
    BY <1>1, <1>3, <1>4, <1>6, <1>8 DEF Contains
  <2>2. call'.handler # None => \E p \in made' : p[2] = call'.handler /\ ~Contains(handlers', p[1])
    BY <1>1, <1>4, <1>6 DEF historyVars
  <2> QED BY <2>1, <2>2 DEF Unregistering
<1>17. Running' /\ Batched' /\ (sweep \subseteq made)'
  <2>1. Calm
    BY <1>1, BusyCalm
  <2> QED BY <1>1, <1>8, <2>1, KeptIInv DEF loopVars, historyVars
<1> QED BY <1>8, <1>9, <1>10, <1>13, <1>14, <1>15, <1>16, <1>17 DEF IInv

\* A callback gives a registration of its own back.
LEMMA CallUnwatchIInv ==
    ASSUME IInv, CallUnwatch
    PROVE  IInv'
<1>1. InCallback /\ UNCHANGED <<loopVars, historyVars, call, owner>>
  BY DEF CallUnwatch
<1>2. PICK key \in OwnRegs : unwatch(key)
  BY DEF CallUnwatch
<1>3. Calm /\ calls' \in 0 .. MaxCalls /\ call = None
  BY <1>1, CallbackCalm
<1>4. key \in Key
  BY Parts DEF OwnRegs, TypeOK
<1>5. /\ running' \in {None} \cup Frame
      /\ running # None => running' # None /\ running'.key = running.key
  BY <1>3, CalmRunning, Parts
<1>6. CASE ~Contains(registrations, key)
  <2>1. /\ UNCHANGED <<registrations, handlers, interest>>
        /\ shutdown' \in BOOLEAN /\ dump_pending' \in BOOLEAN
    BY <1>1, <1>2, <1>6, Parts DEF unwatch, loopVars, TypeOK
  <2> QED BY <1>1, <2>1, IdleCallIInv DEF arenaVars, loopVars
<1>7. CASE Contains(registrations, key)
  <2> DEFINE reg == Get(registrations, key)
             hk == reg.handler_key
             entry == Get(handlers, hk)
             shorter == [entry EXCEPT !.regs = @ \ {key}]
  <2>1. key \in Keys(registrations)
    BY <1>4, <1>7, Values, Parts DEF Contains, None
  <2>2. hk \in Key /\ reg \in Registration /\ Contains(handlers, hk) /\ key \in entry.regs
    BY <1>3, <2>1, LiveReg, Parts, Zenon DEF RegsMatchHandlers
  <2>3. /\ registrations' = Remove(registrations, key)
        /\ handlers' = Put(handlers, hk, shorter)
        /\ interest' = [interest EXCEPT ![reg.fd] = None]
    BY <1>2, <1>7, <2>2 DEF unwatch
  <2>4. /\ IsArena(registrations', Registration)
        /\ interest' \in [Fds -> {None} \cup Interest]
        /\ Keys(registrations)' = Keys(registrations) \ {key}
        /\ Get(registrations', key) = None
        /\ \A k \in Key : k # key => Get(registrations', k) = Get(registrations, k)
        /\ Spent(registrations', WatchedKeys', watches')
        /\ Held' /\ Keeps
    BY <1>1, <2>1, <2>3, RemoveReg, Zenon
  <2>5. entry \in Entry /\ hk \in Keys(handlers)
    BY <2>2, Values, Parts DEF Contains, None
  <2>6. shorter \in Entry /\ shorter.regs = entry.regs \ {key} /\ shorter.handler = entry.handler
    BY <2>5 DEF Entry
  <2> HIDE DEF shorter, hk
  <2>7. /\ IsArena(handlers', Entry) /\ Get(handlers', hk) = shorter
        /\ \A k \in Key : k # hk => Get(handlers', k) = Get(handlers, k)
        /\ Spent(handlers', MadeKeys, Cardinality(made))
        /\ Keys(handlers)' = Keys(handlers) /\ Keys(handlers) \subseteq Key
        /\ \A k \in Key : Contains(handlers', k) <=> Contains(handlers, k)
    BY <2>3, <2>5, <2>6, PutEntry
  <2>10. TypeOK'
    BY <1>1, <1>3, <1>5, <2>4, <2>7, Parts DEF TypeOK, loopVars, historyVars
  <2>11. History'
    BY <1>1, <2>4, <2>7, Parts DEF History, historyVars, MadeKeys
  <2>12. RegsMatchHandlers'
    <3>1. ASSUME NEW k \in Keys(registrations)'
          PROVE  LET h == Get(registrations', k).handler_key
                 IN  Contains(handlers', h) /\ k \in Get(handlers', h).regs
      <4>1. k \in Keys(registrations) /\ k # key /\ Get(registrations', k) = Get(registrations, k)
        BY <2>4, LiveReg, Zenon
      <4> DEFINE h == Get(registrations, k).handler_key
      <4>2. h \in Key /\ Contains(handlers, h) /\ k \in Get(handlers, h).regs
        BY <1>3, <4>1, LiveReg, Parts, Zenon DEF RegsMatchHandlers
      <4>3. Contains(handlers', h) /\ k \in Get(handlers', h).regs
        BY <2>6, <2>7, <4>1, <4>2
      <4> QED BY <4>1, <4>3
    <3>2. ASSUME NEW k \in Keys(handlers)', NEW j \in Get(handlers', k).regs
          PROVE  Contains(registrations', j) /\ Get(registrations', j).handler_key = k
      <4>1. k \in Keys(handlers) /\ k \in Key
        BY <2>7
      <4>2. j \in Get(handlers, k).regs /\ ~(k = hk /\ j = key)
        BY <2>6, <2>7, <3>2, <4>1
      <4>3. Contains(registrations, j) /\ Get(registrations, j).handler_key = k
        BY <4>1, <4>2, Parts DEF RegsMatchHandlers
      <4>4. j # key
        BY <4>2, <4>3 DEF hk
      <4>5. Get(handlers, k) \in Entry
        BY <4>1, Values, Parts
      <4>6. j \in Key
        BY <4>2, <4>5 DEF Entry
      <4> QED BY <2>4, <4>3, <4>4, <4>6 DEF Contains
    <3> QED BY <3>1, <3>2 DEF RegsMatchHandlers
  <2>13. HandlerComesBack'
    <3>1. \A k \in Keys(handlers) : Get(handlers', k).handler = Get(handlers, k).handler
      BY <2>6, <2>7
    <3> QED BY <1>1, <1>5, <2>7, <3>1, Parts DEF HandlerComesBack, historyVars
  <2>14. Running' /\ Batched' /\ (sweep \subseteq made)'
    BY <1>1, <1>3, <2>4, KeptIInv DEF historyVars, loopVars
  <2> QED BY <1>1, <1>3, <2>4, <2>10, <2>11, <2>12, <2>13, <2>14
          DEF IInv, Registering, Unregistering
<1> QED BY <1>6, <1>7

\* The invariant holds of a reactor with nothing in it.
LEMMA InitIInv == Init => IInv
<1> SUFFICES ASSUME Init PROVE IInv
    OBVIOUS
<1>1. IsArena(handlers, Entry) /\ IsArena(registrations, Registration)
  BY EmptyIsArena DEF Init
<1>2. TypeOK
  <2>1. MaxWatches \in Nat /\ MaxCalls \in Nat
    BY ReactorAssumption
  <2>2. interest \in [Fds -> {None} \cup Interest] /\ owner \in [Fds -> Handler \cup {Closed}]
    BY DEF Init
  <2>3. watches \in 0 .. MaxWatches /\ calls \in 0 .. MaxCalls
    BY <2>1 DEF Init
  <2>4. events \in Seq([token : Nat, readable : BOOLEAN, writable : BOOLEAN, about : Nat])
    BY DEF Init
  <2>5. running \in {None} \cup Frame /\ call \in {None} \cup Call
    BY DEF Init
  <2>6. /\ sweep \subseteq Key \X Handler /\ made \subseteq Key \X Handler
        /\ watched \subseteq Key \X Handler
    BY DEF Init
  <2>7. shutdown \in BOOLEAN /\ dump_pending \in BOOLEAN /\ stage = "setup"
    BY Zenon DEF Init
  <2> QED BY <1>1, <2>2, <2>3, <2>4, <2>5, <2>6, <2>7 DEF TypeOK
<1>3. DOMAIN handlers.slots = {} /\ DOMAIN registrations.slots = {}
  BY DEF Init, EmptyArena
<1>4. Keys(handlers) = {} /\ Keys(registrations) = {}
  BY <1>3 DEF Keys
<1>5. IsFiniteSet(made) /\ made = {} /\ watched = {} /\ MadeKeys = {} /\ WatchedKeys = {}
  BY FS_EmptySet DEF Init, MadeKeys, WatchedKeys
<1>6. History
  <2>1. Cardinality(made) = 0 /\ 0 <= MaxHandlers
    BY <1>5, FS_EmptySet, ReactorAssumption
  <2> QED BY <1>3, <1>5, <2>1 DEF History, Spent
<1>7. Held
  BY <1>4 DEF Init, Held, InterestMirrorsRegistrations
<1>8. RegsMatchHandlers /\ HandlerComesBack
  BY <1>4 DEF RegsMatchHandlers, HandlerComesBack
<1> QED BY <1>2, <1>5, <1>6, <1>7, <1>8
        DEF Init, IInv, Running, Registering, Unregistering, Batched

\* unregister returns, and the handler's fds close with it.
LEMMA UnregisterDoneIInv ==
    ASSUME IInv, UnregisterDone
    PROVE  IInv'
<1> DEFINE fds == IF call.handler = None THEN {} ELSE OwnedBy(call.handler)
<1>1. /\ call # None /\ call.op = "unregister" /\ call.regs = {} /\ call' = None /\ Close(fds)
      /\ UNCHANGED <<loopVars, historyVars, calls, running, handlers, registrations>>
  BY DEF UnregisterDone
<1>2. \A k \in Keys(registrations) : Get(registrations, k).fd \notin fds
  <2>1. CASE call.handler = None
    BY <2>1
  <2>2. CASE call.handler # None
    <3>1. PICK p \in made : p[2] = call.handler /\ ~Contains(handlers, p[1])
      BY <1>1, <2>2, Parts DEF Unregistering
    <3> QED BY <1>1, <2>2, <3>1, GoneUnwatched
  <2> QED BY <2>1, <2>2
<1>3. fds \in SUBSET Fds
  BY DEF OwnedBy
<1> HIDE DEF fds
<1>4. /\ owner' \in [Fds -> Handler \cup {Closed}]
      /\ interest' \in [Fds -> {None} \cup Interest]
      /\ Held' /\ Keeps
  BY <1>1, <1>2, <1>3, CloseHeld
<1>5. TypeOK'
  BY <1>1, <1>4, Parts, Zenon DEF TypeOK, loopVars, historyVars
<1>6. History'
  BY <1>1, Parts DEF History, historyVars, MadeKeys, WatchedKeys
<1>7. RegsMatchHandlers' /\ HandlerComesBack'
  BY <1>1, Parts DEF RegsMatchHandlers, HandlerComesBack, Keys, historyVars
<1>8. Running' /\ Batched' /\ (sweep \subseteq made)'
  <2>1. Calm
    BY <1>1, BusyCalm
  <2> QED BY <1>1, <1>4, <2>1, KeptIInv DEF loopVars, historyVars
<1> QED BY <1>1, <1>4, <1>5, <1>6, <1>7, <1>8 DEF IInv, Registering, Unregistering

\* A callback closes an fd that nothing watches.
LEMMA CallCloseIInv ==
    ASSUME IInv, CallClose
    PROVE  IInv'
<1>1. InCallback /\ UNCHANGED <<loopVars, historyVars, call, handlers, registrations>>
  BY DEF CallClose
<1>2. PICK fd \in OwnedBy(running.handler) : ~IsWatched(fd) /\ Close({fd})
  BY DEF CallClose
<1>3. Calm /\ calls' \in 0 .. MaxCalls /\ call = None
  BY <1>1, CallbackCalm
<1>4. /\ running' \in {None} \cup Frame
      /\ running # None => running' # None /\ running'.key = running.key
  BY <1>3, CalmRunning, Parts
<1>5. {fd} \in SUBSET Fds /\ \A k \in Keys(registrations) : Get(registrations, k).fd \notin {fd}
  BY <1>2 DEF OwnedBy, IsWatched
<1>6. /\ owner' \in [Fds -> Handler \cup {Closed}]
      /\ interest' \in [Fds -> {None} \cup Interest]
      /\ Held' /\ Keeps
  BY <1>1, <1>2, <1>5, CloseHeld
<1>7. TypeOK'
  BY <1>1, <1>3, <1>4, <1>6, Parts DEF TypeOK, loopVars, historyVars
<1>8. History'
  BY <1>1, Parts DEF History, historyVars, MadeKeys, WatchedKeys
<1>9. RegsMatchHandlers' /\ HandlerComesBack'
  BY <1>1, <1>4, Parts, Zenon DEF RegsMatchHandlers, HandlerComesBack, Keys, historyVars
<1>10. Running' /\ Batched' /\ (sweep \subseteq made)'
  BY <1>1, <1>3, <1>6, KeptIInv DEF loopVars, historyVars
<1> QED BY <1>1, <1>3, <1>6, <1>7, <1>8, <1>9, <1>10 DEF IInv, Registering, Unregistering

\* A callback changes the interest of a registration.
LEMMA SetInterestIInv ==
    ASSUME IInv, CallSetWriteInterest \/ CallSetReadInterest
    PROVE  IInv'
<1>1. InCallback /\ UNCHANGED <<loopVars, historyVars, call, owner, handlers>>
  BY DEF CallSetWriteInterest, CallSetReadInterest
<1>2. PICK key \in OwnRegs, enabled \in BOOLEAN, kernelOk \in BOOLEAN :
         set_write_interest(key, enabled, kernelOk) \/ set_read_interest(key, enabled, kernelOk)
  BY DEF CallSetWriteInterest, CallSetReadInterest
<1> DEFINE reg == Get(registrations, key)
           wr == [reg EXCEPT !.write_interest = enabled]
           rd == [reg EXCEPT !.read_interest = enabled]
<1>3. CASE UNCHANGED <<interest, registrations>>
  <2>1. shutdown' \in BOOLEAN /\ dump_pending' \in BOOLEAN
    BY <1>1, Parts DEF loopVars, TypeOK
  <2> QED BY <1>1, <1>3, <2>1, IdleCallIInv DEF arenaVars, loopVars
<1>4. CASE ~UNCHANGED <<interest, registrations>>
  <2>1. Contains(registrations, key)
    BY <1>2, <1>4 DEF set_write_interest, set_read_interest
  <2>2. key \in Key
    BY Parts DEF OwnRegs, TypeOK
  <2>3. key \in Keys(registrations) /\ reg \in Registration
    BY <2>1, <2>2, Values, Parts DEF Contains, None
  <2>4. \/ /\ interest' = [interest EXCEPT ![reg.fd] =
                 [token |-> ToU64(key), read |-> reg.read_interest, write |-> enabled]]
           /\ registrations' = Put(registrations, key, wr)
        \/ /\ interest' = [interest EXCEPT ![reg.fd] =
                 [token |-> ToU64(key), read |-> enabled, write |-> reg.write_interest]]
           /\ registrations' = Put(registrations, key, rd)
    BY <1>2, <1>4 DEF set_write_interest, set_read_interest
  <2> HIDE DEF reg
  <2>5. /\ wr \in Registration /\ wr.fd = reg.fd /\ wr.handler_key = reg.handler_key
        /\ wr.user_data = reg.user_data
        /\ wr.read_interest = reg.read_interest /\ wr.write_interest = enabled
    BY <2>3 DEF Registration
  <2>6. /\ rd \in Registration /\ rd.fd = reg.fd /\ rd.handler_key = reg.handler_key
        /\ rd.user_data = reg.user_data
        /\ rd.read_interest = enabled /\ rd.write_interest = reg.write_interest
    BY <2>3 DEF Registration
  <2> HIDE DEF wr, rd
  <2>7. /\ IsArena(registrations', Registration)
        /\ interest' \in [Fds -> {None} \cup Interest]
        /\ Keys(registrations)' = Keys(registrations)
        /\ \A k \in Keys(registrations) :
              Get(registrations', k).handler_key = Get(registrations, k).handler_key
        /\ \A k \in Key : Contains(registrations', k) <=> Contains(registrations, k)
        /\ Spent(registrations', WatchedKeys', watches')
        /\ Held' /\ Keeps
    <3>1. CASE /\ interest' = [interest EXCEPT ![reg.fd] =
                   [token |-> ToU64(key), read |-> reg.read_interest, write |-> enabled]]
               /\ registrations' = Put(registrations, key, wr)
      BY <1>1, <2>3, <2>5, <3>1, ArmReg, Zenon DEF reg
    <3>2. CASE /\ interest' = [interest EXCEPT ![reg.fd] =
                   [token |-> ToU64(key), read |-> enabled, write |-> reg.write_interest]]
               /\ registrations' = Put(registrations, key, rd)
      BY <1>1, <2>3, <2>6, <3>2, ArmReg, Zenon DEF reg
    <3> QED BY <2>4, <3>1, <3>2, Zenon
  <2>8. Calm /\ calls' \in 0 .. MaxCalls /\ call = None
    BY <1>1, CallbackCalm
  <2>9. /\ running' \in {None} \cup Frame
        /\ running # None => running' # None /\ running'.key = running.key
    BY <2>8, CalmRunning, Parts
  <2>10. TypeOK'
    BY <1>1, <2>7, <2>8, <2>9, Parts DEF TypeOK, loopVars, historyVars
  <2>11. History'
    BY <1>1, <2>7, Parts DEF History, historyVars, MadeKeys
  <2>12. Keys(handlers)' = Keys(handlers)
    BY <1>1
  <2>13. RegsMatchHandlers'
    <3>1. \A k \in Keys(handlers) : \A r \in Get(handlers, k).regs :
             r \in Keys(registrations) /\ r \in Key
      <4> SUFFICES ASSUME NEW k \in Keys(handlers), NEW r \in Get(handlers, k).regs
                   PROVE  r \in Keys(registrations) /\ r \in Key
          OBVIOUS
      <4>1. Contains(registrations, r)
        BY Parts DEF RegsMatchHandlers
      <4>2. k \in Key /\ Get(handlers, k) \in Entry
        BY Values, Parts
      <4>3. r \in Key
        BY <4>2 DEF Entry
      <4> QED BY <4>1, <4>3, Values, Parts DEF Contains, None
    <3> QED BY <1>1, <2>7, <2>8, <2>12, <3>1, Parts, Zenon DEF RegsMatchHandlers
  <2>14. HandlerComesBack'
    BY <1>1, <2>9, <2>12, Parts DEF HandlerComesBack, historyVars
  <2>15. Running' /\ Batched' /\ (sweep \subseteq made)'
    BY <1>1, <2>7, <2>8, KeptIInv DEF historyVars, loopVars
  <2> QED BY <1>1, <2>7, <2>8, <2>10, <2>11, <2>13, <2>14, <2>15
          DEF IInv, Registering, Unregistering
<1> QED BY <1>3, <1>4

\* The head and the rest of a sequence.
LEMMA TailFacts ==
    ASSUME NEW S, NEW s \in Seq(S), s # <<>>
    PROVE  /\ Len(s) \in Nat /\ Len(s) > 0 /\ DOMAIN s = 1 .. Len(s)
           /\ Head(s) = s[1] /\ s[1] \in S /\ Tail(s) \in Seq(S)
           /\ \A i \in DOMAIN Tail(s) : i + 1 \in DOMAIN s /\ Tail(s)[i] = s[i + 1]
OBVIOUS

\* dispatch_event takes the handler out for the next event, or skips the event.
LEMMA DispatchIInv ==
    ASSUME IInv, Dispatch
    PROVE  IInv'
<1> DEFINE event == Head(events)
           reg == FromU64(event.token)
           key == Get(registrations, reg).handler_key
           phase == IF event.readable THEN "readable" ELSE "writable"
           Event == [token : Nat, readable : BOOLEAN, writable : BOOLEAN, about : Nat]
<1>1. /\ Idle /\ events # <<>> /\ events' = Tail(events)
      /\ \/ /\ Contains(registrations, reg) /\ CanTake(key)
            /\ event.readable \/ (event.writable /\ WriteArmed(reg))
            /\ take(key, reg, event.writable /\ event.readable, phase, event.about)
         \/ UNCHANGED <<handlers, running>>
      /\ UNCHANGED <<registrations, interest, owner, historyVars, calls, sweep, stage, call,
                     shutdown, dump_pending>>
  BY DEF Dispatch
<1>2. /\ events \in Seq(Event) /\ Len(events) \in Nat /\ Len(events) > 0
      /\ DOMAIN events = 1 .. Len(events) /\ event = events[1] /\ event \in Event
      /\ events' \in Seq(Event)
      /\ \A i \in DOMAIN events' : i + 1 \in DOMAIN events /\ events'[i] = events[i + 1]
  <2>1. events \in Seq(Event)
    BY Parts DEF TypeOK
  <2> HIDE DEF Event
  <2> QED BY <1>1, <2>1, TailFacts
<1>3. PICK k \in WatchedKeys :
         /\ events[1].token = ToU64(k)
         /\ Contains(registrations, k) => Get(registrations, k).user_data = events[1].about
  <2>1. 1 \in DOMAIN events
    BY <1>2
  <2> QED BY <2>1, Parts DEF Batched
<1>4. k \in Key
  BY Parts DEF TypeOK, WatchedKeys
<1>5. reg = k
  BY <1>2, <1>3, <1>4, TokenRoundTrip
<1>6. Batched'
  <2> SUFFICES ASSUME NEW i \in DOMAIN events'
               PROVE  \E j \in WatchedKeys :
                         /\ events'[i].token = ToU64(j)
                         /\ Contains(registrations, j) =>
                               Get(registrations, j).user_data = events'[i].about
      BY <1>1, Zenon DEF Batched, historyVars, WatchedKeys
  <2> QED BY <1>2, Parts, Zenon DEF Batched
<1>7. (sweep \subseteq made)'
  BY <1>1, Parts DEF historyVars
<1>8. CASE UNCHANGED <<handlers, running>>
  <2>1. TypeOK'
    BY <1>1, <1>2, <1>8, Parts DEF TypeOK, historyVars
  <2> QED BY <1>1, <1>6, <1>7, <1>8, <2>1, QuietIInv DEF arenaVars
<1>9. CASE /\ Contains(registrations, reg) /\ CanTake(key)
           /\ event.readable \/ (event.writable /\ WriteArmed(reg))
           /\ take(key, reg, event.writable /\ event.readable, phase, event.about)
  <2>1. k \in Keys(registrations)
    BY <1>4, <1>5, <1>9, Values, Parts, Zenon DEF Contains, None
  <2>2. key \in Key
    BY <1>5, <2>1, LiveReg, Zenon
  <2>3. Get(registrations, reg).user_data = event.about
    BY <1>2, <1>3, <1>5, <1>9
  <2>4. phase = "writable" => Get(registrations, reg).write_interest
    BY <1>9 DEF WriteArmed
  <2>5. /\ (event.writable /\ event.readable) \in BOOLEAN /\ event.about \in Nat
        /\ phase \in {"readable", "writable", "sweep"} /\ phase # "sweep"
    BY <1>2
  <2>6. key = Get(registrations, reg).handler_key
    OBVIOUS
  <2> HIDE DEF event, phase, key
  <2>7. reg \in Key \cup {None} /\ reg \in Keys(registrations)
    BY <1>4, <1>5, <2>1
  <2> HIDE DEF reg
  <2> QED BY <1>1, <1>2, <1>6, <1>7, <1>9, <2>2, <2>3, <2>4, <2>5, <2>6, <2>7, TakeIInv
<1> QED BY <1>1, <1>8, <1>9

\* The sweep takes the next handler out.
LEMMA SweepIInv ==
    ASSUME IInv, Sweep
    PROVE  IInv'
<1>1. PICK p \in sweep :
        /\ Idle /\ sweep' = sweep \ {p}
        /\ \/ CanTake(p[1]) /\ take(p[1], None, FALSE, "sweep", p[2])
           \/ UNCHANGED <<handlers, running>>
        /\ UNCHANGED <<registrations, interest, owner, historyVars, calls, events, stage, call,
                       shutdown, dump_pending>>
  BY Zenon DEF Sweep
<1>2. p \in made /\ p[1] \in Key /\ p[2] \in Nat
  BY ReactorAssumption, Parts DEF TypeOK, Handler
<1>3. Batched' /\ (sweep \subseteq made)'
  BY <1>1, Parts DEF Batched, WatchedKeys, historyVars
<1>4. CASE UNCHANGED <<handlers, running>>
  <2>1. TypeOK'
    BY <1>1, <1>4, Parts DEF TypeOK, historyVars
  <2> QED BY <1>1, <1>3, <1>4, <2>1, QuietIInv DEF arenaVars
<1>5. CASE CanTake(p[1]) /\ take(p[1], None, FALSE, "sweep", p[2])
  <2>1. p[1] \in Keys(handlers) /\ Get(handlers, p[1]).handler # None
    BY <1>2, <1>5, Values, Parts DEF CanTake, Contains, None
  <2>2. <<p[1], Get(handlers, p[1]).handler>> \in made
    BY <2>1, Parts DEF HandlerComesBack
  <2>3. Get(handlers, p[1]).handler = p[2]
    <3> DEFINE h == Get(handlers, p[1]).handler
    <3> HIDE DEF h
    <3>1. <<p[1], h>> \in made
      BY <2>2 DEF h
    <3>2. <<p[1], h>>[1] = p[1] /\ <<p[1], h>>[2] = h
      OBVIOUS
    <3>3. <<p[1], h>> = p
      BY <1>2, <3>1, <3>2, Parts DEF History
    <3> QED BY <3>2, <3>3 DEF h
  <2>4. events' \in Seq([token : Nat, readable : BOOLEAN, writable : BOOLEAN, about : Nat])
    BY <1>1, Parts DEF TypeOK
  <2> QED BY <1>1, <1>2, <1>3, <1>5, <2>3, <2>4, TakeIInv, Zenon
<1> QED BY <1>1, <1>4, <1>5, Zenon

\* The snapshot of a sweep pairs every key with the handler in its slot: none is out.
LEMMA SweepStartsIInv ==
    ASSUME IInv, EventsDone \/ ControlsDone
    PROVE  IInv'
<1>1. /\ Idle /\ UNCHANGED <<arenaVars, historyVars, calls, events, running, call, shutdown>>
      /\ stage' \in {"controls", "deadlines"} /\ dump_pending' \in BOOLEAN
      /\ \E keys \in SUBSET Keys(handlers) : sweep' = Snapshot(keys)
  <2>1. Snapshot({}) = {}
    BY DEF Snapshot
  <2> QED BY <2>1, Parts, Zenon DEF EventsDone, ControlsDone, TypeOK
<1>2. \A k \in Keys(handlers) : <<k, Get(handlers, k).handler>> \in made
  BY <1>1, Parts DEF Idle, HandlerComesBack
<1>3. sweep' \subseteq made
  BY <1>1, <1>2, Zenon DEF Snapshot
<1>4. TypeOK'
  BY <1>1, <1>3, Parts DEF TypeOK, arenaVars, historyVars
<1>5. Batched'
  BY <1>1, Parts, Zenon DEF Batched, WatchedKeys, arenaVars, historyVars
<1> QED BY <1>1, <1>3, <1>4, <1>5, QuietIInv DEF historyVars

\* on_writable follows on_readable of the same event.
LEMMA WritableIInv ==
    ASSUME IInv, Writable
    PROVE  IInv'
<1>1. /\ running # None /\ call = None /\ running.write /\ WriteArmed(running.reg)
      /\ running' = [running EXCEPT !.phase = "writable", !.write = FALSE, !.fresh = TRUE]
      /\ UNCHANGED <<loopVars, arenaVars, historyVars, calls, call>>
  BY DEF Writable
<1>2. running \in Frame
  BY <1>1, Parts DEF TypeOK
<1>3. /\ running' \in Frame /\ running'.key = running.key /\ running'.handler = running.handler
      /\ running'.reg = running.reg /\ running'.write = FALSE /\ running'.phase = "writable"
      /\ running'.about = running.about
  BY <1>1, <1>2, Zenon DEF Frame
<1>4. TypeOK'
  BY <1>1, <1>3, Parts DEF TypeOK, loopVars, arenaVars, historyVars
<1>5. History' /\ Held'
  BY <1>1, SameArenas
<1>6. running' # None
  BY <1>3, NoneAssumption
<1>7. RegsMatchHandlers' /\ HandlerComesBack'
  BY <1>1, <1>3, <1>6, Parts DEF RegsMatchHandlers, HandlerComesBack, Keys, arenaVars, historyVars
<1>8. /\ <<running.key, running.handler>> \in made
      /\ running.reg \in WatchedKeys
      /\ Contains(registrations, running.reg) /\ Get(registrations, running.reg).write_interest
      /\ Get(registrations, running.reg).handler_key = running.key
      /\ Get(registrations, running.reg).user_data = running.about
  BY <1>1, Parts DEF Running, WriteArmed
<1>9. Contains(handlers, running.key)
  <2>1. running.reg \in Key
    BY <1>8, Parts, Zenon DEF TypeOK, WatchedKeys
  <2>2. running.reg \in Keys(registrations)
    BY <1>8, <2>1, Values, Parts DEF Contains, None
  <2> QED BY <1>1, <1>8, <2>2, Parts DEF RegsMatchHandlers
<1>10. WatchedKeys' = WatchedKeys
  BY <1>1 DEF WatchedKeys, historyVars
<1>11. Running'
  BY <1>1, <1>3, <1>8, <1>9, <1>10 DEF Running, arenaVars, historyVars
<1>12. Batched' /\ (sweep \subseteq made)'
  BY <1>1, <1>10, Parts DEF Batched, loopVars, arenaVars, historyVars
<1> QED BY <1>1, <1>4, <1>5, <1>7, <1>11, <1>12 DEF IInv, Registering, Unregistering

\* The handler comes back to its slot, or is dropped when it was unregistered.
LEMMA RestoreIInv ==
    ASSUME IInv, Restore
    PROVE  IInv'
<1> DEFINE key == running.key
           entry == Get(handlers, key)
           back == [entry EXCEPT !.handler = running.handler]
<1>1. /\ running # None /\ call = None /\ running' = None
      /\ UNCHANGED <<loopVars, historyVars, calls, registrations, call>>
      /\ Contains(handlers, key) =>
            handlers' = Put(handlers, key, back) /\ UNCHANGED <<owner, interest>>
      /\ ~Contains(handlers, key) => Close(OwnedBy(running.handler)) /\ UNCHANGED handlers
  BY DEF Restore
<1>2. running \in Frame /\ key \in Key /\ running.handler \in Handler
  BY <1>1, Parts DEF TypeOK, Frame
<1>3. <<key, running.handler>> \in made
  BY <1>1, Parts DEF Running
<1>4. Batched' /\ (sweep \subseteq made)'
  BY <1>1, Parts DEF Batched, WatchedKeys, loopVars, historyVars
<1>5. Running' /\ Registering' /\ Unregistering'
  BY <1>1 DEF Running, Registering, Unregistering
<1>6. CASE Contains(handlers, key)
  <2>1. entry \in Entry /\ key \in Keys(handlers)
    BY <1>2, <1>6, Values, Parts DEF Contains, None
  <2> HIDE DEF key
  <2>2. back \in Entry /\ back.handler = running.handler /\ back.regs = entry.regs
    BY <1>2, <2>1 DEF Entry
  <2> HIDE DEF back
  <2>3. /\ IsArena(handlers', Entry) /\ Get(handlers', key) = back
        /\ \A k \in Key : k # key => Get(handlers', k) = Get(handlers, k)
        /\ Spent(handlers', MadeKeys, Cardinality(made))
        /\ Keys(handlers)' = Keys(handlers) /\ Keys(handlers) \subseteq Key
        /\ \A k \in Key : Contains(handlers', k) <=> Contains(handlers, k)
    BY <1>1, <1>6, <2>1, <2>2, PutEntry, Zenon
  <2>6. TypeOK'
    BY <1>1, <1>6, <2>3, Parts, Zenon DEF TypeOK, loopVars, historyVars
  <2>7. History' /\ Held'
    <3>1. History'
      BY <1>1, <1>6, <2>3, Parts, Zenon DEF History, historyVars, MadeKeys, WatchedKeys
    <3>2. IsArena(registrations', Registration)
      BY <1>1, Parts, Zenon DEF TypeOK
    <3> QED BY <1>1, <1>6, <3>1, <3>2, SameRegs DEF historyVars
  <2>8. RegsMatchHandlers'
    <3>1. \A k \in Keys(handlers) : Get(handlers', k).regs = Get(handlers, k).regs
      BY <2>2, <2>3, Zenon
    <3>2. \A k \in Keys(registrations) : Contains(handlers, Get(registrations, k).handler_key)
      BY <1>1, Parts DEF RegsMatchHandlers
    <3>3. \A k \in Keys(registrations) : LET hk == Get(registrations, k).handler_key
                                         IN  hk \in Keys(handlers) /\ hk \in Key
      BY <3>2, LiveReg, Values, Parts, Zenon DEF Contains, None
    <3>4. Keys(registrations)' = Keys(registrations)
      BY <1>1
    <3> QED BY <1>1, <2>3, <3>1, <3>3, <3>4, Parts, Zenon DEF RegsMatchHandlers
  <2>9. HandlerComesBack'
    <3>1. \A k \in Keys(handlers) : k # key => Get(handlers', k) = Get(handlers, k)
      BY <2>3
    <3>2. \A k \in Keys(handlers) : k # key => Get(handlers, k).handler # None
      BY Parts, Zenon DEF HandlerComesBack, key
    <3>3. running.handler # None
      BY <1>2, NoneAssumption
    <3> QED BY <1>1, <1>3, <2>2, <2>3, <3>1, <3>2, <3>3, Parts, Zenon
            DEF HandlerComesBack, historyVars
  <2> QED BY <1>4, <1>5, <2>6, <2>7, <2>8, <2>9 DEF IInv
<1>7. CASE ~Contains(handlers, key)
  <2>1. \A k \in Keys(registrations) : Get(registrations, k).fd \notin OwnedBy(running.handler)
    <3> DEFINE p == <<key, running.handler>>
    <3>1. p \in made /\ p[1] = key /\ p[2] = running.handler
      BY <1>3
    <3> HIDE DEF p, key
    <3> QED BY <1>1, <1>7, <3>1, GoneUnwatched
  <2>2. OwnedBy(running.handler) \in SUBSET Fds
    BY DEF OwnedBy
  <2>3. /\ owner' \in [Fds -> Handler \cup {Closed}]
        /\ interest' \in [Fds -> {None} \cup Interest]
        /\ Held' /\ Keeps
    BY <1>1, <1>7, <2>1, <2>2, CloseHeld
  <2>4. TypeOK'
    BY <1>1, <1>7, <2>3, Parts DEF TypeOK, loopVars, historyVars
  <2>5. History'
    BY <1>1, <1>7, Parts DEF History, historyVars, MadeKeys, WatchedKeys
  <2>6. RegsMatchHandlers'
    BY <1>1, <1>7, Parts DEF RegsMatchHandlers, Keys
  <2>7. HandlerComesBack'
    <3>1. \A k \in Keys(handlers) : k # key /\ Get(handlers, k).handler # None
      BY <1>7, Values, Parts, Zenon DEF HandlerComesBack, Contains, None
    <3>2. Keys(handlers)' = Keys(handlers) /\ handlers' = handlers
      BY <1>1, <1>7
    <3> QED BY <1>1, <3>1, <3>2, Parts DEF HandlerComesBack, historyVars
  <2> QED BY <1>4, <1>5, <2>3, <2>4, <2>5, <2>6, <2>7 DEF IInv
<1> QED BY <1>6, <1>7

-----------------------------------------------------------------------------
\* Every step of the reactor keeps the invariant.
LEMMA NextIInv == IInv /\ [Next]_vars => IInv'
<1> SUFFICES ASSUME IInv, [Next]_vars PROVE IInv'
    OBVIOUS
<1>1. CASE UNCHANGED vars
  <2>1. UNCHANGED <<arenaVars, historyVars, running, call, events, sweep, stage, shutdown, dump_pending, calls>>
    BY <1>1 DEF vars, arenaVars, historyVars
  <2>2. TypeOK' /\ Batched' /\ (sweep \subseteq made)'
    BY <2>1, Parts, Zenon DEF TypeOK, Batched, WatchedKeys, arenaVars, historyVars
  <2> QED BY <2>1, <2>2, QuietIInv
<1>2. ASSUME NEW n \in {0, 1, 2}, Setup(n) PROVE IInv'
  <2>1. register(n) /\ call = None /\ Calm /\ UNCHANGED loopVars /\ calls' \in 0 .. MaxCalls
    BY <1>2, Parts DEF Setup, Idle, Calm, TypeOK
  <2> QED BY <2>1, RegisterIInv
<1>3. ASSUME NEW n \in {0, 1, 2}, CallRegister(n) PROVE IInv'
  <2>1. register(n) /\ InCallback /\ UNCHANGED loopVars
    BY <1>3 DEF CallRegister
  <2>2. call = None /\ Calm /\ calls' \in 0 .. MaxCalls
    BY <2>1, CallbackCalm
  <2> QED BY <2>1, <2>2, RegisterIInv
<1>4. CASE RegisterWatch \/ RegisterDone \/ UnregisterReg \/ UnregisterDone
  BY <1>4, RegisterWatchIInv, RegisterDoneIInv, UnregisterRegIInv, UnregisterDoneIInv
<1>5. CASE CallWatch \/ CallUnwatch \/ CallClose \/ CallUnregister \/ CallRequest
           \/ CallSetWriteInterest \/ CallSetReadInterest
  BY <1>5, CallWatchIInv, CallUnwatchIInv, CallCloseIInv, CallUnregisterIInv, CallRequestIInv,
     SetInterestIInv
<1>6. CASE Run \/ WaitReports \/ WaitReturns \/ WaitFails \/ Dispatch \/ Writable \/ Restore
           \/ EventsDone \/ ControlsDone \/ DeadlinesDone \/ Sweep
  BY <1>6, LoopIInv, WaitReportsIInv, DispatchIInv, WritableIInv, RestoreIInv, SweepStartsIInv,
     SweepIInv
<1>7. CASE Stopped
  BY <1>1, <1>7 DEF Stopped
<1> QED BY <1>1, <1>2, <1>3, <1>4, <1>5, <1>6, <1>7 DEF Next

\* The inductive invariant holds throughout.
THEOREM Invariant == Spec => []IInv
BY InitIInv, NextIInv, PTL DEF Spec

\* For any number of handlers, fds and watches: whatever is registered, unregistered, watched or
\* refused, and in whatever order, the kernel's interest list, the registrations, the handlers' lists
\* and the open fds agree (watch, unwatch, unregister, set_*_interest).
THEOREM WatchesStayConsistent == Spec => []WatchesConsistent
<1>1. IInv => WatchesConsistent
  BY Parts, Zenon DEF Held, WatchesConsistent, FdsOutliveInterest
<1> QED BY <1>1, Invariant, PTL

\* For any number of handlers: a handler is out of its slot only during its own callback, and every
\* slot has the handler that was registered in it (take_handler, restore_handler).
THEOREM HandlersComeBack == Spec => []HandlerComesBack
<1>1. IInv => HandlerComesBack
  BY Parts
<1> QED BY <1>1, Invariant, PTL

\* For batches and sweeps of any length: no event and no sweep reaches a later user of the slot or
\* of the fd it was taken for (dispatch, dispatch_control, dispatch_deadlines).
THEOREM EventsReachTheirWatcher == Spec => []DeliveredToWatcher
<1>1. ASSUME IInv PROVE DeliveredToWatcher
  <2> SUFFICES ASSUME running # None, running.fresh
               PROVE  /\ Contains(handlers, running.key)
                      /\ <<running.key, running.handler>> \in made
                      /\ IF running.phase = "sweep" THEN running.about = running.handler
                         ELSE LET reg == Get(registrations, running.reg)
                              IN  /\ Contains(registrations, running.reg)
                                  /\ reg.user_data = running.about
                                  /\ owner[reg.fd] = running.handler
                                  /\ running.phase = "writable" => reg.write_interest
      BY DEF DeliveredToWatcher
  <2> DEFINE reg == Get(registrations, running.reg)
  <2>1. Running /\ TypeOK /\ History
    BY <1>1, Parts
  <2>2. CASE running.phase = "sweep"
    BY <2>1, <2>2 DEF Running
  <2>3. CASE running.phase # "sweep"
    <3>1. /\ Contains(registrations, running.reg) /\ running.reg \in WatchedKeys
          /\ reg.handler_key = running.key /\ reg.user_data = running.about
          /\ <<running.key, running.handler>> \in made
      BY <2>1, <2>3 DEF Running
    <3>2. running.reg \in Key
      BY <2>1, <3>1 DEF TypeOK, WatchedKeys
    <3>3. running.reg \in Keys(registrations)
      BY <2>1, <3>1, <3>2, Values DEF Contains, None
    <3>4. <<running.key, owner[reg.fd]>> \in made
      BY <1>1, <3>1, <3>3, LiveReg, Zenon
    <3> HIDE DEF reg
    <3>5. <<running.key, owner[reg.fd]>> = <<running.key, running.handler>>
      <4> DEFINE p == <<running.key, owner[reg.fd]>>
                 q == <<running.key, running.handler>>
      <4>1. p[1] = q[1] /\ p \in made /\ q \in made
        BY <3>1, <3>4
      <4> HIDE DEF p, q
      <4>2. p = q
        BY <2>1, <4>1 DEF History
      <4> QED BY <4>2 DEF p, q
    <3>6. owner[reg.fd] = running.handler
      BY <3>5
    <3> QED BY <2>1, <2>3, <3>1, <3>6 DEF Running, reg
  <2> QED BY <2>2, <2>3, Zenon
<1> QED BY <1>1, Invariant, PTL

-----------------------------------------------------------------------------
\* A key that the running handler was given and that still resolves is a watch of its own fd.
LEMMA OwnRegIsOwn ==
    ASSUME IInv, NEW key \in OwnRegs, Contains(registrations, key)
    PROVE  key \in Keys(registrations) /\ owner[Get(registrations, key).fd] = running.handler
<1>1. PICK p \in watched : p[1] = key /\ p[2] = running.handler
  BY DEF OwnRegs
<1>2. p \in Key \X Handler
  BY Parts DEF TypeOK
<1>3. key \in Keys(registrations)
  BY <1>1, <1>2, Values, Parts DEF Contains, None
<1> DEFINE h == owner[Get(registrations, key).fd]
<1>4. <<key, h>> \in watched
  BY <1>3, LiveReg, Zenon
<1> HIDE DEF h
<1>5. <<key, h>>[1] = key /\ <<key, h>>[2] = h
  OBVIOUS
<1>6. <<key, h>> = p
  BY <1>1, <1>4, <1>5, Parts DEF History
<1> QED BY <1>1, <1>3, <1>5, <1>6 DEF h

\* What a callback may do to the registrations and the interest of others: nothing.
OthersKept ==
    \A k \in Keys(registrations) :
        LET fd == Get(registrations, k).fd
        IN  owner[fd] # running.handler =>
               /\ Get(registrations', k) = Get(registrations, k)
               /\ interest'[fd] = interest[fd]

\* No call of a callback touches what is not its own.
LEMMA OthersKeptByCalls ==
    ASSUME IInv, Next, running # None, call = None, call' = None
    PROVE  OthersKept
<1>1. CASE UNCHANGED <<registrations, interest>>
  BY <1>1 DEF OthersKept
<1>2. ASSUME NEW key \in OwnRegs, NEW armed,
             Contains(registrations, key), IsArena(registrations', Registration),
             \A k \in Key : k # key => Get(registrations', k) = Get(registrations, k),
             interest' = [interest EXCEPT ![Get(registrations, key).fd] = armed]
      PROVE  OthersKept
  <2>1. key \in Keys(registrations) /\ owner[Get(registrations, key).fd] = running.handler
    BY <1>2, OwnRegIsOwn
  <2> SUFFICES ASSUME NEW k \in Keys(registrations), owner[Get(registrations, k).fd] # running.handler
               PROVE  /\ Get(registrations', k) = Get(registrations, k)
                      /\ interest'[Get(registrations, k).fd] = interest[Get(registrations, k).fd]
      BY DEF OthersKept
  <2>2. k \in Key /\ k # key /\ Get(registrations, k).fd # Get(registrations, key).fd
        /\ Get(registrations, k).fd \in Fds
    BY <2>1, LiveReg, Zenon
  <2>3. interest \in [Fds -> {None} \cup Interest]
    BY Parts DEF TypeOK
  <2> QED BY <1>2, <2>2, <2>3
<1>3. CASE CallUnwatch
  <2>1. PICK key \in OwnRegs : unwatch(key)
    BY <1>3 DEF CallUnwatch
  <2>2. CASE Contains(registrations, key)
    <3>1. /\ registrations' = Remove(registrations, key)
          /\ interest' = [interest EXCEPT ![Get(registrations, key).fd] = None]
      BY <2>1, <2>2 DEF unwatch
    <3>2. key \in Key /\ IsArena(registrations, Registration)
      BY Parts DEF OwnRegs, TypeOK
    <3>3. /\ IsArena(registrations', Registration)
          /\ \A k \in Key : k # key => Get(registrations', k) = Get(registrations, k)
      BY <3>1, <3>2, RemoveMap
    <3> QED BY <1>2, <2>2, <3>1, <3>3, Zenon
  <2>3. CASE ~Contains(registrations, key)
    BY <1>1, <2>1, <2>3 DEF unwatch
  <2> QED BY <2>2, <2>3
<1>4. CASE CallSetWriteInterest \/ CallSetReadInterest
  <2>1. PICK key \in OwnRegs, enabled \in BOOLEAN, kernelOk \in BOOLEAN :
           set_write_interest(key, enabled, kernelOk) \/ set_read_interest(key, enabled, kernelOk)
    BY <1>4 DEF CallSetWriteInterest, CallSetReadInterest
  <2> DEFINE reg == Get(registrations, key)
             wr == [reg EXCEPT !.write_interest = enabled]
             rd == [reg EXCEPT !.read_interest = enabled]
  <2>2. CASE ~UNCHANGED <<interest, registrations>>
    <3>1. PICK new \in {wr, rd}, armed \in {[token |-> ToU64(key), read |-> reg.read_interest, write |-> enabled],
                                    [token |-> ToU64(key), read |-> enabled, write |-> reg.write_interest]} :
             /\ Contains(registrations, key)
             /\ registrations' = Put(registrations, key, new)
             /\ interest' = [interest EXCEPT ![reg.fd] = armed]
      BY <2>1, <2>2 DEF set_write_interest, set_read_interest
    <3>2. key \in Keys(registrations) /\ key \in Key /\ reg \in Registration
      BY <3>1, OwnRegIsOwn, LiveReg, Zenon
    <3> HIDE DEF reg
    <3>3. new \in Registration
      BY <3>1, <3>2 DEF Registration
    <3>4. IsArena(registrations, Registration) /\ NoValue \notin Registration
      BY NoneAssumption, Parts DEF TypeOK, None
    <3>5. /\ IsArena(registrations', Registration)
          /\ \A k \in Key : k # key => Get(registrations', k) = Get(registrations, k)
      BY <3>1, <3>2, <3>3, <3>4, PutMap
    <3> QED BY <1>2, <3>1, <3>3, <3>5, Zenon DEF reg
  <2> QED BY <1>1, <2>2
<1>5. ASSUME NEW fds \in SUBSET Fds, Close(fds), UNCHANGED registrations,
             \A k \in Keys(registrations) :
                 owner[Get(registrations, k).fd] # running.handler => Get(registrations, k).fd \notin fds
      PROVE  OthersKept
  <2>1. \A k \in Keys(registrations) : Get(registrations, k).fd \in Fds
    BY LiveReg, Zenon
  <2> QED BY <1>5, <2>1 DEF Close, OthersKept
<1>6. CASE CallClose
  <2>1. PICK fd \in OwnedBy(running.handler) : ~IsWatched(fd) /\ Close({fd})
    BY <1>6 DEF CallClose
  <2>2. {fd} \in SUBSET Fds /\ owner[fd] = running.handler
    BY DEF OwnedBy
  <2> QED BY <1>5, <1>6, <2>1, <2>2, Zenon DEF CallClose
<1>7. CASE Restore
  <2>1. CASE Contains(handlers, running.key)
    BY <1>1, <1>7, <2>1 DEF Restore
  <2>2. CASE ~Contains(handlers, running.key)
    BY <1>5, <1>7, <2>2 DEF Restore, OwnedBy
  <2> QED BY <2>1, <2>2
<1>8. CASE CallWatch
  <2>1. PICK fd \in LowestClosed(1) :
           \/ ~WatchRefused(running.key, fd) /\ watch(running.key, fd, running.handler)
           \/ /\ registrations' = IF WatchRefused(running.key, fd) THEN registrations
                                  ELSE FailedAdd(running.key, fd)
              /\ UNCHANGED <<interest, watched>>
    BY <1>8 DEF CallWatch
  <2>2. /\ InCallback /\ watches < MaxWatches /\ watches' = watches + 1
        /\ watches \in Nat /\ MaxWatches \in Nat /\ watches + 1 <= MaxWatches
    <3>1. InCallback /\ watches < MaxWatches /\ watches' = watches + 1
      BY <1>8 DEF CallWatch
    <3>2. watches \in 0 .. MaxWatches
      BY Parts DEF TypeOK
    <3> QED BY <3>1, <3>2, ReactorAssumption
  <2>3. fd \in Fds /\ running.key \in Key
    BY <2>2, CallbackCalm DEF LowestClosed
  <2>4. CASE /\ registrations' = IF WatchRefused(running.key, fd) THEN registrations
                                 ELSE FailedAdd(running.key, fd)
             /\ UNCHANGED <<interest, watched>>
    <3>1. \A k \in Key : Get(registrations', k) = Get(registrations, k)
      BY <2>2, <2>3, <2>4, WatchFails
    <3> QED BY <2>4, <3>1, LiveReg, Zenon DEF OthersKept
  <2>5. CASE ~WatchRefused(running.key, fd) /\ watch(running.key, fd, running.handler)
    <3> DEFINE new == NewRegistration(running.key, fd)
               armed == [token |-> ToU64(NextKey(registrations)), read |-> TRUE, write |-> FALSE]
    <3>1. /\ registrations' = Insert(registrations, new)
          /\ interest' = [interest EXCEPT ![fd] = armed] /\ ~IsWatched(fd)
      BY <2>5 DEF watch, WatchRefused
    <3>2. new \in Registration
      BY <2>2, <2>3 DEF NewRegistration, Registration, UserData
    <3> HIDE DEF new, armed
    <3>3. /\ IsArena(registrations, Registration) /\ NoValue \notin Registration
          /\ interest \in [Fds -> {None} \cup Interest]
      BY NoneAssumption, Parts DEF TypeOK, None
    <3>4. /\ Get(registrations, NextKey(registrations)) = None
          /\ \A k \in Key : k # NextKey(registrations) => Get(registrations', k) = Get(registrations, k)
      BY <3>1, <3>2, <3>3, InsertMap DEF None
    <3> SUFFICES ASSUME NEW k \in Keys(registrations)
                 PROVE  /\ Get(registrations', k) = Get(registrations, k)
                        /\ interest'[Get(registrations, k).fd] = interest[Get(registrations, k).fd]
        BY DEF OthersKept
    <3>5. k \in Key /\ Get(registrations, k) # None /\ Get(registrations, k).fd \in Fds
      BY LiveReg, Zenon DEF Contains, None
    <3>6. Get(registrations, k).fd # fd
      BY <3>1 DEF IsWatched
    <3> QED BY <3>1, <3>3, <3>4, <3>5, <3>6
  <2> QED BY <2>1, <2>4, <2>5
<1>9. ASSUME NEW n \in {0, 1, 2}, Setup(n) \/ CallRegister(n) PROVE OthersKept
  BY <1>1, <1>9, Zenon DEF Setup, CallRegister, register
<1>10. CASE CallUnregister \/ CallRequest \/ Writable \/ Stopped
  BY <1>1, <1>10 DEF CallUnregister, CallRequest, Writable, Stopped, arenaVars, vars
<1>11. CASE RegisterWatch \/ RegisterDone \/ UnregisterReg \/ UnregisterDone
  BY <1>11 DEF RegisterWatch, RegisterDone, UnregisterReg, UnregisterDone
<1>12. CASE Run \/ WaitReports \/ WaitReturns \/ WaitFails \/ Dispatch
            \/ EventsDone \/ ControlsDone \/ DeadlinesDone \/ Sweep
  BY <1>12, Zenon DEF Run, WaitReports, WaitReturns, WaitFails, Dispatch, EventsDone, ControlsDone,
               DeadlinesDone, Sweep, Idle
<1> QED BY <1>3, <1>4, <1>6, <1>7, <1>8, <1>9, <1>10, <1>11, <1>12 DEF Next

\* For any number of handlers: a callback's calls, also through stale keys, change no registration
\* and no interest of another handler's fd (unwatch, set_*_interest, restore_handler).
THEOREM CallsChangeOwnOnly == Spec => OnlyOwnRegistrations
<1>1. IInv /\ [Next]_vars =>
         [running # None /\ call = None /\ call' = None =>
             \A k \in Keys(registrations) :
                 LET fd == Get(registrations, k).fd
                 IN  owner[fd] # running.handler =>
                        /\ Get(registrations', k) = Get(registrations, k)
                        /\ interest'[fd] = interest[fd]]_vars
  BY OthersKeptByCalls DEF OthersKept
<1> QED BY <1>1, Invariant, PTL DEF Spec, OnlyOwnRegistrations

=============================================================================
