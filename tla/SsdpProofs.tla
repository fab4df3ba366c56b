----------------------------- MODULE SsdpProofs -----------------------------
(* Proofs for what SSDP (and WSD) reflection keeps between two messages: the    *)
(* search sessions and the registry of DIAL proxies, for every set of           *)
(* searchers, ports, delivery sides, devices and targets, every cap and any     *)
(* number of messages.                                                          *)
(*                                                                            *)
(* Searches: an answer comes back because the search it answers has a session   *)
(* that lasts as long as its window (Covered), and because no other session     *)
(* holds that session's port.                                                   *)
(*                                                                            *)
(* DialRegistry: every proxy is accounted for, and what was told is served.     *)
(* The registry and the reactor's handlers name each other: an entry whose      *)
(* handler runs is the entry of that handler's key.  So the entries left after   *)
(* pruning are as many as the proxies that run, and the cap on the ones is a    *)
(* cap on the others.  A LOCATION lives no longer than the grace of its entry,   *)
(* which is why the sweep takes no proxy a client was just told of.             *)
EXTENDS Searches, DialRegistry, FiniteSetTheorems, TLAPS

(* -------------------------- the sessions' invariant ------------------------- *)
Address == [scope : Scopes, version : Nat]
SessionSource == [addr : Address, port : Ports]
SearchKey == [searcher : Searchers, dest : Groups]
Session == [expiry : Nat, source : SessionSource, response_key : Nat]
Window == Nat \ {0}

Types ==
    /\ peers \in Deliveries
    /\ addrs \in [Scopes -> Nat]
    /\ made \in Nat /\ changes \in Nat
    /\ DOMAIN sessions \subseteq SearchKey
    /\ sessions \in [DOMAIN sessions -> Session]
    /\ asked \subseteq [searcher : Searchers, source : SessionSource, left : Window]

\* The keys of live registrations have been given out.
KeysMade == \A k \in DOMAIN sessions : sessions[k].response_key <= made

\* The search has a session, with its port, that lasts as long as it asked for.
HasSession(a) ==
    \E k \in DOMAIN sessions :
        /\ k.searcher = a.searcher
        /\ sessions[k].source = a.source
        /\ a.left <= sessions[k].expiry

Covered == \A a \in asked : HasSession(a)

IInv == Types /\ IsFiniteSet(DOMAIN sessions) /\ KeysMade /\ SessionsInStep /\ Covered

-----------------------------------------------------------------------------
\* The larger of two numbers (Duration::max, clamp).
LEMMA MaxOfTwo ==
    ASSUME NEW a \in Int, NEW b \in Int
    PROVE  Max({a, b}) \in {a, b} /\ a <= Max({a, b}) /\ b <= Max({a, b})
<1>1. \E x \in {a, b} : \A y \in {a, b} : x >= y
  OBVIOUS
<1> QED BY <1>1 DEF Max

\* The smaller of two numbers.
LEMMA MinOfTwo ==
    ASSUME NEW a \in Int, NEW b \in Int
    PROVE  Min({a, b}) \in {a, b}
<1>1. \E x \in {a, b} : \A y \in {a, b} : x <= y
  OBVIOUS
<1> QED BY <1>1 DEF Min

\* A session lasts some time whatever the MX of its search (search_window, SESSION_WINDOW).
LEMMA WindowPositive == \A mx \in MXs : window(mx) \in Window
<1> SUFFICES ASSUME NEW mx \in MXs PROVE window(mx) \in Window
    OBVIOUS
<1>1. mx \in Int
  BY SearchesAssumption DEF NoMX
<1>2. Min({mx, MX_MAX}) \in Int
  BY <1>1, MinOfTwo DEF MX_MAX
<1>3. parse_msearch_mx(mx) \in Int /\ 1 <= parse_msearch_mx(mx)
  BY <1>2, MaxOfTwo DEF parse_msearch_mx, MX_MIN
<1> QED BY <1>3 DEF window, search_window, SESSION_WINDOW, SESSION_GRACE, MSEARCH_MX_DEFAULT, Window


\* Nothing is searched at first.
LEMMA InitIInv == Init => IInv
<1> SUFFICES ASSUME Init PROVE IInv
    OBVIOUS
<1>1. DOMAIN sessions = {} /\ DOMAIN registrations = {}
  BY DEF Init
<1>2. Types /\ KeysMade /\ Covered
  BY <1>1 DEF Init, Types, KeysMade, Covered, Scopes
<1>3. IsFiniteSet(DOMAIN sessions) /\ Cardinality(DOMAIN sessions) = 0
  BY <1>1, FS_EmptySet
<1>4. SessionsInStep
  BY <1>1, <1>3, SearchesAssumption DEF SessionsInStep, ResponseKeys
<1> QED BY <1>2, <1>3, <1>4 DEF IInv

\* A retransmit keeps the port and the registration, and does not shorten the session.
LEMMA RefreshIInv ==
    ASSUME IInv, NEW key \in SearchKey, NEW left \in Window, Refresh(key, left)
    PROVE  IInv'
<1> USE DEF Window
<1> DEFINE longer == Max({sessions[key].expiry, left})
<1>1. key \in DOMAIN sessions /\ sessions[key] \in Session
  BY DEF Refresh, IInv, Types
<1>2. longer \in Nat /\ sessions[key].expiry <= longer /\ left <= longer
  <2>1. sessions[key].expiry \in Nat /\ left \in Nat
    BY <1>1 DEF Session
  <2>2. sessions[key].expiry \in Int /\ left \in Int
    BY <2>1
  <2>3. longer \in {sessions[key].expiry, left} /\ sessions[key].expiry <= longer /\ left <= longer
    BY <2>2, MaxOfTwo, Zenon
  <2> HIDE DEF longer
  <2> QED BY <2>1, <2>3
<1> HIDE DEF longer
<1>3. DOMAIN sessions' = DOMAIN sessions
  BY <1>1 DEF Refresh, WithSession
<1>4. \A k \in DOMAIN sessions :
         /\ sessions'[k] \in Session
         /\ sessions'[k].source = sessions[k].source
         /\ sessions'[k].response_key = sessions[k].response_key
         /\ sessions[k].expiry <= sessions'[k].expiry
  <2> SUFFICES ASSUME NEW k \in DOMAIN sessions
               PROVE  /\ sessions'[k] \in Session
                      /\ sessions'[k].source = sessions[k].source
                      /\ sessions'[k].response_key = sessions[k].response_key
                      /\ sessions[k].expiry <= sessions'[k].expiry
      OBVIOUS
  <2>1. sessions[k] \in Session
    BY DEF IInv, Types
  <2>2. CASE k = key
    <3>1. sessions'[k] = [sessions[key] EXCEPT !.expiry = longer]
      BY <1>1, <2>2 DEF Refresh, WithSession, Extend, longer
    <3> QED BY <3>1, <2>1, <2>2, <1>2 DEF Session
  <2>3. CASE k # key
    <3>1. sessions'[k] = sessions[k]
      BY <2>3 DEF Refresh, WithSession
    <3> QED BY <3>1, <2>1 DEF Session
  <2> QED BY <2>2, <2>3
<1>5. sessions'[key].expiry = longer
  BY <1>1 DEF Refresh, WithSession, Extend, longer, Session
<1>6. Types'
  <2>1. sessions' \in [DOMAIN sessions -> Session]
    BY <1>3, <1>4 DEF Refresh, WithSession
  <2>2. Asked(key, sessions[key].source, left) \in [searcher : Searchers, source : SessionSource, left : Window]
    BY <1>1 DEF Asked, Session, SearchKey
  <2> QED BY <1>3, <2>1, <2>2 DEF Refresh, IInv, Types
<1>7. KeysMade'
  BY <1>3, <1>4 DEF Refresh, IInv, Types, KeysMade, Session
<1>8. SessionsInStep'
  <2>1. ResponseKeys(DOMAIN sessions)' = ResponseKeys(DOMAIN sessions)
    BY <1>3, <1>4 DEF ResponseKeys
  <2> QED BY <1>3, <1>4, <2>1 DEF Refresh, IInv, SessionsInStep
<1>9. Covered'
  <2> SUFFICES ASSUME NEW a \in asked' PROVE HasSession(a)'
      BY DEF Covered
  <2>1. CASE a \in asked
    <3>1. PICK k \in DOMAIN sessions : k.searcher = a.searcher /\ sessions[k].source = a.source
                                       /\ a.left <= sessions[k].expiry
      BY <2>1 DEF IInv, Covered, HasSession
    <3>2. a.left \in Nat /\ sessions[k].expiry \in Nat /\ sessions'[k].expiry \in Nat
      BY <2>1, <1>4 DEF IInv, Types, Session
    <3>3. a.left <= sessions'[k].expiry
      BY <3>1, <3>2, <1>4
    <3> QED BY <3>1, <3>3, <1>3, <1>4 DEF HasSession
  <2>2. CASE a = Asked(key, sessions[key].source, left)
    BY <2>2, <1>1, <1>2, <1>3, <1>4, <1>5 DEF HasSession, Asked
  <2> QED BY <2>1, <2>2 DEF Refresh
<1> QED BY <1>3, <1>6, <1>7, <1>8, <1>9 DEF IInv


\* A new session takes a port that none holds and a key that none was given; when its search cannot be
\* sent, nothing is left of it.
LEMMA OpenIInv ==
    ASSUME IInv, NEW key \in SearchKey, NEW left \in Window, Open(key, left)
    PROVE  IInv'
<1> USE DEF Window
<1> DEFINE Outcome(source) ==
             \/ /\ registrations' = register(registrations, made + 1, source, key.searcher)
                /\ sessions' = WithSession(key, [expiry |-> left, source |-> source,
                                                 response_key |-> made + 1])
                /\ asked' = asked \union {Asked(key, source, left)}
             \/ /\ registrations' = unregister(register(registrations, made + 1, source, key.searcher), {made + 1})
                /\ UNCHANGED <<sessions, asked>>
<1>a. PICK scope \in destination(key.dest) :
         \E addr \in reply_source(scope) : \E port \in Free(addr) : Outcome([addr |-> addr, port |-> port])
  BY DEF Open
<1>b. PICK addr \in reply_source(scope) : \E port \in Free(addr) : Outcome([addr |-> addr, port |-> port])
  BY <1>a
<1>1. PICK port \in Free(addr) : Outcome([addr |-> addr, port |-> port])
  BY <1>b
<1> DEFINE source == [addr |-> addr, port |-> port]
           session == [expiry |-> left, source |-> source, response_key |-> made + 1]
<1>2. scope \in Scopes
  BY SearchesAssumption DEF destination, SearchKey, Groups, Scopes, Link, IInv, Types
<1>3. /\ source \in SessionSource
      /\ addrs[source.addr.scope] = source.addr.version
      /\ \A k \in DOMAIN sessions : sessions[k].source # source
  BY <1>2 DEF reply_source, Free, Reserved, Range, SessionSource, Address, IInv, Types
<1>4. session \in Session
  BY <1>3 DEF Session, IInv, Types
<1>5. /\ made' = made + 1 /\ peers' = peers /\ addrs' = addrs /\ changes' = changes /\ made \in Nat
      /\ key \notin DOMAIN sessions /\ Cardinality(DOMAIN sessions) < MAX_SESSIONS
  BY DEF Open, UnderCap, IInv, Types
<1>6. made + 1 \notin DOMAIN registrations
  BY <1>5 DEF IInv, SessionsInStep, ResponseKeys, KeysMade, Types, Session
<1> HIDE DEF source, session
<1>7. CASE /\ registrations' = register(registrations, made + 1, source, key.searcher)
           /\ sessions' = WithSession(key, session)
           /\ asked' = asked \union {Asked(key, source, left)}
  <2>1. /\ DOMAIN sessions' = DOMAIN sessions \union {key}
        /\ sessions'[key] = session
        /\ \A k \in DOMAIN sessions : sessions'[k] = sessions[k]
    BY <1>5, <1>7 DEF WithSession
  <2>2. /\ DOMAIN registrations' = DOMAIN registrations \union {made + 1}
        /\ registrations'[made + 1] = [source |-> source, to |-> key.searcher]
        /\ \A n \in DOMAIN registrations : registrations'[n] = registrations[n]
    BY <1>6, <1>7 DEF register
  <2>3. session.source = source /\ session.response_key = made + 1 /\ session.expiry = left
    BY DEF session
  <2>4. Types'
    <3>1. sessions' \in [DOMAIN sessions' -> Session]
      BY <1>4, <1>7, <2>1 DEF WithSession, IInv, Types
    <3>2. Asked(key, source, left) \in [searcher : Searchers, source : SessionSource, left : Window]
      BY <1>3 DEF Asked, SearchKey
    <3> QED BY <1>5, <1>7, <2>1, <3>1, <3>2 DEF IInv, Types
  <2>5. KeysMade'
    BY <1>5, <2>1, <2>3 DEF KeysMade, IInv, Types, Session
  <2>6. /\ IsFiniteSet(DOMAIN sessions)'
        /\ (Cardinality(DOMAIN sessions) <= MAX_SESSIONS)'
    <3>1. /\ IsFiniteSet(DOMAIN sessions \union {key})
          /\ Cardinality(DOMAIN sessions \union {key}) = Cardinality(DOMAIN sessions) + 1
      BY <1>5, FS_AddElement, Zenon DEF IInv
    <3>2. Cardinality(DOMAIN sessions) \in Nat
      BY FS_CardinalityType DEF IInv
    <3> QED BY <1>5, <2>1, <3>1, <3>2, SearchesAssumption
  <2>7. SessionsInStep'
    <3>1. (DOMAIN registrations = ResponseKeys(DOMAIN sessions))'
      <4>1. ResponseKeys(DOMAIN sessions)' = ResponseKeys(DOMAIN sessions) \union {made + 1}
        BY <2>1, <2>3 DEF ResponseKeys
      <4> QED BY <4>1, <2>2 DEF IInv, SessionsInStep
    <3>2. \A j, k \in DOMAIN sessions' : sessions'[j].source = sessions'[k].source => j = k
      BY <1>3, <2>1, <2>3 DEF IInv, SessionsInStep
    <3>3. \A k \in DOMAIN sessions' :
             /\ registrations'[sessions'[k].response_key] = [source |-> sessions'[k].source, to |-> k.searcher]
             /\ addrs'[sessions'[k].source.addr.scope] = sessions'[k].source.addr.version
      <4> SUFFICES ASSUME NEW k \in DOMAIN sessions'
                   PROVE  /\ registrations'[sessions'[k].response_key] =
                               [source |-> sessions'[k].source, to |-> k.searcher]
                          /\ addrs'[sessions'[k].source.addr.scope] = sessions'[k].source.addr.version
          OBVIOUS
      <4>1. CASE k = key
        BY <4>1, <1>3, <1>5, <2>1, <2>2, <2>3
      <4>2. CASE k \in DOMAIN sessions
        <5>1. sessions[k].response_key \in DOMAIN registrations
          BY <4>2 DEF IInv, SessionsInStep, ResponseKeys
        <5> QED BY <4>2, <5>1, <1>5, <2>1, <2>2 DEF IInv, SessionsInStep
      <4> QED BY <4>1, <4>2, <2>1
    <3> QED BY <2>6, <3>1, <3>2, <3>3 DEF SessionsInStep
  <2>8. Covered'
    <3> SUFFICES ASSUME NEW a \in asked' PROVE HasSession(a)'
        BY DEF Covered
    <3>1. CASE a \in asked
      BY <3>1, <2>1 DEF IInv, Covered, HasSession
    <3>2. CASE a = Asked(key, source, left)
      BY <3>2, <2>1, <2>3 DEF HasSession, Asked
    <3> QED BY <1>7, <3>1, <3>2
  <2> QED BY <2>4, <2>5, <2>6, <2>7, <2>8 DEF IInv
<1>8. CASE /\ registrations' = unregister(register(registrations, made + 1, source, key.searcher), {made + 1})
           /\ UNCHANGED <<sessions, asked>>
  <2>1. /\ DOMAIN registrations' = DOMAIN registrations
        /\ \A n \in DOMAIN registrations : registrations'[n] = registrations[n]
    BY <1>6, <1>8 DEF register, unregister
  <2>2. Types' /\ KeysMade' /\ Covered' /\ IsFiniteSet(DOMAIN sessions)'
    BY <1>5, <1>8 DEF IInv, Types, KeysMade, Covered, HasSession, Session
  <2>3. SessionsInStep'
    <3>1. \A k \in DOMAIN sessions : sessions[k].response_key \in DOMAIN registrations
      BY DEF IInv, SessionsInStep, ResponseKeys
    <3>2. sessions' = sessions /\ ResponseKeys(DOMAIN sessions)' = ResponseKeys(DOMAIN sessions)
      BY <1>8 DEF ResponseKeys
    <3> QED BY <1>5, <2>1, <3>1, <3>2 DEF IInv, SessionsInStep
  <2> QED BY <2>2, <2>3 DEF IInv
<1> QED BY <1>1, <1>7, <1>8 DEF source, session


\* The sweep drops expired sessions with their registrations, and no search that still waits has one.
LEMMA DeadlineIInv == IInv /\ on_deadline => IInv'
<1> SUFFICES ASSUME IInv, on_deadline PROVE IInv'
    OBVIOUS
<1> USE DEF Window
<1> DEFINE due == {k \in DOMAIN sessions : Expired(sessions[k])}
           stay == DOMAIN sessions \ due
<1>1. /\ registrations' = unregister(registrations, ResponseKeys(due))
      /\ sessions' = Keeping(stay)
      /\ UNCHANGED <<peers, addrs, made, changes, asked>>
  BY DEF on_deadline
<1>2. /\ DOMAIN sessions' = stay
      /\ \A k \in stay : sessions'[k] = sessions[k]
  BY <1>1 DEF Keeping
<1>3. \A k \in stay : k \in DOMAIN sessions /\ 0 < sessions[k].expiry
  BY DEF Expired, IInv, Types, Session
<1>4. \A k \in DOMAIN sessions : 0 < sessions[k].expiry => k \in stay
  BY DEF Expired, IInv, Types, Session
<1>5. ASSUME NEW j \in DOMAIN sessions, NEW k \in DOMAIN sessions,
             sessions[j].response_key = sessions[k].response_key
      PROVE  j = k
  <2>1. [source |-> sessions[j].source, to |-> j.searcher] = [source |-> sessions[k].source, to |-> k.searcher]
    BY <1>5 DEF IInv, SessionsInStep
  <2>2. sessions[j].source = sessions[k].source
    BY <2>1
  <2> QED BY <2>2 DEF IInv, SessionsInStep
<1>6. DOMAIN registrations' = {sessions[k].response_key : k \in stay}
  BY <1>1, <1>5 DEF unregister, ResponseKeys, IInv, SessionsInStep
<1>7. \A k \in stay : registrations'[sessions[k].response_key] = registrations[sessions[k].response_key]
  BY <1>1, <1>6 DEF unregister
<1>8. stay \subseteq DOMAIN sessions
  OBVIOUS
<1> HIDE DEF due, stay
<1>9. Types'
  <2>1. sessions' \in [DOMAIN sessions' -> Session]
    BY <1>1, <1>2, <1>8 DEF Keeping, IInv, Types
  <2> QED BY <1>1, <1>2, <1>8, <2>1 DEF IInv, Types
<1>10. KeysMade'
  BY <1>1, <1>2, <1>8 DEF IInv, KeysMade
<1>11. /\ IsFiniteSet(DOMAIN sessions)'
       /\ (Cardinality(DOMAIN sessions) <= MAX_SESSIONS)'
  <2>1. IsFiniteSet(stay) /\ Cardinality(stay) <= Cardinality(DOMAIN sessions)
    BY <1>8, FS_Subset DEF IInv
  <2>2. Cardinality(stay) \in Nat /\ Cardinality(DOMAIN sessions) \in Nat
    BY <2>1, FS_CardinalityType DEF IInv
  <2> QED BY <1>2, <2>1, <2>2, SearchesAssumption DEF IInv, SessionsInStep
<1>12. SessionsInStep'
  <2>1. ResponseKeys(DOMAIN sessions)' = {sessions[k].response_key : k \in stay}
    BY <1>2 DEF ResponseKeys
  <2>2. \A j, k \in stay : sessions[j].source = sessions[k].source => j = k
    BY <1>8 DEF IInv, SessionsInStep
  <2>3. \A k \in stay :
           /\ registrations'[sessions[k].response_key] = [source |-> sessions[k].source, to |-> k.searcher]
           /\ addrs[sessions[k].source.addr.scope] = sessions[k].source.addr.version
    BY <1>7, <1>8 DEF IInv, SessionsInStep
  <2> QED BY <1>1, <1>2, <1>6, <1>11, <2>1, <2>2, <2>3 DEF SessionsInStep
<1>13. Covered'
  <2> SUFFICES ASSUME NEW a \in asked PROVE HasSession(a)'
      BY <1>1 DEF Covered
  <2>1. PICK k \in DOMAIN sessions : k.searcher = a.searcher /\ sessions[k].source = a.source
                                     /\ a.left <= sessions[k].expiry
    BY DEF IInv, Covered, HasSession
  <2>2. a.left \in Nat \ {0} /\ sessions[k].expiry \in Nat
    BY DEF IInv, Types, Session
  <2>3. k \in stay
    BY <1>4, <2>1, <2>2
  <2> QED BY <1>2, <2>1, <2>3 DEF HasSession
<1> QED BY <1>9, <1>10, <1>11, <1>12, <1>13 DEF IInv

\* A change of the target drops every session; one of the source none.
LEMMA ChangeIInv == IInv /\ on_iface_change => IInv'
<1> SUFFICES ASSUME IInv, on_iface_change PROVE IInv'
    OBVIOUS
<1>1. PICK captures \in {{"source"}, {"target"}, {"source", "target"}}, scope \in Scopes :
         /\ changes' = changes + 1
         /\ IF "target" \in captures
            THEN \E version \in {0, addrs[scope], changes + 2} :
                     addrs' = [addrs EXCEPT ![scope] = version]
            ELSE UNCHANGED addrs
         /\ IF Stales(captures)
            THEN /\ registrations' = unregister(registrations, ResponseKeys(DOMAIN sessions))
                 /\ sessions' = <<>>
            ELSE UNCHANGED <<registrations, sessions>>
         /\ asked' = IF "target" \in captures THEN {} ELSE asked
         /\ UNCHANGED <<peers, made>>
  BY DEF on_iface_change
<1>2. CASE "target" \in captures
  <2>1. DOMAIN sessions' = {} /\ DOMAIN registrations' = {} /\ asked' = {}
    <3>1. sessions' = <<>> /\ asked' = {}
          /\ registrations' = unregister(registrations, ResponseKeys(DOMAIN sessions))
      BY <1>1, <1>2 DEF Stales
    <3>2. DOMAIN registrations = ResponseKeys(DOMAIN sessions)
      BY DEF IInv, SessionsInStep
    <3>3. DOMAIN registrations' = DOMAIN registrations \ ResponseKeys(DOMAIN sessions)
      BY <3>1 DEF unregister
    <3> QED BY <3>1, <3>2, <3>3
  <2>2. addrs' \in [Scopes -> Nat]
    BY <1>1, <1>2 DEF IInv, Types
  <2>3. IsFiniteSet(DOMAIN sessions') /\ Cardinality(DOMAIN sessions') = 0
    BY <2>1, FS_EmptySet
  <2>4. Types' /\ KeysMade' /\ Covered'
    BY <1>1, <1>2, <2>1, <2>2 DEF Stales, IInv, Types, KeysMade, Covered
  <2>5. SessionsInStep'
    BY <2>1, <2>3, SearchesAssumption DEF SessionsInStep, ResponseKeys
  <2> QED BY <2>3, <2>4, <2>5 DEF IInv
<1>3. CASE "target" \notin captures
  <2>1. UNCHANGED <<peers, addrs, sessions, registrations, made, asked>> /\ changes' = changes + 1
    BY <1>1, <1>3 DEF Stales
  <2> QED BY <2>1 DEF IInv, Types, KeysMade, Covered, HasSession, SessionsInStep, ResponseKeys
<1> QED BY <1>2, <1>3


\* What is left of a time after a second.
LEMMA ElapseBy == \A n \in Nat : Elapse(n) = IF n = 0 THEN 0 ELSE n - 1
<1> SUFFICES ASSUME NEW n \in Nat PROVE Elapse(n) = IF n = 0 THEN 0 ELSE n - 1
    OBVIOUS
<1> DEFINE less == n - 1
<1>1. less \in Int /\ 0 \in Int
  OBVIOUS
<1> HIDE DEF less
<1>2. Max({less, 0}) \in {less, 0} /\ less <= Max({less, 0}) /\ 0 <= Max({less, 0})
  BY <1>1, MaxOfTwo
<1> QED BY <1>2 DEF Elapse, less

\* A second passes for the sessions and for the searches that wait.
LEMMA TickIInv == IInv /\ Tick => IInv'
<1> SUFFICES ASSUME IInv, Tick PROVE IInv'
    OBVIOUS
<1> USE DEF Window
<1>1. /\ sessions' = [k \in DOMAIN sessions |-> [sessions[k] EXCEPT !.expiry = Elapse(@)]]
      /\ asked' = {[a EXCEPT !.left = Elapse(@)] : a \in {x \in asked : x.left > 1}}
      /\ UNCHANGED <<peers, addrs, registrations, made, changes>>
  BY DEF Tick
<1>2. \A k \in DOMAIN sessions :
         /\ sessions'[k] \in Session
         /\ sessions'[k].source = sessions[k].source
         /\ sessions'[k].response_key = sessions[k].response_key
         /\ sessions'[k].expiry = IF sessions[k].expiry = 0 THEN 0 ELSE sessions[k].expiry - 1
  <2> SUFFICES ASSUME NEW k \in DOMAIN sessions
               PROVE  /\ sessions'[k] \in Session
                      /\ sessions'[k].source = sessions[k].source
                      /\ sessions'[k].response_key = sessions[k].response_key
                      /\ sessions'[k].expiry = IF sessions[k].expiry = 0 THEN 0 ELSE sessions[k].expiry - 1
      OBVIOUS
  <2>1. sessions[k] \in Session
    BY DEF IInv, Types
  <2>2. sessions'[k] = [sessions[k] EXCEPT !.expiry = Elapse(sessions[k].expiry)]
    BY <1>1
  <2>3. Elapse(sessions[k].expiry) = IF sessions[k].expiry = 0 THEN 0 ELSE sessions[k].expiry - 1
    BY <2>1, ElapseBy DEF Session
  <2> QED BY <2>1, <2>2, <2>3 DEF Session
<1>3. DOMAIN sessions' = DOMAIN sessions /\ sessions' \in [DOMAIN sessions -> Session]
  BY <1>1, <1>2, Zenon
<1>4. ASSUME NEW a \in asked'
      PROVE  \E b \in asked : /\ 1 < b.left
                              /\ a = [b EXCEPT !.left = b.left - 1]
                              /\ b \in [searcher : Searchers, source : SessionSource, left : Window]
  <2>1. PICK b \in asked : b.left > 1 /\ a = [b EXCEPT !.left = Elapse(b.left)]
    BY <1>1, <1>4
  <2>2. b \in [searcher : Searchers, source : SessionSource, left : Window]
    BY DEF IInv, Types
  <2>3. Elapse(b.left) = b.left - 1
    BY <2>1, <2>2, ElapseBy
  <2> QED BY <2>1, <2>2, <2>3
<1>5. Types'
  <2>1. asked' \subseteq [searcher : Searchers, source : SessionSource, left : Window]
    <3> SUFFICES ASSUME NEW a \in asked' PROVE a \in [searcher : Searchers, source : SessionSource, left : Window]
        OBVIOUS
    <3>1. PICK b \in asked : /\ 1 < b.left /\ a = [b EXCEPT !.left = b.left - 1]
                             /\ b \in [searcher : Searchers, source : SessionSource, left : Window]
      BY <1>4
    <3> QED BY <3>1
  <2> QED BY <1>1, <1>3, <2>1 DEF IInv, Types
<1>6. KeysMade'
  BY <1>1, <1>2, <1>3, Zenon DEF IInv, KeysMade
<1>7. SessionsInStep'
  <2>1. ResponseKeys(DOMAIN sessions)' = ResponseKeys(DOMAIN sessions)
    BY <1>2, <1>3 DEF ResponseKeys
  <2>2. DOMAIN registrations' = ResponseKeys(DOMAIN sessions)'
    BY <1>1, <2>1 DEF IInv, SessionsInStep
  <2>3. \A j, k \in DOMAIN sessions' : sessions'[j].source = sessions'[k].source => j = k
    BY <1>2, <1>3 DEF IInv, SessionsInStep
  <2>4. \A k \in DOMAIN sessions' :
           /\ registrations'[sessions'[k].response_key]
                = [source |-> sessions'[k].source, to |-> k.searcher]
           /\ addrs'[sessions'[k].source.addr.scope] = sessions'[k].source.addr.version
    <3>1. \A k \in DOMAIN sessions :
             /\ registrations[sessions[k].response_key]
                  = [source |-> sessions[k].source, to |-> k.searcher]
             /\ addrs[sessions[k].source.addr.scope] = sessions[k].source.addr.version
      BY DEF IInv, SessionsInStep
    <3>2. registrations' = registrations /\ addrs' = addrs /\ DOMAIN sessions' = DOMAIN sessions
      BY <1>1, <1>3
    <3>3. \A k \in DOMAIN sessions : sessions'[k].source = sessions[k].source
                                      /\ sessions'[k].response_key = sessions[k].response_key
      BY <1>2
    <3> QED BY <3>1, <3>2, <3>3
  <2>5. Cardinality(DOMAIN sessions') <= MAX_SESSIONS
    BY <1>3 DEF IInv, SessionsInStep
  <2> QED BY <2>2, <2>3, <2>4, <2>5 DEF SessionsInStep
<1>8. Covered'
  <2> SUFFICES ASSUME NEW a \in asked' PROVE HasSession(a)'
      BY DEF Covered
  <2>1. PICK b \in asked : /\ 1 < b.left /\ a = [b EXCEPT !.left = b.left - 1]
                           /\ b \in [searcher : Searchers, source : SessionSource, left : Window]
    BY <1>4
  <2>2. PICK k \in DOMAIN sessions : k.searcher = b.searcher /\ sessions[k].source = b.source
                                     /\ b.left <= sessions[k].expiry
    BY DEF IInv, Covered, HasSession
  <2>3. sessions[k].expiry \in Nat /\ b.left \in Nat
    BY <2>1 DEF IInv, Types, Session
  <2>4. a.searcher = b.searcher /\ a.source = b.source /\ a.left = b.left - 1
    BY <2>1
  <2>5. a.left <= sessions'[k].expiry
    BY <1>2, <2>1, <2>2, <2>3, <2>4
  <2> QED BY <1>2, <1>3, <2>2, <2>4, <2>5 DEF HasSession
<1> QED BY <1>3, <1>5, <1>6, <1>7, <1>8 DEF IInv

\* Every step of the reflector keeps the invariant.
LEMMA NextIInv == IInv /\ [Next]_vars => IInv'
<1> SUFFICES ASSUME IInv, [Next]_vars PROVE IInv'
    OBVIOUS
<1>1. CASE on_packet
  <2>1. PICK searcher \in Searchers, group \in Groups, mx \in MXs :
           \/ Refresh([searcher |-> searcher, dest |-> group], window(mx))
           \/ Open([searcher |-> searcher, dest |-> group], window(mx))
    BY <1>1 DEF on_packet
  <2>2. [searcher |-> searcher, dest |-> group] \in SearchKey /\ window(mx) \in Window
    BY WindowPositive DEF SearchKey
  <2> QED BY <2>1, <2>2, RefreshIInv, OpenIInv
<1>2. CASE UNCHANGED vars
  BY <1>2 DEF vars, IInv, Types, KeysMade, Covered, HasSession, SessionsInStep, ResponseKeys
<1> QED BY <1>1, <1>2, DeadlineIInv, ChangeIInv, TickIInv DEF Next

\* A search that is waited for has one registration for its port, that of its searcher.
LEMMA CoveredIsAnswered == IInv => RepliesComeBack
<1> SUFFICES ASSUME IInv, NEW a \in asked
             PROVE  {r.to : r \in {x \in Range(registrations) : x.source = a.source}} = {a.searcher}
    BY DEF RepliesComeBack
<1>1. PICK k \in DOMAIN sessions : k.searcher = a.searcher /\ sessions[k].source = a.source
  BY DEF IInv, Covered, HasSession
<1>2. \A n \in DOMAIN registrations :
         \E j \in DOMAIN sessions : n = sessions[j].response_key
  BY DEF IInv, SessionsInStep, ResponseKeys
<1>3. \A j \in DOMAIN sessions :
         /\ sessions[j].response_key \in DOMAIN registrations
         /\ registrations[sessions[j].response_key] = [source |-> sessions[j].source, to |-> j.searcher]
         /\ sessions[j].source = sessions[k].source => j = k
  BY DEF IInv, SessionsInStep, ResponseKeys
<1>4. ASSUME NEW r \in Range(registrations), r.source = a.source
      PROVE  r.to = a.searcher
  <2>1. PICK j \in DOMAIN sessions : r = [source |-> sessions[j].source, to |-> j.searcher]
    <3>1. PICK n \in DOMAIN registrations : r = registrations[n]
      BY DEF Range
    <3>2. PICK i \in DOMAIN sessions : n = sessions[i].response_key
      BY <1>2
    <3>3. r = [source |-> sessions[i].source, to |-> i.searcher]
      BY <1>3, <3>1, <3>2
    <3> QED BY <3>3
  <2> QED BY <1>1, <1>3, <1>4, <2>1
<1>5. \E r \in Range(registrations) : r.source = a.source /\ r.to = a.searcher
  <2>1. [source |-> a.source, to |-> a.searcher] \in Range(registrations)
    BY <1>1, <1>3, Zenon DEF Range
  <2> QED BY <2>1
<1> QED BY <1>4, <1>5

\* The invariant holds throughout.
LEMMA SessionsInvariant == Spec => []IInv
BY InitIInv, NextIInv, PTL DEF Spec

\* Sessions, their registrations and their ports stay one to one, on current addresses and under the
\* cap, whatever fails, expires or changes (search.rs: on_packet, on_deadline, on_iface_change).
THEOREM SessionsStayInStep == Spec => []SessionsInStep
<1>1. IInv => SessionsInStep
  BY DEF IInv
<1> QED BY <1>1, SessionsInvariant, PTL

\* Answers that come within the window their search asked for go back to its searcher and to no other
\* (make_session: "Extend, never shorten").
THEOREM AnswersComeBack == Spec => []RepliesComeBack
BY CoveredIsAnswered, SessionsInvariant, PTL

(* ------------------------- the registry's invariant ------------------------ *)

Entry == [handler : Nat, desc_addr : Nat, grace : Nat]
Conn == [n : Nat \ {0}, to : Devices]
WatchedEnds == Listeners \union {"client", "device"}
Proxy == [key : Keys, conns : SUBSET Conn, rest_endpoint : Devices \union {None},
          watched : SUBSET (Nat \X WatchedEnds), pending : [Listeners -> Nat]]
Telling == [key : Keys, address : Nat, left : Nat]

\* A proxy watches what it has, and its connections are numbered apart.
Sound(p) ==
    /\ p \in Proxy
    /\ p.watched = Watches(p.conns)
    /\ IsFiniteSet(p.conns)
    /\ \A c, d \in p.conns : c.n = d.n => c = d

\* The registry's entries and the proxies that run.
RegistryShape ==
    /\ minted \in Nat
    /\ live \in [DOMAIN live -> Proxy] /\ DOMAIN live \subseteq 1 .. minted
    /\ proxies \in [DOMAIN proxies -> Entry] /\ DOMAIN proxies \subseteq Keys

\* An entry has the address of its handler, and a handler that runs is of the entry's key.
EntryNames(k) ==
    LET entry == proxies[k]
    IN  /\ entry.desc_addr = entry.handler /\ entry.handler \in 1 .. minted
        /\ entry.handler \in DOMAIN live => live[entry.handler].key = k

\* A proxy that runs is the one of its key's entry.
ProxyNamed(h) ==
    /\ live[h].key \in DOMAIN proxies /\ proxies[live[h].key].handler = h
    /\ Sound(live[h])

\* What was told is of a proxy that runs, and its entry outlives it.
Kept(t) ==
    /\ t \in Telling /\ t.left > 0
    /\ t.address \in DOMAIN live /\ live[t.address].key = t.key
    /\ t.left <= proxies[t.key].grace

Capped ==
    /\ Cardinality(DOMAIN live) <= MAX_DIAL_PROXIES
    /\ result = "cap" => Cardinality(DOMAIN live) = MAX_DIAL_PROXIES

RegistryIInv ==
    /\ RegistryShape
    /\ \A k \in DOMAIN proxies : EntryNames(k)
    /\ \A h \in DOMAIN live : ProxyNamed(h)
    /\ Capped
    /\ \A t \in told : Kept(t)

\* The invariant is strong enough.
LEMMA Accounted == RegistryIInv => ProxiesAccounted /\ ToldIsServed
BY DEF RegistryIInv, ProxyNamed, Sound, Capped, Kept, ProxiesAccounted, ToldIsServed

\* A grace is some time.
LEMMA Grace == \A age \in Ages : max_age(age) \in Nat \ {0}
<1> SUFFICES ASSUME NEW age \in Ages PROVE max_age(age) \in Nat \ {0}
    OBVIOUS
<1>1. DEFAULT_DESC_GRACE \in Nat \ {0} /\ MAX_DESC_GRACE \in Nat \ {0}
  BY DialRegistryAssumption
<1>2. CASE age = NoMaxAge
  BY <1>1, <1>2 DEF max_age
<1>3. CASE age # NoMaxAge
  <2>1. age = MAX_DESC_GRACE + 1
    BY <1>3 DEF Ages
  <2>2. Min({age, MAX_DESC_GRACE}) = MAX_DESC_GRACE
    BY <1>1, <2>1 DEF Min
  <2> QED BY <1>1, <1>3, <2>2 DEF max_age
<1> QED BY <1>2, <1>3

\* The handlers that run are finitely many.
LEMMA Finite == RegistryIInv => IsFiniteSet(DOMAIN live) /\ Cardinality(DOMAIN live) \in Nat
<1> SUFFICES ASSUME RegistryIInv PROVE IsFiniteSet(DOMAIN live) /\ Cardinality(DOMAIN live) \in Nat
    OBVIOUS
<1>1. minted \in Nat /\ DOMAIN live \in SUBSET (1 .. minted)
  BY DEF RegistryIInv, RegistryShape
<1>2. IsFiniteSet(1 .. minted)
  BY <1>1, FS_Interval
<1>3. IsFiniteSet(DOMAIN live)
  BY <1>1, <1>2, FS_Subset
<1> QED BY <1>3, FS_CardinalityType

\* The entries of proxies that run are as many as the proxies (has_capacity counts them).
LEMMA Counted ==
    RegistryIInv => IsFiniteSet(DOMAIN Pruned) /\ Cardinality(DOMAIN Pruned) = Cardinality(DOMAIN live)
<1> SUFFICES ASSUME RegistryIInv
             PROVE  IsFiniteSet(DOMAIN Pruned) /\ Cardinality(DOMAIN Pruned) = Cardinality(DOMAIN live)
    OBVIOUS
<1> DEFINE there == [k \in DOMAIN Pruned |-> proxies[k].handler]
           back == [h \in DOMAIN live |-> live[h].key]
<1>1. DOMAIN Pruned = {k \in DOMAIN proxies : proxies[k].handler \in DOMAIN live}
  BY DEF Pruned, is_registered
<1>2. \A k \in DOMAIN Pruned : proxies[k].handler \in DOMAIN live /\ live[proxies[k].handler].key = k
  BY <1>1 DEF RegistryIInv, EntryNames
<1>3. \A h \in DOMAIN live : live[h].key \in DOMAIN Pruned /\ proxies[live[h].key].handler = h
  BY <1>1 DEF RegistryIInv, ProxyNamed
<1>4. there \in Injection(DOMAIN Pruned, DOMAIN live)
  BY <1>2 DEF Injection, IsInjective
<1>5. back \in Injection(DOMAIN live, DOMAIN Pruned)
  BY <1>3 DEF Injection, IsInjective
<1> HIDE DEF there, back
<1>6. IsFiniteSet(DOMAIN live)
  BY Finite
<1>7. IsFiniteSet(DOMAIN Pruned) /\ Cardinality(DOMAIN Pruned) <= Cardinality(DOMAIN live)
  BY <1>4, <1>6, FS_Injection
<1>8. Cardinality(DOMAIN live) <= Cardinality(DOMAIN Pruned)
  BY <1>5, <1>7, FS_Injection
<1>9. Cardinality(DOMAIN live) \in Nat /\ Cardinality(DOMAIN Pruned) \in Nat
  BY <1>6, <1>7, FS_CardinalityType
<1> QED BY <1>7, <1>8, <1>9

\* The invariant holds of a registry with nothing in it.
LEMMA RegistryInitIInv == RegistryInit => RegistryIInv
<1> SUFFICES ASSUME RegistryInit PROVE RegistryIInv
    OBVIOUS
<1>1. DOMAIN live = {} /\ DOMAIN proxies = {} /\ told = {} /\ minted = 0 /\ result # "cap"
  BY DEF RegistryInit, None
<1>2. RegistryShape
  BY <1>1 DEF RegistryInit, RegistryShape
<1>3. Capped
  BY <1>1, FS_EmptySet, DialRegistryAssumption DEF Capped
<1> QED BY <1>1, <1>2, <1>3 DEF RegistryIInv

\* A step after which no other proxies run keeps the cap.
LEMMA Fewer ==
    ASSUME RegistryIInv, DOMAIN live' \subseteq DOMAIN live, result' # "cap"
    PROVE  Capped'
<1>1. IsFiniteSet(DOMAIN live) /\ Cardinality(DOMAIN live) \in Nat
  BY Finite
<1>2. IsFiniteSet(DOMAIN live') /\ Cardinality(DOMAIN live') <= Cardinality(DOMAIN live)
  BY <1>1, FS_Subset
<1>3. Cardinality(DOMAIN live') \in Nat
  BY <1>2, FS_CardinalityType
<1> QED BY <1>1, <1>2, <1>3, DialRegistryAssumption DEF RegistryIInv, Capped

\* A proxy that changes and stays sound.
LEMMA OneProxy ==
    ASSUME RegistryIInv, NEW h \in DOMAIN live, NEW p, Sound(p), p.key = live[h].key,
           live' = [live EXCEPT ![h] = p], result' # "cap",
           UNCHANGED <<proxies, minted, told>>
    PROVE  RegistryIInv'
<1>1. /\ DOMAIN live' = DOMAIN live /\ live'[h] = p
      /\ \A g \in DOMAIN live : g # h => live'[g] = live[g]
  OBVIOUS
<1>2. \A g \in DOMAIN live : live'[g].key = live[g].key
  BY <1>1
<1>3. RegistryShape'
  BY <1>1 DEF RegistryIInv, RegistryShape, Sound
<1>4. \A k \in DOMAIN proxies : EntryNames(k)'
  BY <1>1, <1>2 DEF RegistryIInv, EntryNames
<1>5. \A g \in DOMAIN live : ProxyNamed(g)'
  BY <1>1, <1>2 DEF RegistryIInv, ProxyNamed, Sound
<1>6. \A t \in told : Kept(t)'
  BY <1>1, <1>2 DEF RegistryIInv, Kept
<1>7. Capped'
  BY <1>1, Fewer
<1> QED BY <1>1, <1>3, <1>4, <1>5, <1>6, <1>7 DEF RegistryIInv

\* Proxies go, with their entries or not: nothing that stays named one of them.
LEMMA SomeGo ==
    ASSUME RegistryIInv, NEW H \in SUBSET DOMAIN live, live' = [h \in H |-> live[h]],
           NEW E \in SUBSET DOMAIN proxies, proxies' = [k \in E |-> proxies[k]],
           \A h \in H : live[h].key \in E,
           told' \subseteq told, \A t \in told' : t.address \in H,
           result' # "cap", minted' = minted
    PROVE  RegistryIInv'
<1>1. /\ DOMAIN live' = H /\ \A h \in H : live'[h] = live[h]
      /\ DOMAIN proxies' = E /\ \A k \in E : proxies'[k] = proxies[k]
  OBVIOUS
<1>2. RegistryShape'
  BY <1>1 DEF RegistryIInv, RegistryShape
<1>3. \A k \in E : EntryNames(k)'
  BY <1>1 DEF RegistryIInv, EntryNames
<1>4. \A h \in H : ProxyNamed(h)'
  BY <1>1 DEF RegistryIInv, ProxyNamed, Sound
<1>5. ASSUME NEW t \in told' PROVE Kept(t)'
  <2>1. Kept(t) /\ t.address \in H
    BY DEF RegistryIInv
  <2>2. t.key \in E
    BY <2>1 DEF Kept
  <2> QED BY <1>1, <2>1, <2>2 DEF Kept
<1>6. Capped'
  BY <1>1, Fewer
<1> QED BY <1>1, <1>2, <1>3, <1>4, <1>5, <1>6 DEF RegistryIInv

\* evict_where takes the proxies of these keys and their entries together.
LEMMA EvictIInv ==
    ASSUME RegistryIInv, NEW keys \in SUBSET DOMAIN proxies, evict_where(keys),
           told' \subseteq told, \A t \in told' : t.key \notin keys,
           result' # "cap", minted' = minted
    PROVE  RegistryIInv'
<1> DEFINE gone == {proxies[k].handler : k \in keys}
           H == DOMAIN live \ gone
           E == {x \in DOMAIN proxies \ keys : is_registered(proxies[x].handler)}
<1>1. live' = [h \in H |-> live[h]] /\ proxies' = [k \in E |-> proxies[k]]
  BY DEF evict_where
<1>2. ASSUME NEW h \in H PROVE live[h].key \in E
  <2>1. live[h].key \in DOMAIN proxies /\ proxies[live[h].key].handler = h
    BY DEF RegistryIInv, ProxyNamed
  <2> QED BY <2>1 DEF is_registered
<1>3. ASSUME NEW t \in told' PROVE t.address \in H
  <2>1. t.address \in DOMAIN live /\ live[t.address].key = t.key /\ t.key \notin keys
    BY DEF RegistryIInv, Kept
  <2>2. ASSUME NEW k \in keys, t.address = proxies[k].handler PROVE FALSE
    BY <2>1, <2>2 DEF RegistryIInv, EntryNames
  <2> QED BY <2>1, <2>2
<1> HIDE DEF H, E
<1>4. H \in SUBSET DOMAIN live /\ E \in SUBSET DOMAIN proxies
  BY DEF H, E
<1> QED BY <1>1, <1>2, <1>3, <1>4, SomeGo

\* A rewritten LOCATION goes out with the grace its entry was just given; the other keys' stand.
LEMMA TellKept ==
    ASSUME RegistryIInv, NEW key, NEW address, NEW grace \in Nat \ {0}, Tell(key, address, grace),
           \A t \in told : t.key # key => Kept(t)',
           key \in Keys, address \in Nat, address \in DOMAIN live', live'[address].key = key,
           grace <= proxies'[key].grace
    PROVE  \A t \in told' : Kept(t)'
<1> DEFINE new == [key |-> key, address |-> address, left |-> grace]
<1>1. new \in Telling /\ new.key = key /\ new.address = address /\ new.left = grace
  BY DEF Telling
<1> HIDE DEF new
<1>2. Kept(new)'
  BY <1>1 DEF Kept
<1>3. told' \subseteq {t \in told : t.key # key} \union {new}
  BY DEF Tell, new
<1> QED BY <1>2, <1>3

\* lookup refreshes the grace of a proxy that runs.
LEMMA ReuseIInv ==
    ASSUME RegistryIInv, NEW key \in Keys, NEW grace \in Nat \ {0}, Reuse(key, grace)
    PROVE  RegistryIInv'
<1> DEFINE entry == Refreshed(proxies[key], grace)
<1>1. key \in DOMAIN proxies /\ proxies[key].handler \in DOMAIN live
  BY DEF Reuse, is_registered
<1>2. proxies[key] \in Entry
  BY <1>1 DEF RegistryIInv, RegistryShape
<1>3. /\ entry \in Entry /\ entry.grace = grace
      /\ entry.handler = proxies[key].handler /\ entry.desc_addr = proxies[key].desc_addr
  BY <1>2 DEF Refreshed, Entry
<1>4. proxies' = Put(proxies, key, entry) /\ live' = live /\ minted' = minted /\ result' = "reused"
  BY DEF Reuse
<1> HIDE DEF entry
<1>5. /\ DOMAIN proxies' = DOMAIN proxies /\ proxies'[key] = entry
      /\ \A k \in DOMAIN proxies : k # key => proxies'[k] = proxies[k]
      /\ proxies' \in [DOMAIN proxies -> Entry]
  BY <1>1, <1>3, <1>4 DEF Put, RegistryIInv, RegistryShape
<1>6. \A k \in DOMAIN proxies :
        proxies'[k].handler = proxies[k].handler /\ proxies'[k].desc_addr = proxies[k].desc_addr
  BY <1>3, <1>5
<1>7. RegistryShape'
  BY <1>4, <1>5 DEF RegistryIInv, RegistryShape
<1>8. \A k \in DOMAIN proxies' : EntryNames(k)'
  BY <1>4, <1>5, <1>6 DEF RegistryIInv, EntryNames
<1>9. \A h \in DOMAIN live' : ProxyNamed(h)'
  BY <1>4, <1>5, <1>6 DEF RegistryIInv, ProxyNamed, Sound
<1>10. \A t \in told' : Kept(t)'
  <2>1. ASSUME NEW t \in told, t.key # key PROVE Kept(t)'
    <3>1. Kept(t)
      BY DEF RegistryIInv
    <3>2. t.key \in DOMAIN proxies
      BY <3>1 DEF Kept, RegistryIInv, ProxyNamed
    <3> QED BY <1>4, <1>5, <2>1, <3>1, <3>2 DEF Kept
  <2>2. Tell(key, proxies[key].desc_addr, grace)
    BY DEF Reuse
  <2>3. /\ proxies[key].desc_addr = proxies[key].handler
        /\ live[proxies[key].handler].key = key /\ proxies[key].handler \in Nat
    BY <1>1 DEF RegistryIInv, EntryNames
  <2>4. grace <= proxies'[key].grace
    BY <1>3, <1>5
  <2> DEFINE address == proxies[key].desc_addr
  <2>5. /\ Tell(key, address, grace) /\ address \in Nat /\ address \in DOMAIN live'
        /\ live'[address].key = key
    BY <1>1, <1>4, <2>2, <2>3, Zenon
  <2> HIDE DEF address
  <2> QED BY <2>1, <2>4, <2>5, TellKept, Zenon
<1>11. Capped'
  BY <1>4, Fewer
<1> QED BY <1>7, <1>8, <1>9, <1>10, <1>11 DEF RegistryIInv

\* Pruning leaves the entry of every proxy that runs, and of no other.
LEMMA PrunedNames ==
    ASSUME RegistryIInv
    PROVE  /\ DOMAIN Pruned \subseteq DOMAIN proxies
           /\ \A k \in DOMAIN Pruned : Pruned[k] = proxies[k] /\ proxies[k].handler \in DOMAIN live
           /\ \A h \in DOMAIN live : live[h].key \in DOMAIN Pruned
BY DEF RegistryIInv, ProxyNamed, Pruned, is_registered

\* A device that is turned away: the cap is full only when that many proxies run.
LEMMA NotMintedIInv ==
    ASSUME RegistryIInv, NEW key \in Keys, NotMinted(key)
    PROVE  RegistryIInv'
<1>1. proxies' = Pruned /\ live' = live /\ minted' = minted /\ told' = told
  BY DEF NotMinted
<1>2. RegistryShape'
  BY <1>1, PrunedNames DEF RegistryIInv, RegistryShape, Pruned
<1>3. \A k \in DOMAIN proxies' : EntryNames(k)'
  BY <1>1, PrunedNames DEF RegistryIInv, EntryNames
<1>4. \A h \in DOMAIN live' : ProxyNamed(h)'
  BY <1>1, PrunedNames DEF RegistryIInv, ProxyNamed, Sound
<1>5. ASSUME NEW t \in told' PROVE Kept(t)'
  <2>1. Kept(t)
    BY <1>1 DEF RegistryIInv
  <2>2. t.key \in DOMAIN Pruned
    BY <2>1, PrunedNames DEF Kept
  <2> QED BY <1>1, <2>1, <2>2, PrunedNames DEF Kept
<1>6. Capped'
  <2>1. result' = "cap" => Cardinality(DOMAIN Pruned) >= MAX_DIAL_PROXIES
    BY DEF NotMinted
  <2>2. Cardinality(DOMAIN Pruned) = Cardinality(DOMAIN live) /\ Cardinality(DOMAIN live) \in Nat
    BY Counted, Finite
  <2> QED BY <1>1, <2>1, <2>2, DialRegistryAssumption DEF RegistryIInv, Capped
<1> QED BY <1>2, <1>3, <1>4, <1>5, <1>6 DEF RegistryIInv

\* What a proxy watches has its type.
LEMMA WatchesTyped == \A conns \in SUBSET Conn : Watches(conns) \in SUBSET (Nat \X WatchedEnds)
BY DEF Watches, Conn, WatchedEnds, Listeners

\* A proxy that was just made is sound.
LEMMA NewIsSound == \A key \in Keys : Sound(NewProxy(key)) /\ NewProxy(key).key = key
<1> SUFFICES ASSUME NEW key \in Keys PROVE Sound(NewProxy(key)) /\ NewProxy(key).key = key
    OBVIOUS
<1> DEFINE none == {}
           p == NewProxy(key)
<1>1. none \in SUBSET Conn /\ IsFiniteSet(none)
  BY FS_EmptySet
<1>2. Watches(none) \in SUBSET (Nat \X WatchedEnds)
  BY <1>1, WatchesTyped
<1>3. p.key = key /\ p.conns = none /\ p.watched = Watches(none)
  BY DEF NewProxy
<1>4. p \in Proxy
  BY <1>1, <1>2 DEF NewProxy, Proxy
<1> QED BY <1>1, <1>3, <1>4 DEF Sound

\* mint_proxy registers a handler that no entry names, for a key that no handler has.
LEMMA MintIInv ==
    ASSUME RegistryIInv, NEW key \in Keys, NEW grace \in Nat \ {0}, Mint(key, grace)
    PROVE  RegistryIInv'
<1> DEFINE m == minted + 1
           p == NewProxy(key)
           entry == [handler |-> m, desc_addr |-> m, grace |-> grace]
<1>1. /\ key \notin DOMAIN Pruned /\ Cardinality(DOMAIN Pruned) < MAX_DIAL_PROXIES
      /\ minted' = m /\ live' = Put(live, m, p) /\ proxies' = Put(Pruned, key, entry)
      /\ result' = "minted" /\ Tell(key, m, grace)
  BY DEF Mint
<1>2. m \in Nat /\ m \notin DOMAIN live /\ m \in 1 .. m /\ 1 .. minted \subseteq 1 .. m
  BY DEF RegistryIInv, RegistryShape
<1>3. /\ entry \in Entry /\ entry.handler = m /\ entry.desc_addr = m /\ entry.grace = grace
  BY <1>2 DEF Entry
<1>4. Sound(p) /\ p.key = key
  BY NewIsSound
<1> HIDE DEF m, p, entry
<1>5. /\ DOMAIN live' = DOMAIN live \union {m} /\ live'[m] = p
      /\ \A h \in DOMAIN live : live'[h] = live[h]
  BY <1>1, <1>2 DEF Put
<1>6. /\ DOMAIN proxies' = DOMAIN Pruned \union {key} /\ proxies'[key] = entry
      /\ \A k \in DOMAIN Pruned : proxies'[k] = proxies[k]
  BY <1>1, PrunedNames DEF Put
<1>7. RegistryShape'
  <2>1. live' \in [DOMAIN live' -> Proxy]
    BY <1>1, <1>4, <1>5 DEF Put, RegistryIInv, RegistryShape, Sound
  <2>2. proxies' \in [DOMAIN proxies' -> Entry]
    BY <1>1, <1>3, <1>6, PrunedNames DEF Put, RegistryIInv, RegistryShape
  <2>3. DOMAIN live' \subseteq 1 .. m /\ DOMAIN proxies' \subseteq Keys
    BY <1>2, <1>5, <1>6, PrunedNames DEF RegistryIInv, RegistryShape
  <2> QED BY <1>1, <1>2, <2>1, <2>2, <2>3 DEF RegistryShape
<1>8. ASSUME NEW k \in DOMAIN proxies' PROVE EntryNames(k)'
  <2>1. CASE k = key
    BY <1>1, <1>2, <1>3, <1>4, <1>5, <1>6, <2>1 DEF EntryNames
  <2>2. CASE k # key
    <3>1. k \in DOMAIN Pruned /\ proxies'[k] = proxies[k] /\ proxies[k].handler \in DOMAIN live
      BY <1>6, <2>2, PrunedNames
    <3>2. EntryNames(k)
      BY <3>1, PrunedNames DEF RegistryIInv
    <3> QED BY <1>1, <1>2, <1>5, <3>1, <3>2 DEF EntryNames
  <2> QED BY <2>1, <2>2
<1>9. ASSUME NEW h \in DOMAIN live' PROVE ProxyNamed(h)'
  <2>1. CASE h = m
    BY <1>3, <1>4, <1>5, <1>6, <2>1 DEF ProxyNamed, Sound
  <2>2. CASE h # m
    <3>1. h \in DOMAIN live /\ live'[h] = live[h] /\ ProxyNamed(h) /\ live[h].key \in DOMAIN Pruned
      BY <1>5, <2>2, PrunedNames DEF RegistryIInv
    <3> QED BY <1>6, <3>1 DEF ProxyNamed, Sound
  <2> QED BY <2>1, <2>2
<1>10. \A t \in told' : Kept(t)'
  <2>1. ASSUME NEW t \in told, t.key # key PROVE Kept(t)'
    <3>1. Kept(t)
      BY DEF RegistryIInv
    <3>2. t.key \in DOMAIN Pruned
      BY <3>1, PrunedNames DEF Kept
    <3> QED BY <1>5, <1>6, <3>1, <3>2 DEF Kept
  <2> QED BY <1>1, <1>2, <1>3, <1>4, <1>5, <1>6, <2>1, TellKept
<1>11. Capped'
  <2>1. Cardinality(DOMAIN live) < MAX_DIAL_PROXIES
    BY <1>1, Counted
  <2>2. Cardinality(DOMAIN live') = Cardinality(DOMAIN live) + 1 /\ Cardinality(DOMAIN live) \in Nat
    BY <1>2, <1>5, Finite, FS_AddElement
  <2> QED BY <1>1, <2>1, <2>2, DialRegistryAssumption DEF Capped
<1> QED BY <1>7, <1>8, <1>9, <1>10, <1>11 DEF RegistryIInv

\* A rewrite of any key.
LEMMA RewriteIInv == RegistryIInv /\ rewrite_location => RegistryIInv'
BY Grace, ReuseIInv, NotMintedIInv, MintIInv DEF rewrite_location

\* The sweep takes the proxies whose grace is over: no LOCATION of theirs is still good.
LEMMA SweepRegistryIInv == RegistryIInv /\ sweep_registry => RegistryIInv'
<1> SUFFICES ASSUME RegistryIInv, sweep_registry PROVE RegistryIInv'
    OBVIOUS
<1> DEFINE due == {k \in DOMAIN proxies : proxies[k].grace = 0}
<1>1. evict_where(due) /\ result' # "cap" /\ minted' = minted /\ told' = told
  BY DEF sweep_registry, None
<1>2. \A t \in told' : t.key \notin due
  BY <1>1 DEF RegistryIInv, Kept, Telling
<1>3. due \in SUBSET DOMAIN proxies
  OBVIOUS
<1> HIDE DEF due
<1> QED BY <1>1, <1>2, <1>3, EvictIInv

\* An interface change takes the proxies of its captures and what was told of them.
LEMMA InterfaceIInv == RegistryIInv /\ evict_on_interface_change => RegistryIInv'
<1> SUFFICES ASSUME RegistryIInv, evict_on_interface_change PROVE RegistryIInv'
    OBVIOUS
<1>1. PICK capture \in {Source} \union Targets :
        /\ evict_where({k \in DOMAIN proxies : ChangedUnder(k, capture)})
        /\ told' = {t \in told : capture \notin {t.key.source, t.key.target}}
        /\ result' = None /\ minted' = minted
  BY DEF evict_on_interface_change
<1> DEFINE keys == {k \in DOMAIN proxies : ChangedUnder(k, capture)}
<1>2. evict_where(keys) /\ keys \in SUBSET DOMAIN proxies /\ result' # "cap"
  BY <1>1 DEF None
<1>3. told' \subseteq told /\ \A t \in told' : t.key \notin keys
  BY <1>1 DEF ChangedUnder
<1> HIDE DEF keys
<1> QED BY <1>1, <1>2, <1>3, EvictIInv

\* Time passes for an entry and for what was told of it alike.
LEMMA GraceTickIInv == RegistryIInv /\ GraceTick => RegistryIInv'
<1> SUFFICES ASSUME RegistryIInv, GraceTick PROVE RegistryIInv'
    OBVIOUS
<1> DEFINE Less(n) == Max({n - 1, 0})
           Older(k) == [proxies[k] EXCEPT !.grace = Max({@ - 1, 0})]
<1>1. /\ proxies' = [k \in DOMAIN proxies |-> Older(k)]
      /\ told' = {[t EXCEPT !.left = @ - 1] : t \in {x \in told : x.left > 1}}
      /\ live' = live /\ minted' = minted /\ result' # "cap"
  BY DEF GraceTick, None
<1>2. \A n \in Nat : Less(n) \in Nat /\ \A i \in Nat : i <= n => i - 1 <= Less(n)
  BY DEF Max
<1>3. ASSUME NEW k \in DOMAIN proxies
      PROVE  /\ Older(k) \in Entry /\ Older(k).grace = Less(proxies[k].grace)
             /\ Older(k).handler = proxies[k].handler /\ Older(k).desc_addr = proxies[k].desc_addr
  <2> DEFINE grace == Less(proxies[k].grace)
  <2>1. proxies[k] \in Entry
    BY DEF RegistryIInv, RegistryShape
  <2>2. grace \in Nat
    BY <1>2, <2>1 DEF Entry
  <2>3. Older(k) = [proxies[k] EXCEPT !.grace = grace]
    BY <2>1 DEF Entry
  <2> HIDE DEF grace
  <2>4. Older(k) \in Entry /\ Older(k).grace = grace /\ Older(k).handler = proxies[k].handler
        /\ Older(k).desc_addr = proxies[k].desc_addr
    BY <2>1, <2>2, <2>3 DEF Entry
  <2> QED BY <2>4 DEF grace
<1> HIDE DEF Older, Less
<1>4. DOMAIN proxies' = DOMAIN proxies /\ \A k \in DOMAIN proxies : proxies'[k] = Older(k)
  BY <1>1
<1>5. RegistryShape'
  BY <1>1, <1>3, <1>4 DEF RegistryIInv, RegistryShape
<1>6. \A k \in DOMAIN proxies' : EntryNames(k)'
  BY <1>1, <1>3, <1>4 DEF RegistryIInv, EntryNames
<1>7. \A h \in DOMAIN live' : ProxyNamed(h)'
  BY <1>1, <1>3, <1>4 DEF RegistryIInv, ProxyNamed, Sound
<1>8. ASSUME NEW u \in told' PROVE Kept(u)'
  <2>1. PICK t \in told : t.left > 1 /\ u = [t EXCEPT !.left = @ - 1]
    BY <1>1
  <2> DEFINE left == t.left - 1
  <2>2. Kept(t) /\ t \in Telling
    BY DEF RegistryIInv, Kept
  <2>3. left \in Nat /\ left > 0 /\ t.left \in Nat
    BY <2>1, <2>2 DEF Telling
  <2>4. u = [t EXCEPT !.left = left]
    BY <2>1, <2>2 DEF Telling
  <2> HIDE DEF left
  <2>5. u \in Telling /\ u.left = left /\ u.address = t.address /\ u.key = t.key
    BY <2>2, <2>3, <2>4 DEF Telling
  <2>6. t.key \in DOMAIN proxies /\ proxies[t.key].grace \in Nat
    <3>1. t.key \in DOMAIN proxies
      BY <2>2 DEF Kept, RegistryIInv, ProxyNamed
    <3>2. proxies[t.key] \in Entry
      BY <3>1 DEF RegistryIInv, RegistryShape
    <3> QED BY <3>1, <3>2 DEF Entry
  <2>7. left <= proxies'[t.key].grace
    BY <1>2, <1>3, <1>4, <2>2, <2>3, <2>6 DEF Kept, left
  <2> QED BY <1>1, <2>2, <2>3, <2>5, <2>7 DEF Kept
<1>9. Capped'
  BY <1>1, Fewer
<1> QED BY <1>5, <1>6, <1>7, <1>8, <1>9 DEF RegistryIInv

\* A proxy whose accept fails unregisters itself; its entry stays behind.
LEMMA ShedIInv ==
    ASSUME RegistryIInv, NEW h \in DOMAIN live, Shed(h), result' # "cap", UNCHANGED <<proxies, minted>>
    PROVE  RegistryIInv'
<1> DEFINE H == DOMAIN live \ {h}
<1>1. live' = [g \in H |-> live[g]] /\ told' = {t \in told : t.key # live[h].key}
  BY DEF Shed
<1>2. proxies' = [k \in DOMAIN proxies |-> proxies[k]]
  BY DEF RegistryIInv, RegistryShape
<1>3. \A g \in H : live[g].key \in DOMAIN proxies
  BY DEF RegistryIInv, ProxyNamed
<1>4. \A t \in told' : t.address \in H
  BY <1>1 DEF RegistryIInv, Kept
<1>5. H \in SUBSET DOMAIN live /\ told' \subseteq told
  BY <1>1
<1> HIDE DEF H
<1> QED BY <1>1, <1>2, <1>3, <1>4, <1>5, SomeGo

\* A proxy whose queues or whose device's REST endpoint change stays sound.
LEMMA StaysSound ==
    ASSUME NEW p, Sound(p), NEW q \in Proxy,
           q.key = p.key, q.conns = p.conns, q.watched = p.watched
    PROVE  Sound(q)
BY DEF Sound

\* A client waits at a listener.
LEMMA ClientIInv == RegistryIInv /\ ClientConnects => RegistryIInv'
<1> SUFFICES ASSUME RegistryIInv, ClientConnects PROVE RegistryIInv'
    OBVIOUS
<1>1. PICK h \in DOMAIN live, l \in Listeners :
        /\ live' = [live EXCEPT ![h].pending[l] = @ + 1]
        /\ result' = None /\ UNCHANGED <<proxies, minted, told>>
  BY Zenon DEF ClientConnects
<1> DEFINE more == live[h].pending[l] + 1
           p == [live[h] EXCEPT !.pending[l] = more]
<1>2. Sound(live[h]) /\ live[h] \in Proxy
  BY DEF RegistryIInv, ProxyNamed, Sound
<1>3. more \in Nat
  BY <1>2 DEF Proxy
<1>4. live' = [live EXCEPT ![h] = p]
  BY <1>1
<1> HIDE DEF more
<1>5. p \in Proxy /\ p.key = live[h].key /\ p.conns = live[h].conns /\ p.watched = live[h].watched
  BY <1>2, <1>3 DEF Proxy
<1> HIDE DEF p
<1> QED BY <1>1, <1>2, <1>4, <1>5, StaysSound, OneProxy DEF None

\* A proxy learns its device's REST endpoint.
LEMMA AdoptIInv == RegistryIInv /\ adopt_rest_endpoint => RegistryIInv'
<1> SUFFICES ASSUME RegistryIInv, adopt_rest_endpoint PROVE RegistryIInv'
    OBVIOUS
<1>1. PICK h \in DOMAIN live, endpoint \in Devices :
        /\ live' = [live EXCEPT ![h].rest_endpoint = endpoint]
        /\ result' = None /\ UNCHANGED <<proxies, minted, told>>
  BY Zenon DEF adopt_rest_endpoint
<1> DEFINE p == [live[h] EXCEPT !.rest_endpoint = endpoint]
<1>2. Sound(live[h]) /\ live[h] \in Proxy
  BY DEF RegistryIInv, ProxyNamed, Sound
<1>3. live' = [live EXCEPT ![h] = p]
  BY <1>1
<1>4. p \in Proxy /\ p.key = live[h].key /\ p.conns = live[h].conns /\ p.watched = live[h].watched
  BY <1>2 DEF Proxy
<1> HIDE DEF p
<1> QED BY <1>1, <1>2, <1>3, <1>4, StaysSound, OneProxy DEF None

\* Closing a connection takes both of its watches and no other's.
LEMMA CloseIInv == RegistryIInv /\ close_conn => RegistryIInv'
<1> SUFFICES ASSUME RegistryIInv, close_conn PROVE RegistryIInv'
    OBVIOUS
<1>1. PICK h \in DOMAIN live : \E c \in live[h].conns :
        /\ live' = [live EXCEPT ![h].conns = @ \ {c},
                                ![h].watched = @ \ {<<c.n, "client">>, <<c.n, "device">>}]
        /\ result' = None /\ UNCHANGED <<proxies, minted, told>>
  BY DEF close_conn
<1>2. PICK c \in live[h].conns :
        /\ live' = [live EXCEPT ![h].conns = @ \ {c},
                                ![h].watched = @ \ {<<c.n, "client">>, <<c.n, "device">>}]
        /\ result' = None /\ UNCHANGED <<proxies, minted, told>>
  BY <1>1
<1> DEFINE conns == live[h].conns \ {c}
           watched == live[h].watched \ {<<c.n, "client">>, <<c.n, "device">>}
           p == [[live[h] EXCEPT !.conns = conns] EXCEPT !.watched = watched]
<1>3. Sound(live[h]) /\ live[h] \in Proxy
  BY DEF RegistryIInv, ProxyNamed, Sound
<1>4. /\ live[h].conns \in SUBSET Conn /\ live[h].watched \in SUBSET (Nat \X WatchedEnds)
  BY <1>3 DEF Proxy
<1>5. live' = [live EXCEPT ![h] = p]
  BY <1>2, <1>3, Zenon DEF Proxy
<1>6. watched = Watches(conns)
  <2>1. live[h].watched = Watches(live[h].conns) /\ \A d \in conns : d.n # c.n
    BY <1>3 DEF Sound
  <2>2. c.n # 0 /\ \A d \in live[h].conns : d.n # 0
    BY <1>4 DEF Conn
  <2>3. {d.n : d \in conns} = {d.n : d \in live[h].conns} \ {c.n}
    BY <2>1
  <2> QED BY <2>1, <2>2, <2>3 DEF Watches, Listeners
<1>7. IsFiniteSet(conns) /\ \A d, e \in conns : d.n = e.n => d = e
  BY <1>3, FS_RemoveElement DEF Sound
<1>8. conns \in SUBSET Conn /\ watched \in SUBSET (Nat \X WatchedEnds)
  BY <1>4
<1> HIDE DEF conns, watched
<1>9. p \in Proxy /\ p.key = live[h].key /\ p.conns = conns /\ p.watched = watched
  BY <1>3, <1>8 DEF Proxy
<1> HIDE DEF p
<1>10. Sound(p)
  BY <1>6, <1>7, <1>9 DEF Sound
<1> QED BY <1>2, <1>5, <1>9, <1>10, OneProxy DEF None

\* A set of naturals that has a member has a least one.
LEMMA Least == ASSUME NEW S \in SUBSET Nat, S # {} PROVE Min(S) \in S
<1> DEFINE R == {ss \in Nat \X Nat : ss[1] < ss[2]}
<1>1. IsWellFoundedOn(R, Nat)
  BY NatLessThanWellFounded, Zenon DEF OpToRel
<1>2. \A x, y \in Nat : ~(<<y, x>> \in R) => x <= y
  OBVIOUS
<1> HIDE DEF R
<1>3. \E x \in S : \A y \in S : ~(<<y, x>> \in R)
  BY <1>1, WFMin, Zenon
<1>4. \E x \in S : \A y \in S : x <= y
  BY <1>2, <1>3, Zenon
<1> QED BY <1>4 DEF Min

\* Below the limit there is a number that no connection has.
LEMMA NextIsFree ==
    ASSUME NEW conns \in SUBSET Conn, IsFiniteSet(conns), Cardinality(conns) < MAX_CONNECTIONS
    PROVE  NextConn(conns) \in Nat \ {0} /\ \A c \in conns : c.n # NextConn(conns)
<1> DEFINE all == 1 .. MAX_CONNECTIONS + 1
           S == all \ {c.n : c \in conns}
           f == [i \in all |-> CHOOSE c \in conns : c.n = i]
<1>1. MAX_CONNECTIONS \in Nat /\ Cardinality(conns) \in Nat
  BY DialRegistryAssumption, FS_CardinalityType
<1>2. S # {}
  <2> SUFFICES ASSUME S = {} PROVE FALSE
    OBVIOUS
  <2>1. \A i \in all : \E c \in conns : c.n = i
    OBVIOUS
  <2>2. \A i \in all : f[i] \in conns /\ f[i].n = i
    BY <2>1
  <2>3. f \in Injection(all, conns)
    BY <2>2 DEF Injection, IsInjective
  <2> HIDE DEF f, all
  <2>4. Cardinality(all) <= Cardinality(conns)
    BY <2>3, FS_Injection
  <2>5. Cardinality(all) = MAX_CONNECTIONS + 1
    BY <1>1, FS_Interval DEF all
  <2> QED BY <1>1, <2>4, <2>5
<1>3. S \in SUBSET Nat /\ NextConn(conns) = Min(S)
  BY <1>1 DEF NextConn
<1>4. NextConn(conns) \in S
  BY <1>2, <1>3, Least
<1> QED BY <1>1, <1>4

\* A client that is accepted leaves its queue.
LEMMA TakenSound ==
    ASSUME RegistryIInv, NEW h \in DOMAIN live, NEW l \in Listeners, live[h].pending[l] > 0
    PROVE  /\ Sound(Taken(h, l)) /\ Taken(h, l).key = live[h].key
           /\ Taken(h, l).conns = live[h].conns
<1> DEFINE less == live[h].pending[l] - 1
           p == [live[h] EXCEPT !.pending[l] = less]
<1>1. Sound(live[h]) /\ live[h] \in Proxy
  BY DEF RegistryIInv, ProxyNamed, Sound
<1>2. less \in Nat
  BY <1>1 DEF Proxy
<1>3. Taken(h, l) = p
  BY <1>1 DEF Taken, Proxy
<1> HIDE DEF less
<1>4. p \in Proxy /\ p.key = live[h].key /\ p.conns = live[h].conns /\ p.watched = live[h].watched
  BY <1>1, <1>2 DEF Proxy
<1> HIDE DEF p
<1> QED BY <1>1, <1>3, <1>4, StaysSound

\* start_connection leaves the proxy's watches exact, wherever it stops.
LEMMA StartIInv ==
    ASSUME RegistryIInv, NEW h \in DOMAIN live, NEW l \in Listeners, live[h].pending[l] > 0,
           Cardinality(live[h].conns) < MAX_CONNECTIONS, EndpointFor(h, l) # None,
           start_connection(h, l), result' # "cap", UNCHANGED <<proxies, minted, told>>
    PROVE  RegistryIInv'
<1> DEFINE proxy == Taken(h, l)
           n == NextConn(proxy.conns)
           new == [n |-> n, to |-> EndpointFor(h, l)]
           conns == proxy.conns \union {new}
           failed == DeviceWatchFails(proxy, n)
           opened == [proxy EXCEPT !.conns = conns, !.watched = Watches(conns)]
<1>1. /\ Sound(proxy) /\ proxy \in Proxy /\ proxy.key = live[h].key
      /\ proxy.conns = live[h].conns
  BY TakenSound DEF Sound
<1>2. proxy.conns \in SUBSET Conn /\ proxy.watched = Watches(proxy.conns)
  BY <1>1 DEF Sound, Proxy
<1>3. n \in Nat \ {0} /\ \A c \in proxy.conns : c.n # n
  BY <1>1, <1>2, NextIsFree DEF Sound
<1>4. EndpointFor(h, l) \in Devices
  <2>1. live[h] \in Proxy
    BY DEF RegistryIInv, RegistryShape
  <2>2. live[h].key.endpoint \in Devices /\ live[h].rest_endpoint \in Devices \union {None}
    BY <2>1 DEF Proxy, Keys
  <2> QED BY <2>2 DEF EndpointFor
<1>5. live' = [live EXCEPT ![h] = proxy] \/ live' = [live EXCEPT ![h] = failed]
      \/ live' = [live EXCEPT ![h] = opened]
  BY DEF start_connection
<1> HIDE DEF proxy
<1>6. Sound(failed) /\ failed.key = proxy.key
  <2> DEFINE more == proxy.watched \union {<<n, "client">>}
             less == more \ {<<n, "client">>}
             watching == [proxy EXCEPT !.watched = more]
  <2>1. <<n, "client">> \notin proxy.watched /\ "client" \in WatchedEnds
    BY <1>2, <1>3 DEF Watches, Listeners, WatchedEnds
  <2>2. more \in SUBSET (Nat \X WatchedEnds) /\ less = proxy.watched
    BY <1>1, <1>3, <2>1 DEF Proxy
  <2>3. failed = [watching EXCEPT !.watched = less]
    BY <1>1 DEF DeviceWatchFails, Proxy
  <2> HIDE DEF more, less, n
  <2>4. failed \in Proxy /\ failed.key = proxy.key /\ failed.conns = proxy.conns
        /\ failed.watched = proxy.watched
    BY <1>1, <2>2, <2>3, Zenon DEF Proxy
  <2> QED BY <1>1, <2>4, StaysSound
<1>7. Sound(opened) /\ opened.key = proxy.key
  <2>1. new \in Conn /\ new.n = n
    BY <1>3, <1>4 DEF Conn
  <2> HIDE DEF new, n
  <2>2. conns \in SUBSET Conn /\ IsFiniteSet(conns)
    BY <1>1, <1>2, <2>1, FS_AddElement DEF Sound
  <2>3. \A c, d \in conns : c.n = d.n => c = d
    BY <1>1, <1>3, <2>1 DEF Sound
  <2>4. Watches(conns) \in SUBSET (Nat \X WatchedEnds)
    BY <2>2, WatchesTyped
  <2> HIDE DEF conns
  <2>5. opened \in Proxy /\ opened.key = proxy.key /\ opened.conns = conns
        /\ opened.watched = Watches(conns)
    BY <1>1, <2>2, <2>4, Zenon DEF Proxy
  <2> QED BY <2>2, <2>3, <2>5 DEF Sound
<1> HIDE DEF failed, opened
<1> QED BY <1>1, <1>5, <1>6, <1>7, OneProxy

\* accept_client takes a client, turns it away, connects it or sheds the proxy.
LEMMA AcceptIInv ==
    ASSUME RegistryIInv, NEW h \in DOMAIN live, NEW l \in Listeners, accept(h, l)
    PROVE  RegistryIInv'
<1>1. /\ live[h].pending[l] > 0 /\ result' # "cap" /\ UNCHANGED <<proxies, minted>>
  BY DEF accept, None
<1>2. CASE Shed(h)
  BY <1>1, <1>2, ShedIInv
<1>3. CASE UNCHANGED told /\ live' = [live EXCEPT ![h] = Taken(h, l)]
  BY <1>1, <1>3, TakenSound, OneProxy, Zenon
<1>4. CASE /\ UNCHANGED told /\ start_connection(h, l)
           /\ ~(Cardinality(live[h].conns) >= MAX_CONNECTIONS \/ EndpointFor(h, l) = None)
  <2>1. Cardinality(live[h].conns) \in Nat
    BY FS_CardinalityType DEF RegistryIInv, ProxyNamed, Sound
  <2>2. Cardinality(live[h].conns) < MAX_CONNECTIONS
    BY <1>4, <2>1, DialRegistryAssumption
  <2> QED BY <1>1, <1>4, <2>2, StartIInv
<1> QED BY <1>2, <1>3, <1>4 DEF accept

\* Every step keeps the invariant.
LEMMA RegistryNextIInv == RegistryIInv /\ [RegistryNext]_registryVars => RegistryIInv'
<1> SUFFICES ASSUME RegistryIInv, [RegistryNext]_registryVars PROVE RegistryIInv'
    OBVIOUS
<1>1. CASE UNCHANGED registryVars
  BY <1>1 DEF registryVars, RegistryIInv, RegistryShape, EntryNames, ProxyNamed, Sound, Capped, Kept
<1>2. CASE \E h \in DOMAIN live : Accepts(h)
  BY <1>2, AcceptIInv DEF Accepts
<1> QED BY <1>1, <1>2, RewriteIInv, SweepRegistryIInv, InterfaceIInv, ClientIInv, AdoptIInv, CloseIInv, GraceTickIInv
        DEF RegistryNext

\* The invariant of the registry and its proxies.
THEOREM RegistryInvariant == RegistrySpec => []RegistryIInv
BY RegistryInitIInv, RegistryNextIInv, PTL DEF RegistrySpec

\* Every proxy the reactor runs is the one the registry has for its key and watches exactly its
\* listeners and the ends of its connections, there are never more than MAX_DIAL_PROXIES, and a
\* device is turned away for the cap only when that many run (mint_proxy, has_capacity,
\* evict_where, start_connection).
THEOREM ProxiesStayAccounted == RegistrySpec => []ProxiesAccounted
BY RegistryInvariant, Accounted, PTL

\* A rewritten LOCATION leads to a listener of a proxy of that very device for as long as its
\* max-age says, unless its interfaces change or the proxy is shed (rewrite_location, sweep).
THEOREM ToldStaysServed == RegistrySpec => []ToldIsServed
BY RegistryInvariant, Accounted, PTL
=============================================================================
