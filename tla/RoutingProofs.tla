--------------------------- MODULE RoutingProofs ----------------------------
(* Proofs about the data path of Routing, for any captures, datagrams, protocols, frames per event,  *)
(* batch and number of registrations: the handlers due for a packet are fed it once each, equal       *)
(* datagrams go out once, a drain ends, and a packet is counted under the best of its outcomes.       *)
EXTENDS Routing, ArenaTheorems, TLAPS

(* ------------------------------- outcomes ------------------------------- *)

\* An outcome carries a type exactly when it is not Filtered.
LEMMA OutcomeShape ==
    ASSUME NEW o \in Outcome
    PROVE  /\ o.disposition \in Filtered .. Reflected
           /\ o.type \in MessageType \cup {NoType}
           /\ o.disposition = Filtered <=> o.type = NoType
           /\ o = [disposition |-> o.disposition, type |-> o.type]
BY OutcomesAssumption, SMT
   DEF Outcome, FilteredOutcome, MessageType, Filtered, Skipped, Reflected

\* The higher of two dispositions, and the type of the two that the fold keeps.
Higher(a, b) == IF b > a THEN b ELSE a
Kept(a, b) ==
    IF NoType \notin {a.type, b.type} /\ is_specific(a.type) # is_specific(b.type)
    THEN (IF is_specific(a.type) THEN a.type ELSE b.type)
    ELSE (IF b.disposition > a.disposition THEN b.type ELSE a.type)

\* combine by its parts.
LEMMA CombineParts ==
    ASSUME NEW a \in Outcome, NEW b \in Outcome
    PROVE  /\ combine(a, b) \in Outcome
           /\ combine(a, b).disposition = Higher(a.disposition, b.disposition)
           /\ combine(a, b).type = Kept(a, b)
BY OutcomeShape, OutcomesAssumption, SMT
   DEF combine, with_type, is_specific, Outcome, FilteredOutcome, MessageType, Filtered, Skipped,
       Reflected, Higher, Kept

\* Two outcomes with equal parts are equal.
LEMMA SameParts ==
    ASSUME NEW a \in Outcome, NEW b \in Outcome, a.disposition = b.disposition, a.type = b.type
    PROVE  a = b
<1>1. a = [disposition |-> a.disposition, type |-> a.type] BY OutcomeShape
<1>2. b = [disposition |-> b.disposition, type |-> b.type] BY OutcomeShape
<1> QED BY <1>1, <1>2

\* The type kept depends on the two types alone: the protocol's, else the relay's, else none.
Claimed(t, u) == IF is_specific(t) THEN t ELSE IF is_specific(u) THEN u ELSE IF t = NoType THEN u ELSE t

\* So it is, unless two protocols claim the packet.
LEMMA KeptIsClaimed ==
    ASSUME NEW a \in Outcome, NEW b \in Outcome, ~type_mismatch(a, b)
    PROVE  Kept(a, b) = Claimed(a.type, b.type)
<1>1. /\ a.disposition \in Int /\ b.disposition \in Int
      /\ a.type \in MessageType \cup {NoType} /\ b.type \in MessageType \cup {NoType}
      /\ a.disposition = Filtered <=> a.type = NoType
      /\ b.disposition = Filtered <=> b.type = NoType
      /\ a.disposition >= Filtered /\ b.disposition >= Filtered
  BY OutcomeShape, SMT DEF Filtered, Reflected
<1> QED BY <1>1, OutcomesAssumption, SMT
        DEF Kept, Claimed, type_mismatch, is_specific, MessageType, Filtered

\* Two outcomes combine to the same whichever comes first.
THEOREM CombineCommutes ==
    ASSUME NEW a \in Outcome, NEW b \in Outcome, ~type_mismatch(a, b)
    PROVE  combine(a, b) = combine(b, a)
<1>1. /\ a.disposition \in Int /\ b.disposition \in Int
      /\ a.type \in MessageType \cup {NoType} /\ b.type \in MessageType \cup {NoType}
  BY OutcomeShape, SMT DEF Filtered, Reflected
<1>2. Higher(a.disposition, b.disposition) = Higher(b.disposition, a.disposition)
  BY <1>1, SMT DEF Higher
<1>3. Kept(a, b) = Kept(b, a)
  BY <1>1, KeptIsClaimed, OutcomesAssumption DEF Claimed, type_mismatch, is_specific, MessageType
<1>4. /\ combine(a, b) \in Outcome /\ combine(b, a) \in Outcome
      /\ combine(a, b).disposition = Higher(a.disposition, b.disposition)
      /\ combine(b, a).disposition = Higher(b.disposition, a.disposition)
      /\ combine(a, b).type = Kept(a, b) /\ combine(b, a).type = Kept(b, a)
  BY CombineParts
<1> QED BY <1>2, <1>3, <1>4, SameParts

\* Three outcomes combine to the same however they are grouped.
THEOREM CombineAssociates ==
    ASSUME NEW a \in Outcome, NEW b \in Outcome, NEW c \in Outcome,
           ~type_mismatch(a, b), ~type_mismatch(b, c), ~type_mismatch(a, c)
    PROVE  combine(combine(a, b), c) = combine(a, combine(b, c))
<1> DEFINE ab == combine(a, b)
           bc == combine(b, c)
<1>1. /\ ab \in Outcome /\ bc \in Outcome
      /\ ab.disposition = Higher(a.disposition, b.disposition) /\ ab.type = Kept(a, b)
      /\ bc.disposition = Higher(b.disposition, c.disposition) /\ bc.type = Kept(b, c)
  BY CombineParts
<1> HIDE DEF ab, bc
<1>2. /\ combine(ab, c) \in Outcome /\ combine(a, bc) \in Outcome
      /\ combine(ab, c).disposition = Higher(ab.disposition, c.disposition)
      /\ combine(a, bc).disposition = Higher(a.disposition, bc.disposition)
      /\ combine(ab, c).type = Kept(ab, c) /\ combine(a, bc).type = Kept(a, bc)
  BY <1>1, CombineParts
<1>3. /\ a.disposition \in Int /\ b.disposition \in Int /\ c.disposition \in Int
      /\ a.type \in MessageType \cup {NoType}
      /\ b.type \in MessageType \cup {NoType}
      /\ c.type \in MessageType \cup {NoType}
  BY OutcomeShape, SMT DEF Filtered, Reflected
<1>4. combine(ab, c).disposition = combine(a, bc).disposition
  BY <1>1, <1>2, <1>3, SMT DEF Higher
<1>5. combine(ab, c).type = combine(a, bc).type
  <2>1. ab.type = Claimed(a.type, b.type) /\ bc.type = Claimed(b.type, c.type)
    BY <1>1, KeptIsClaimed
  <2>2. ~type_mismatch(ab, c) /\ ~type_mismatch(a, bc)
    BY <2>1 DEF Claimed, type_mismatch
  <2>3. /\ combine(ab, c).type = Claimed(ab.type, c.type)
        /\ combine(a, bc).type = Claimed(a.type, bc.type)
    BY <1>1, <1>2, <2>2, KeptIsClaimed
  <2> QED BY <1>3, <2>1, <2>3, OutcomesAssumption DEF Claimed, is_specific, MessageType, type_mismatch
<1>6. combine(ab, c) = combine(a, bc)
  BY <1>2, <1>4, <1>5, SameParts
<1> QED BY <1>6 DEF ab, bc

(* ------------------------------- draining ------------------------------- *)

Capture == [taken : BOOLEAN, buffered : Nat, sent_packet : Nat, sent : SUBSET Datagrams]
Drain == [ingress : Captures \cup {None}, bound : BOOLEAN, drained : Nat, oversized : Nat,
          reads : Nat]
Delivery == [ok : BOOLEAN, egress : Captures \cup {None}, copies : SUBSET Datagrams]
Observed == [due : SUBSET Nat, fed : Seq(Nat), outcomes : SUBSET Outcome, told : Delivery,
             out : [Captures -> [Datagrams -> Nat]]]

\* The types, and what is at rest outside a drain and outside a packet.
Shape ==
    /\ captures \in [Captures -> Capture]
    /\ egress \in [packet : Nat, routing : BOOLEAN]
    /\ at \in {"idle", "drain", "route", "sweep"}
    /\ drain \in Drain
    /\ at \in {"drain", "route"} => drain.ingress \in Captures
    /\ at \in {"idle", "sweep"} => drain = NoDrain
    /\ egress.routing <=> at = "route"
    /\ at # "route" => seen = Unseen /\ final_outcome = NoOutcome

\* Nothing observed yet.
LEMMA UnseenType == Unseen \in Observed
BY NoneAssumption DEF Unseen, Observed, Delivery, NoDelivery

\* The locals before a drain.
LEMMA NoDrainType == NoDrain \in Drain
BY DEF NoDrain, Drain

\* What a delivery does to the captures.
LEMMA DeliverShape ==
    ASSUME captures \in [Captures -> Capture], egress \in [packet : Nat, routing : BOOLEAN],
           NEW e \in Captures, NEW copies \in SUBSET Datagrams, NEW failed \in SUBSET copies
    PROVE  /\ deliver(e, copies, failed).captures \in [Captures -> Capture]
           /\ deliver(e, copies, failed).ok \in BOOLEAN
           /\ deliver(e, copies, failed).out \subseteq copies
           /\ \A c \in Captures :
                 /\ deliver(e, copies, failed).captures[c].taken = captures[c].taken
                 /\ deliver(e, copies, failed).captures[c].buffered = captures[c].buffered
<1> DEFINE already == already_sent(e, copies)
           out == (copies \ already) \ failed
<1>1. /\ record_sent(e, out) \in [Captures -> Capture]
      /\ \A c \in Captures : /\ record_sent(e, out)[c].taken = captures[c].taken
                            /\ record_sent(e, out)[c].buffered = captures[c].buffered
  <2>1. CASE out = {} \/ ~egress.routing
    BY <2>1 DEF record_sent
  <2>2. CASE ~(out = {} \/ ~egress.routing)
    <3> DEFINE s == IF captures[e].sent_packet = egress.packet THEN captures[e].sent \cup out ELSE out
               noted == [[captures[e] EXCEPT !.sent_packet = egress.packet] EXCEPT !.sent = s]
    <3>1. captures[e] \in Capture /\ s \in SUBSET Datagrams /\ egress.packet \in Nat
      BY DEF Capture
    <3>2. record_sent(e, out) = [captures EXCEPT ![e] = noted]
      BY <2>2 DEF record_sent
    <3> HIDE DEF s, out
    <3>3. noted \in Capture /\ noted.taken = captures[e].taken /\ noted.buffered = captures[e].buffered
      BY <3>1 DEF Capture
    <3> HIDE DEF noted
    <3> QED BY <3>2, <3>3
  <2> QED BY <2>1, <2>2
<1> QED BY <1>1 DEF deliver

\* At startup everything is at rest.
LEMMA InitShape == Init => Shape
BY NoDrainType DEF Init, Shape, Capture, NoDrain

\* A delivery or none: the captures keep their type, and no frame is read or put back.
LEMMA OnPacketShape ==
    ASSUME Shape, NEW key, NEW outcome, on_packet(key, outcome)
    PROVE  /\ captures' \in [Captures -> Capture]
           /\ \A c \in Captures : /\ captures'[c].taken = captures[c].taken
                                  /\ captures'[c].buffered = captures[c].buffered
<1>1. CASE UNCHANGED captures
  BY <1>1 DEF Shape
<1>2. CASE \E e \in Captures, copies \in SUBSET Datagrams : \E failed \in SUBSET copies :
              captures' = deliver(e, copies, failed).captures
  <2>1. PICK e \in Captures, copies \in SUBSET Datagrams :
           \E failed \in SUBSET copies : captures' = deliver(e, copies, failed).captures
    BY <1>2
  <2>4. PICK failed \in SUBSET copies : captures' = deliver(e, copies, failed).captures
    BY <2>1
  <2>2. captures \in [Captures -> Capture] /\ egress \in [packet : Nat, routing : BOOLEAN]
    BY DEF Shape
  <2>3. /\ deliver(e, copies, failed).captures \in [Captures -> Capture]
        /\ \A c \in Captures :
              /\ deliver(e, copies, failed).captures[c].taken = captures[c].taken
              /\ deliver(e, copies, failed).captures[c].buffered = captures[c].buffered
    BY <2>2, DeliverShape, Zenon
  <2> QED BY <2>3, <2>4
<1> QED BY <1>1, <1>2 DEF on_packet

\* The step that reads a frame: the capture it is read from and what is left of the batch.
LEMMA NextFrameFacts ==
    ASSUME Shape, NextFrame(drain.ingress)
    PROVE  /\ at = "drain" /\ drain.ingress \in Captures
           /\ captures' \in [Captures -> Capture]
           /\ \A c \in Captures \ {drain.ingress} : captures'[c] = captures[c]
           /\ captures'[drain.ingress].sent_packet = captures[drain.ingress].sent_packet
           /\ captures'[drain.ingress].sent = captures[drain.ingress].sent
           /\ captures'[drain.ingress].taken = captures[drain.ingress].taken
           /\ \/ /\ captures[drain.ingress].buffered > 0
                 /\ captures'[drain.ingress].buffered = captures[drain.ingress].buffered - 1
              \/ /\ captures[drain.ingress].buffered = 0 /\ drain.drained < MAX_FRAMES_PER_EVENT
                 /\ captures'[drain.ingress].buffered \in 0 .. (Batch - 1)
<1> DEFINE i == drain.ingress
<1>1. at = "drain" /\ i \in Captures /\ ~AtLimit
  BY DEF NextFrame, Shape
<1>2. /\ captures \in [Captures -> Capture] /\ captures[i] \in Capture
      /\ captures[i].buffered \in Nat /\ drain.drained \in Nat
      /\ MAX_FRAMES_PER_EVENT \in Nat /\ Batch \in Nat
  BY <1>1, RoutingAssumption DEF Shape, Capture, Drain
<1>3. PICK b \in Nat :
         /\ captures' = [captures EXCEPT ![i].buffered = b]
         /\ \/ captures[i].buffered > 0 /\ b = captures[i].buffered - 1
            \/ captures[i].buffered = 0 /\ b \in 0 .. (Batch - 1)
  <2>1. CASE captures[i].buffered > 0
    <3>1. captures' = [captures EXCEPT ![i].buffered = captures[i].buffered - 1]
      BY <2>1 DEF NextFrame, Reads
    <3>2. captures[i].buffered - 1 \in Nat
      BY <1>2, <2>1
    <3> QED BY <2>1, <3>1, <3>2
  <2>2. CASE ~(captures[i].buffered > 0)
    <3>1. PICK n \in 1 .. Batch : Reads(n - 1)
      BY <2>2 DEF NextFrame
    <3>2. captures' = [captures EXCEPT ![i].buffered = n - 1]
      BY <3>1 DEF Reads
    <3>3. n - 1 \in Nat /\ n - 1 \in 0 .. (Batch - 1) /\ captures[i].buffered = 0
      BY <1>2, <2>2
    <3> QED BY <3>2, <3>3
  <2> QED BY <2>1, <2>2
<1>4. captures'[i] = [captures[i] EXCEPT !.buffered = b] /\ captures' \in [Captures -> Capture]
  BY <1>1, <1>2, <1>3 DEF Capture
<1>5. \A c \in Captures \ {i} : captures'[c] = captures[c]
  BY <1>1, <1>2, <1>3
<1>6. /\ captures'[i].buffered = b /\ captures'[i].sent_packet = captures[i].sent_packet
      /\ captures'[i].sent = captures[i].sent /\ captures'[i].taken = captures[i].taken
  BY <1>2, <1>4 DEF Capture
<1>7. captures[i].buffered = 0 => drain.drained < MAX_FRAMES_PER_EVENT
  BY <1>1, <1>2 DEF AtLimit
<1> QED BY <1>1, <1>3, <1>4, <1>5, <1>6, <1>7

\* One more frame read.
LEMMA DrainedOneType ==
    ASSUME NEW d \in Drain, NEW n \in {0, 1}
    PROVE  DrainedOne(d, n) \in Drain /\ DrainedOne(d, n).ingress = d.ingress
<1>1. d.drained + 1 \in Nat /\ d.oversized + n \in Nat /\ d.reads + 1 \in Nat
  BY DEF Drain
<1> QED BY <1>1 DEF DrainedOne, Drain

\* Every step keeps the types, and what is at rest.
LEMMA NextShape == Shape /\ [Next]_vars => Shape'
<1> SUFFICES ASSUME Shape, [Next]_vars PROVE Shape'
    OBVIOUS
<1> USE DEF Shape
<1>1. CASE Rebound \/ SweepDone \/ SweepNext \/ RouteSkip
  BY <1>1 DEF Rebound, SweepDone, SweepNext, RouteSkip
<1>2. CASE SweepStart
  BY <1>2 DEF SweepStart
<1>3. ASSUME NEW c \in Captures, on_readable(c) PROVE Shape'
  <2>1. drain' \in Drain /\ drain'.ingress = c /\ at' = "drain" /\ at = "idle"
    <3>1. /\ drain' = [ingress |-> c, bound |-> c \in bound, drained |-> 0, oversized |-> 0, reads |-> 0]
          /\ at' = "drain" /\ at = "idle"
      BY <1>3 DEF on_readable, NoDrain
    <3>2. (c \in bound) \in BOOLEAN
      OBVIOUS
    <3> QED BY <3>1, <3>2 DEF Drain
  <2>2. captures' \in [Captures -> Capture]
    BY <1>3, Zenon DEF on_readable, Capture
  <2> QED BY <1>3, <2>1, <2>2 DEF on_readable
<1>4. CASE SkipFrame
  <2>1. drain' \in Drain /\ drain'.ingress = drain.ingress
    <3>1. drain' = DrainedOne(drain, 0) \/ drain' = DrainedOne(drain, 1)
      BY <1>4 DEF SkipFrame
    <3> QED BY <3>1, DrainedOneType
  <2>2. NextFrame(drain.ingress) /\ UNCHANGED <<egress, at, seen, final_outcome>>
    BY <1>4 DEF SkipFrame
  <2> QED BY <2>1, <2>2, NextFrameFacts
<1>5. CASE RouteFrame
  <2>1. drain' \in Drain /\ drain'.ingress = drain.ingress
    BY <1>5 DEF RouteFrame, Drain
  <2>2. /\ NextFrame(drain.ingress) /\ at' = "route"
        /\ egress' = [packet |-> egress.packet + 1, routing |-> TRUE]
    BY <1>5 DEF RouteFrame, begin_packet
  <2> QED BY <2>1, <2>2, NextFrameFacts
<1>6. CASE RouteCall
  BY <1>6, OnPacketShape DEF RouteCall
<1>7. CASE RouteDone
  <2>1. drain' \in Drain /\ drain'.ingress = drain.ingress
    BY <1>7 DEF RouteDone, Drain
  <2> QED BY <1>7, <2>1, Zenon DEF RouteDone
<1>8. CASE DrainDone
  <2>1. captures' \in [Captures -> Capture]
    <3> DEFINE freed == [captures EXCEPT ![drain.ingress].taken = FALSE]
               left == IF AtLimit THEN captures[drain.ingress].buffered ELSE 0
    <3>1. drain.ingress \in Captures /\ left \in Nat /\ freed \in [Captures -> Capture]
      BY <1>8, Zenon DEF DrainDone, Capture
    <3>2. captures' = [freed EXCEPT ![drain.ingress].buffered = left]
      BY <1>8, <3>1 DEF DrainDone, Capture
    <3> HIDE DEF freed, left
    <3>3. [freed EXCEPT ![drain.ingress].buffered = left] \in [Captures -> Capture]
      BY <3>1 DEF Capture
    <3> QED BY <3>2, <3>3
  <2> QED BY <1>8, <2>1, NoDrainType DEF DrainDone
<1>9. CASE UNCHANGED vars
  BY <1>9 DEF vars
<1> QED BY <1>1, <1>2, <1>3, <1>4, <1>5, <1>6, <1>7, <1>8, <1>9 DEF Next

\* While a capture is drained: what was read and what is left of the batch stay within the bound,
\* and no other capture has frames left.
Draining ==
    /\ at \in {"drain", "route"} =>
          /\ drain.reads = drain.drained + (IF at = "route" THEN 1 ELSE 0)
          /\ drain.reads + captures[drain.ingress].buffered <= MAX_FRAMES_PER_EVENT + Batch - 1
    /\ \A c \in Captures :
          at \in {"idle", "sweep"} \/ c # drain.ingress => captures[c].buffered = 0

\* Every step keeps within the bound: a read takes from the batch, or begins one below the limit.
LEMMA NextDraining == Shape /\ Draining /\ [Next]_vars => Draining'
<1> SUFFICES ASSUME Shape, Draining, [Next]_vars PROVE Draining'
    OBVIOUS
<1> USE DEF Draining
<1>1. CASE Rebound \/ SweepDone \/ SweepNext \/ RouteSkip \/ SweepStart
  BY <1>1 DEF Rebound, SweepDone, SweepNext, RouteSkip, SweepStart
<1>2. ASSUME NEW c \in Captures, on_readable(c) PROVE Draining'
  <2>1. /\ at = "idle" /\ at' = "drain" /\ drain' = [NoDrain EXCEPT !.ingress = c, !.bound = c \in bound]
        /\ captures' = [captures EXCEPT ![c].taken = TRUE]
    BY <1>2 DEF on_readable
  <2>2. \A x \in Captures : captures'[x].buffered = captures[x].buffered /\ captures[x].buffered = 0
    BY <2>1 DEF Shape, Capture
  <2>3. drain'.ingress = c /\ drain'.reads = 0 /\ drain'.drained = 0
    BY <2>1 DEF NoDrain
  <2> QED BY <2>1, <2>2, <2>3, RoutingAssumption
<1>3. CASE SkipFrame
  <2>1. drain'.reads = drain.reads + 1 /\ drain'.drained = drain.drained + 1 /\ drain'.ingress = drain.ingress
    <3>1. drain' = DrainedOne(drain, 0) \/ drain' = DrainedOne(drain, 1)
      BY <1>3 DEF SkipFrame
    <3> QED BY <3>1, Zenon DEF DrainedOne, Drain, Shape
  <2>2. NextFrame(drain.ingress) /\ at' = at
    BY <1>3 DEF SkipFrame
  <2> QED BY <2>1, <2>2, NextFrameFacts, RoutingAssumption DEF Shape, Drain, Capture
<1>4. CASE RouteFrame
  <2>1. drain'.reads = drain.reads + 1 /\ drain'.drained = drain.drained /\ drain'.ingress = drain.ingress
    BY <1>4 DEF RouteFrame, Drain, Shape
  <2>2. NextFrame(drain.ingress) /\ at' = "route"
    BY <1>4 DEF RouteFrame, begin_packet
  <2> QED BY <2>1, <2>2, NextFrameFacts, RoutingAssumption DEF Shape, Drain, Capture
<1>5. CASE RouteCall
  BY <1>5, OnPacketShape DEF RouteCall, Shape
<1>6. CASE RouteDone
  BY <1>6 DEF RouteDone, Shape, Drain
<1>7. CASE DrainDone
  BY <1>7 DEF DrainDone, Shape, Capture, AtLimit
<1>8. CASE UNCHANGED vars
  BY <1>8 DEF vars
<1> QED BY <1>1, <1>2, <1>3, <1>4, <1>5, <1>6, <1>7, <1>8 DEF Next

(* ---------------------------- registrations ----------------------------- *)

\* Every live registration has its handler, but for one that is out for its call, and no two have
\* the same.
Named(a, n, out) ==
    /\ \A k \in Keys(a) : Get(a, k).handler \in 1 .. n \/ (k \in out /\ Get(a, k).handler = None)
    /\ \A j, k \in Keys(a) : Get(a, j).handler = Get(a, k).handler => j = k

\* The registrations a and their number n; the keys K were given out, and stay stale once they are.
Good(a, n, K, out) ==
    /\ IsArena(a, Registrations)
    /\ n \in 0 .. MaxRegistrations
    /\ Spent(a, K, n)
    /\ Named(a, n, out)

\* From a to b registrations only went or were made, the latter under keys that are not in K.
Later(a, n, b, m, K) ==
    /\ m \in Nat /\ n <= m
    /\ \A k \in Keys(b) :
          \/ k \in Keys(a) /\ Get(b, k) = Get(a, k)
          \/ k \notin K /\ Get(b, k).handler > n

\* A call removes one registration through any key, or makes one.
LEMMA OneCallGood ==
    ASSUME NEW K \in SUBSET Key, NEW out \in SUBSET K, NEW a, NEW n, Good(a, n, K, out),
           NEW x \in OneCall([regs |-> a, made |-> n])
    PROVE  \E b, m : /\ x = [regs |-> b, made |-> m]
                     /\ Good(b, m, K, out) /\ Later(a, n, b, m, K)
<1> USE RoutingAssumption, ReuseAssumption
<1>1. /\ IsArena(a, Registrations) /\ n \in 0 .. MaxRegistrations /\ Spent(a, K, n)
      /\ Named(a, n, out) /\ n \in Nat /\ None \notin Registrations
  BY NoneAssumption DEF Good
<1>2. Keys(a) = {k \in Key : Get(a, k) # None}
  BY <1>1, Resolved DEF None
<1>3. ASSUME NEW k \in AnyKey(a), x = [regs |-> Remove(a, k), made |-> n]
      PROVE  Good(x.regs, x.made, K, out) /\ Later(a, n, x.regs, x.made, K)
  <2> DEFINE b == Remove(a, k)
  <2>1. k \in Key
    <3>1. DOMAIN a.slots \subseteq Nat \ {0}
      BY <1>1 DEF IsArena
    <3>2. 0 .. MaxRegistrations \subseteq Generation
      BY GenModAssumption DEF Generation
    <3> QED BY <3>1, <3>2 DEF AnyKey, Key
  <2>2. /\ IsArena(b, Registrations) /\ Get(b, k) = None
        /\ \A j \in Key : j # k => Get(b, j) = Get(a, j)
    BY <1>1, <2>1, RemoveMap DEF None
  <2>3. Spent(b, K, n)
    <3>1. n < GenMod
      BY <1>1, GenModAssumption
    <3> QED BY <1>1, <2>1, <3>1, SpentRemove
  <2>4. Keys(b) = {j \in Key : Get(b, j) # None}
    BY <2>2, Resolved DEF None
  <2> HIDE DEF b
  <2>5. \A j \in Keys(b) : j \in Keys(a) /\ Get(b, j) = Get(a, j)
    BY <1>2, <2>2, <2>4
  <2>6. Named(b, n, out)
    BY <1>1, <2>5 DEF Named
  <2>7. Later(a, n, b, n, K)
    BY <1>1, <2>5 DEF Later
  <2>8. x.regs = b /\ x.made = n
    BY <1>3 DEF b
  <2> QED BY <1>1, <2>2, <2>3, <2>6, <2>7, <2>8 DEF Good
<1>4. ASSUME NEW s \in Legs, n < MaxRegistrations,
             x = [regs |-> Insert(a, Registration(s, n + 1)), made |-> n + 1]
      PROVE  Good(x.regs, x.made, K, out) /\ Later(a, n, x.regs, x.made, K)
  <2> DEFINE v == Registration(s, n + 1)
             b == Insert(a, v)
             new == NextKey(a)
  <2>1. v \in Registrations /\ v.handler = n + 1
    BY <1>1 DEF Registration, Registrations, Legs
  <2> HIDE DEF v
  <2>2. /\ IsArena(b, Registrations) /\ new \in Key /\ Get(a, new) = None /\ Get(b, new) = v
        /\ \A j \in Key : j # new => Get(b, j) = Get(a, j)
    BY <1>1, <2>1, InsertMap DEF None
  <2>3. new \notin K /\ Spent(b, K \cup {new}, n + 1)
    BY <1>1, <2>1, SpentInsert DEF None
  <2>4. Keys(b) = {j \in Key : Get(b, j) # None}
    BY <2>2, Resolved DEF None
  <2>5. Spent(b, K, n + 1)
    BY <2>3 DEF Spent
  <2> HIDE DEF b, new
  <2>6. \A j \in Keys(b) : j = new \/ (j \in Keys(a) /\ Get(b, j) = Get(a, j))
    BY <1>2, <2>2, <2>4
  <2>7. new \notin Keys(a) /\ Get(b, new).handler = n + 1
    BY <1>2, <2>1, <2>2
  <2>8. Named(b, n + 1, out)
    <3>1. \A k \in Keys(b) :
             Get(b, k).handler \in 1 .. (n + 1) \/ (k \in out /\ Get(b, k).handler = None)
      BY <1>1, <2>6, <2>7 DEF Named
    <3>2. \A k \in Keys(a) : Get(a, k).handler # n + 1
      BY <1>1, NoneAssumption DEF Named
    <3>3. \A j, k \in Keys(b) : Get(b, j).handler = Get(b, k).handler => j = k
      BY <1>1, <2>6, <2>7, <3>2, Zenon DEF Named
    <3> QED BY <3>1, <3>3 DEF Named
  <2>9. Later(a, n, b, n + 1, K)
    BY <1>1, <2>3, <2>6, <2>7 DEF Later
  <2>10. x.regs = b /\ x.made = n + 1
    BY <1>4 DEF b, v
  <2>11. n + 1 \in 0 .. MaxRegistrations
    BY <1>1, <1>4
  <2> QED BY <2>2, <2>5, <2>8, <2>9, <2>10, <2>11 DEF Good
<1>5. \/ \E k \in AnyKey(a) : x = [regs |-> Remove(a, k), made |-> n]
      \/ n < MaxRegistrations /\ \E s \in Legs :
            x = [regs |-> Insert(a, Registration(s, n + 1)), made |-> n + 1]
  BY DEF OneCall, unregister, register
<1>6. x = [regs |-> x.regs, made |-> x.made]
  BY <1>5
<1> QED BY <1>3, <1>4, <1>5, <1>6

\* Two calls do no more than one and then another.
LEMMA CallsGood ==
    ASSUME NEW K \in SUBSET Key, NEW out \in SUBSET K, NEW a, NEW n, Good(a, n, K, out),
           NEW x \in Calls([regs |-> a, made |-> n])
    PROVE  \E b, m : /\ x = [regs |-> b, made |-> m]
                     /\ Good(b, m, K, out) /\ Later(a, n, b, m, K)
<1>1. n \in Nat /\ Later(a, n, a, n, K)
  BY RoutingAssumption DEF Good, Later
<1>2. CASE x = [regs |-> a, made |-> n]
  BY <1>1, <1>2
<1>3. CASE x \in OneCall([regs |-> a, made |-> n])
  BY <1>3, OneCallGood
<1>4. ASSUME NEW y \in OneCall([regs |-> a, made |-> n]), x \in OneCall(y)
      PROVE  \E b, m : /\ x = [regs |-> b, made |-> m]
                       /\ Good(b, m, K, out) /\ Later(a, n, b, m, K)
  <2>1. PICK b, m : y = [regs |-> b, made |-> m] /\ Good(b, m, K, out) /\ Later(a, n, b, m, K)
    BY OneCallGood
  <2>2. PICK c, l : x = [regs |-> c, made |-> l] /\ Good(c, l, K, out) /\ Later(b, m, c, l, K)
    BY <1>4, <2>1, OneCallGood
  <2>3. Later(a, n, c, l, K)
    <3>1. n \in Nat /\ m \in Nat /\ l \in Nat /\ n <= m /\ m <= l
      BY <1>1, <2>1, <2>2 DEF Later
    <3>2. ASSUME NEW k \in Keys(c)
          PROVE  \/ k \in Keys(a) /\ Get(c, k) = Get(a, k)
                 \/ k \notin K /\ Get(c, k).handler > n
      <4>1. CASE k \in Keys(b) /\ Get(c, k) = Get(b, k)
        BY <2>1, <4>1 DEF Later
      <4>2. CASE k \notin K /\ Get(c, k).handler > m
        <5>1. Get(c, k).handler \in Nat
          BY <2>2, <3>1, <4>2 DEF Good, Named
        <5> QED BY <3>1, <4>2, <5>1
      <4> QED BY <2>2, <4>1, <4>2 DEF Later
    <3> QED BY <3>1, <3>2 DEF Later
  <2> QED BY <2>2, <2>3
<1> QED BY <1>2, <1>3, <1>4 DEF Calls

\* The registrations, between two calls.  A key of the snapshot stays that of the registration it
\* was taken for.
Regs ==
    /\ keys \in SUBSET Key
    /\ Good(registrations, made, keys, {})

\* Between two calls every handler is in its place, as take_handler's caller expects.
LEMMA LiveReg ==
    ASSUME Regs
    PROVE  /\ Keys(registrations) = {k \in Key : Get(registrations, k) # None}
           /\ \A k \in Keys(registrations) : /\ Get(registrations, k) \in Registrations
                                             /\ Get(registrations, k).handler \in 1 .. made
                                             /\ Get(registrations, k).handler \in Nat
           /\ made \in Nat /\ made \in 0 .. MaxRegistrations
<1>1. IsArena(registrations, Registrations) /\ Named(registrations, made, {})
  BY DEF Regs, Good
<1>2. /\ \A k \in Key : Get(registrations, k) \in Registrations \cup {None}
      /\ Keys(registrations) = {k \in Key : Get(registrations, k) # None}
  BY <1>1, Resolved DEF None
<1>3. made \in Nat /\ made \in 0 .. MaxRegistrations
  BY RoutingAssumption DEF Regs, Good
<1>4. \A k \in Keys(registrations) : Get(registrations, k).handler \in 1 .. made
  BY <1>1 DEF Named
<1> QED BY <1>2, <1>3, <1>4

\* A call of the handler behind a key of the snapshot: the handler is back in its place unless its
\* registration went, and what is there was there before or was made in the call.
LEMMA CallRegs ==
    ASSUME Regs, NEW key \in keys, Contains(registrations, key), Call(key), keys' \in SUBSET keys
    PROVE  Regs' /\ Later(registrations, made, registrations', made', keys)
<1> DEFINE reg == Get(registrations, key)
           h == reg.handler
           away == [reg EXCEPT !.handler = None]
           a == take_handler(registrations, key)
<1>1. /\ keys \in SUBSET Key /\ key \in Key /\ IsArena(registrations, Registrations)
      /\ Spent(registrations, keys, made) /\ Named(registrations, made, {})
      /\ None \notin Registrations
  BY NoneAssumption DEF Regs, Good
<1>2. /\ Keys(registrations) = {k \in Key : Get(registrations, k) # None}
      /\ key \in Keys(registrations) /\ reg \in Registrations
      /\ h \in 1 .. made /\ h \in Nat /\ made \in Nat /\ made \in 0 .. MaxRegistrations
      /\ \A k \in Keys(registrations) : Get(registrations, k).handler \in 1 .. made
  BY <1>1, LiveReg DEF Contains, None
<1>3. /\ away \in Registrations /\ away.handler = None
      /\ reg = [away EXCEPT !.handler = h]
  BY <1>2, Zenon DEF Registrations
<1>4. a = Put(registrations, key, away)
  BY DEF take_handler
<1> HIDE DEF reg, h, away, a
<1>5. /\ IsArena(a, Registrations) /\ Get(a, key) = away
      /\ \A k \in Key : k # key => Get(a, k) = Get(registrations, k)
      /\ Spent(a, keys, made)
  BY <1>1, <1>3, <1>4, PutMap, SpentPut DEF None
<1>6. Keys(a) = Keys(registrations)
  <2>1. Keys(a) = {k \in Key : Get(a, k) # None}
    BY <1>5, Resolved DEF None
  <2> QED BY <1>1, <1>2, <1>3, <1>5, <2>1
<1>7. Good(a, made, keys, {key})
  <2>1. Named(a, made, {key})
    <3>1. \A k \in Keys(a) : Get(a, k).handler \in 1 .. made \/ (k \in {key} /\ Get(a, k).handler = None)
      BY <1>2, <1>3, <1>5, <1>6
    <3>2. ASSUME NEW j \in Keys(a), NEW k \in Keys(a), Get(a, j).handler = Get(a, k).handler
          PROVE  j = k
      <4>1. ASSUME NEW i \in Keys(a), i # key
            PROVE  Get(a, i).handler # None /\ Get(a, i) = Get(registrations, i)
        BY <1>2, <1>5, <1>6, <4>1, NoneAssumption
      <4>2. CASE j # key /\ k # key
        BY <1>1, <1>6, <3>2, <4>1, <4>2 DEF Named
      <4>3. CASE j = key \/ k = key
        BY <1>3, <1>5, <3>2, <4>1, <4>3
      <4> QED BY <4>2, <4>3
    <3> QED BY <3>1, <3>2 DEF Named
  <2> QED BY <1>2, <1>5, <2>1 DEF Good
<1>8. PICK after \in Calls([regs |-> a, made |-> made]) :
         registrations' = restore_handler(after.regs, key, h) /\ made' = after.made
  BY DEF Call, a, h, reg
<1>9. PICK b, m : /\ after = [regs |-> b, made |-> m]
                  /\ Good(b, m, keys, {key}) /\ Later(a, made, b, m, keys)
  BY <1>1, <1>7, CallsGood
<1>10. registrations' = restore_handler(b, key, h) /\ made' = m
  BY <1>8, <1>9
<1>11. /\ IsArena(b, Registrations) /\ Spent(b, keys, m) /\ Named(b, m, {key})
       /\ m \in 0 .. MaxRegistrations /\ m \in Nat /\ made <= m
       /\ Keys(b) = {k \in Key : Get(b, k) # None}
  BY <1>9, RoutingAssumption, Resolved DEF Good, Later, None
<1>12. \A k \in Keys(b) : k # key =>
          \/ k \in Keys(registrations) /\ Get(b, k) = Get(registrations, k)
          \/ k \notin keys /\ Get(b, k).handler > made
  BY <1>2, <1>5, <1>6, <1>9 DEF Later
<1>13. CASE ~Contains(b, key)
  <2>1. registrations' = b /\ key \notin Keys(b)
    BY <1>10, <1>11, <1>13 DEF restore_handler, Contains, None
  <2>2. Named(b, m, {})
    BY <1>11, <2>1 DEF Named
  <2>3. Later(registrations, made, b, m, keys)
    BY <1>11, <1>12, <2>1 DEF Later
  <2>4. Spent(b, keys', m)
    BY <1>11 DEF Spent
  <2> QED BY <1>1, <1>10, <1>11, <2>1, <2>2, <2>3, <2>4 DEF Regs, Good
<1>14. CASE Contains(b, key)
  <2>1. key \in Keys(b) /\ Get(b, key) = away
    BY <1>1, <1>5, <1>9, <1>11, <1>14 DEF Later, Contains, None
  <2> DEFINE c == Put(b, key, reg)
  <2>2. registrations' = c
    BY <1>3, <1>10, <1>14, <2>1 DEF restore_handler
  <2>3. /\ IsArena(c, Registrations) /\ Get(c, key) = reg
        /\ \A k \in Key : k # key => Get(c, k) = Get(b, k)
        /\ Spent(c, keys, m)
    BY <1>1, <1>2, <1>11, <1>14, PutMap, SpentPut DEF None
  <2>4. Keys(c) = Keys(b)
    <3>1. Keys(c) = {k \in Key : Get(c, k) # None}
      BY <2>3, Resolved DEF None
    <3> QED BY <1>1, <1>2, <1>11, <2>1, <2>3, <3>1
  <2> HIDE DEF c
  <2>5. \A k \in Keys(c) :
           \/ k \in Keys(registrations) /\ Get(c, k) = Get(registrations, k)
           \/ k \notin keys /\ k # key /\ Get(c, k).handler > made
    BY <1>2, <1>11, <1>12, <2>3, <2>4 DEF reg
  <2>6. Named(c, m, {})
    <3>1. \A k \in Keys(c) : Get(c, k).handler \in 1 .. m
      <4>1. h \in 1 .. m
        BY <1>2, <1>11
      <4>2. \A k \in Keys(b) : k # key => Get(b, k).handler \in 1 .. m
        BY <1>11 DEF Named
      <4> QED BY <1>11, <2>3, <2>4, <4>1, <4>2 DEF h
    <3>2. ASSUME NEW j \in Keys(c), NEW k \in Keys(c), Get(c, j).handler = Get(c, k).handler
          PROVE  j = k
      <4>1. CASE j # key /\ k # key
        BY <1>11, <2>3, <2>4, <3>2, <4>1 DEF Named
      <4>2. ASSUME NEW i \in Keys(c), i # key PROVE Get(c, i).handler # h
        <5>1. CASE i \in Keys(registrations) /\ Get(c, i) = Get(registrations, i)
          BY <1>1, <1>2, <4>2, <5>1 DEF Named, h, reg
        <5>2. CASE Get(c, i).handler > made
          BY <1>2, <1>11, <3>1, <5>2
        <5> QED BY <2>5, <5>1, <5>2
      <4>3. CASE j = key \/ k = key
        BY <2>3, <3>2, <4>2, <4>3 DEF h
      <4> QED BY <4>1, <4>3
    <3> QED BY <3>1, <3>2 DEF Named
  <2>7. Later(registrations, made, c, m, keys)
    BY <1>11, <2>5 DEF Later
  <2>8. Spent(c, keys', m)
    BY <2>3 DEF Spent
  <2> QED BY <1>1, <1>10, <1>11, <2>2, <2>3, <2>6, <2>7, <2>8 DEF Regs, Good
<1> QED BY <1>13, <1>14

\* The registrations made at startup.
LEMMA InitRegs == Init => Regs
<1> SUFFICES ASSUME Init PROVE Regs
    OBVIOUS
<1> USE RoutingAssumption, NoneAssumption
<1>1. PICK legs \in [1 .. Configured -> Legs] :
         registrations = [slots |-> [i \in 1 .. Configured |->
                              [generation |-> 0, value |-> Registration(legs[i], i)]], free |-> <<>>]
  BY DEF Init
<1>2. made = Configured /\ keys = {} /\ Configured \in Nat \ {0} /\ 0 \in Generation
  <2>1. made = Configured /\ keys = {}
    BY Zenon DEF Init
  <2>2. Configured \in Nat \ {0}
    OBVIOUS
  <2>3. 0 \in Generation
    BY GenModAssumption DEF Generation
  <2> QED BY <2>1, <2>2, <2>3
<1> DEFINE S == registrations.slots
<1>3. /\ S = [i \in 1 .. Configured |-> [generation |-> 0, value |-> Registration(legs[i], i)]]
      /\ registrations.free = <<>> /\ registrations = [slots |-> S, free |-> registrations.free]
  BY <1>1
<1>4. \A i \in 1 .. Configured : /\ Registration(legs[i], i) \in Registrations
                                 /\ Registration(legs[i], i).handler = i
  BY <1>2 DEF Registration, Registrations, Legs
<1>5. ASSUME NEW i \in 1 .. Configured
      PROVE  /\ S[i] \in Slot(Registrations) /\ S[i].generation = 0 /\ S[i].value # NoValue
             /\ S[i].value.handler = i
  <2>1. S[i] = [generation |-> 0, value |-> Registration(legs[i], i)]
    BY <1>3
  <2> DEFINE v == Registration(legs[i], i)
  <2>2. v \in Registrations /\ v.handler = i
    BY <1>4
  <2> HIDE DEF S, v
  <2> QED BY <1>2, <2>1, <2>2 DEF Slot, None, v
<1>6. \A i \in 1 .. Configured : S[i] \in Slot(Registrations)
  BY <1>5
<1>7. S \in Seq(Slot(Registrations)) /\ DOMAIN S = 1 .. Configured
  <2>1. S \in [1 .. Configured -> Slot(Registrations)]
    BY <1>3, <1>6
  <2> QED BY <1>2, <2>1
<1>8. /\ registrations.free \in Seq(Nat \ {0}) /\ IsInjective(registrations.free)
      /\ Range(registrations.free) = {}
  BY <1>3 DEF IsInjective, Range
<1>9. {i \in DOMAIN S : S[i].value = NoValue} = {}
  BY <1>5, <1>7
<1>10. IsArena(registrations, Registrations)
  BY <1>3, <1>7, <1>8, <1>9 DEF IsArena
<1>11. Spent(registrations, {}, made)
  BY <1>2, <1>5, <1>7 DEF Spent
<1>12. \A k \in Keys(registrations) : /\ k.index \in 1 .. Configured /\ k.generation = 0 
                                     /\ k = [index |-> k.index, generation |-> 0]
                                     /\ Get(registrations, k).handler = k.index
  <2>1. ASSUME NEW i \in 1 .. Configured
        PROVE  Get(registrations, [index |-> i, generation |-> 0]).handler = i
    BY <1>5, <1>7 DEF Get, HasSlot
  <2> QED BY <1>5, <1>7, <2>1 DEF Keys
<1>13. Named(registrations, made, {})
  BY <1>2, <1>12 DEF Named
<1> QED BY <1>2, <1>10, <1>11, <1>13 DEF Regs, Good

\* A snapshot of the live keys, or of some.
LEMMA SnapshotRegs ==
    ASSUME Regs, UNCHANGED <<registrations, made>>, keys' \in SUBSET Keys(registrations)
    PROVE  Regs'
<1>1. Keys(registrations) \subseteq Key /\ IsArena(registrations, Registrations)
  BY LiveReg DEF Regs, Good
<1>2. ASSUME NEW k \in Keys(registrations)
      PROVE  /\ k.index \in DOMAIN registrations.slots
             /\ k.generation = registrations.slots[k.index].generation
             /\ registrations.slots[k.index].value # NoValue
  BY DEF Keys
<1>3. \A i \in DOMAIN registrations.slots : registrations.slots[i].generation \in Int
  BY <1>1, SlotFields, GenModAssumption DEF IsArena, Generation
<1>4. Spent(registrations, keys', made)
  <2>1. Spent(registrations, keys, made)
    BY DEF Regs, Good
  <2> QED BY <1>2, <1>3, <2>1 DEF Spent
<1> QED BY <1>1, <1>4 DEF Regs, Good

\* A key less of the snapshot.
LEMMA FewerRegs ==
    ASSUME Regs, UNCHANGED <<registrations, made>>, keys' \in SUBSET keys
    PROVE  Regs'
<1>1. Spent(registrations, keys', made)
  BY DEF Spent, Regs, Good
<1> QED BY <1>1 DEF Regs, Good

\* Every step keeps the registrations as they should be.
LEMMA NextRegs == Regs /\ [Next]_vars => Regs'
<1> SUFFICES ASSUME Regs, [Next]_vars PROVE Regs'
    OBVIOUS
<1>1. ASSUME NEW key \in keys, TakeKey(key) PROVE keys' \in SUBSET keys
  BY <1>1 DEF TakeKey
<1>2. CASE UNCHANGED <<registrations, made, keys>>
  BY <1>2, FewerRegs
<1>3. CASE SweepStart
  BY <1>3, SnapshotRegs DEF SweepStart
<1>4. CASE RouteFrame
  BY <1>4, SnapshotRegs DEF RouteFrame, begin_packet
<1>5. CASE RouteSkip
  BY <1>1, <1>5, FewerRegs DEF RouteSkip
<1>6. CASE RouteCall
  <2>1. PICK key \in keys : \E outcome \in Outcome : TakeKey(key) /\ Applies(key) /\ on_packet(key, outcome)
    BY <1>6 DEF RouteCall
  <2>2. Contains(registrations, key) /\ Call(key)
    BY <2>1 DEF Applies, on_packet
  <2> QED BY <1>1, <2>1, <2>2, CallRegs
<1>7. CASE SweepNext
  <2>1. PICK key \in keys : /\ TakeKey(key)
                            /\ IF Contains(registrations, key) THEN Call(key)
                               ELSE UNCHANGED <<registrations, made>>
    BY <1>7 DEF SweepNext
  <2> QED BY <1>1, <2>1, CallRegs, FewerRegs
<1>8. CASE Rebound \/ SweepDone \/ SkipFrame \/ RouteDone \/ DrainDone \/ UNCHANGED vars
  BY <1>2, <1>8 DEF Rebound, SweepDone, SkipFrame, RouteDone, DrainDone, vars
<1>9. ASSUME NEW c \in Captures, on_readable(c) PROVE Regs'
  BY <1>2, <1>9 DEF on_readable
<1> QED BY <1>3, <1>4, <1>5, <1>6, <1>7, <1>8, <1>9 DEF Next

(* ----------------------------- what is fed ------------------------------ *)

\* What one on_packet adds to what was observed.
LEMMA OnPacketSeen ==
    ASSUME seen \in Observed, NEW key, NEW outcome \in Outcome, on_packet(key, outcome),
           Get(registrations, key).handler \in Nat
    PROVE  /\ seen' \in Observed
           /\ seen'.due = seen.due
           /\ seen'.fed = Append(seen.fed, Get(registrations, key).handler)
           /\ seen'.outcomes = seen.outcomes \cup {outcome}
<1> DEFINE h == Get(registrations, key).handler
           fed == [seen EXCEPT !.fed = Append(@, h), !.outcomes = @ \union {outcome},
                               !.told = NoDelivery]
<1>1. NoDelivery \in Delivery /\ Append(seen.fed, h) \in Seq(Nat)
  <2>1. NoDelivery \in Delivery
    BY DEF NoDelivery, Delivery
  <2>2. seen.fed \in Seq(Nat)
    BY DEF Observed
  <2> QED BY <2>1, <2>2
<1> HIDE DEF h
<1>2. /\ fed \in Observed /\ fed.due = seen.due /\ fed.fed = Append(seen.fed, h)
      /\ fed.outcomes = seen.outcomes \cup {outcome}
  BY <1>1 DEF Observed
<1> HIDE DEF fed
<1>3. \/ seen' = fed
      \/ \E e \in Captures, copies \in SUBSET Datagrams :
         \E failed \in SUBSET copies :
            seen' = [fed EXCEPT !.told = [ok |-> deliver(e, copies, failed).ok, egress |-> e,
                                          copies |-> copies],
                                !.out = Emitted(e, deliver(e, copies, failed).out)]
  BY DEF on_packet, fed, h
<1>4. CASE seen' = fed
  BY <1>2, <1>4 DEF h
<1>5. ASSUME NEW e \in Captures, NEW copies \in SUBSET Datagrams, NEW failed \in SUBSET copies,
             seen' = [fed EXCEPT !.told = [ok |-> deliver(e, copies, failed).ok, egress |-> e,
                                           copies |-> copies],
                                 !.out = Emitted(e, deliver(e, copies, failed).out)]
      PROVE  /\ seen' \in Observed /\ seen'.due = fed.due /\ seen'.fed = fed.fed
             /\ seen'.outcomes = fed.outcomes
  <2>1. deliver(e, copies, failed).ok \in BOOLEAN
    BY Zenon DEF deliver
  <2>2. [ok |-> deliver(e, copies, failed).ok, egress |-> e, copies |-> copies] \in Delivery
    BY <2>1 DEF Delivery
  <2>3. Emitted(e, deliver(e, copies, failed).out) \in [Captures -> [Datagrams -> Nat]]
    <3>1. seen.out \in [Captures -> [Datagrams -> Nat]]
      BY DEF Observed
    <3> QED BY <3>1 DEF Emitted
  <2> DEFINE told == [ok |-> deliver(e, copies, failed).ok, egress |-> e, copies |-> copies]
             out == Emitted(e, deliver(e, copies, failed).out)
  <2>4. seen' = [fed EXCEPT !.told = told, !.out = out]
    BY <1>5
  <2> HIDE DEF told, out
  <2>5. told \in Delivery /\ out \in [Captures -> [Datagrams -> Nat]]
    BY <2>2, <2>3 DEF told, out
  <2> QED BY <1>2, <2>4, <2>5, Zenon DEF Observed
<1> QED BY <1>2, <1>3, <1>4, <1>5 DEF h

\* The handlers due for the packet: each of the snapshot that is still there is due exactly if it
\* applies, and is yet to be fed; every other one that is due has been fed.
Fed ==
    /\ seen \in Observed
    /\ at = "route" =>
         /\ Range(seen.fed) \subseteq seen.due /\ seen.due \subseteq 1 .. made
         /\ \A i, j \in DOMAIN seen.fed : seen.fed[i] = seen.fed[j] => i = j
         /\ \A k \in Keys(registrations) \cap keys :
              /\ Applies(k) <=> Get(registrations, k).handler \in seen.due
              /\ Get(registrations, k).handler \notin Range(seen.fed)
         /\ \A k \in Keys(registrations) \ keys :
              Get(registrations, k).handler \in seen.due => Get(registrations, k).handler \in Range(seen.fed)

\* At startup no packet is routed.
LEMMA InitFed == Init => Fed
BY UnseenType DEF Init, Fed

\* A sequence of distinct members stays one when it gets another member.
LEMMA AppendNew ==
    ASSUME NEW s \in Seq(Nat), NEW x \in Nat, x \notin Range(s),
           \A i, j \in DOMAIN s : s[i] = s[j] => i = j
    PROVE  /\ Range(Append(s, x)) = Range(s) \cup {x}
           /\ \A i, j \in DOMAIN Append(s, x) : Append(s, x)[i] = Append(s, x)[j] => i = j
<1> DEFINE t == Append(s, x)
<1>1. /\ DOMAIN s = 1 .. Len(s) /\ Len(s) \in Nat /\ DOMAIN t = 1 .. Len(s) + 1
      /\ t[Len(s) + 1] = x /\ \A i \in 1 .. Len(s) : t[i] = s[i]
  OBVIOUS
<1> HIDE DEF t
<1>2. Range(t) = Range(s) \cup {x}
  <2>1. 1 .. Len(s) + 1 = 1 .. Len(s) \cup {Len(s) + 1}
    BY <1>1
  <2> QED BY <1>1, <2>1 DEF Range
<1>3. \A i \in 1 .. Len(s) : s[i] # x
  BY <1>1 DEF Range
<1>4. ASSUME NEW i \in DOMAIN t, NEW j \in DOMAIN t, t[i] = t[j] PROVE i = j
  <2>1. /\ i \in 1 .. Len(s) \/ i = Len(s) + 1
        /\ j \in 1 .. Len(s) \/ j = Len(s) + 1
    BY <1>1
  <2> QED BY <1>1, <1>3, <1>4, <2>1
<1> QED BY <1>2, <1>4 DEF t

\* A new packet.
LEMMA RouteFrameFed ==
    ASSUME Shape, Regs, Fed, RouteFrame
    PROVE  Fed'
<1>1. /\ at' = "route" /\ keys' = Keys(registrations) /\ UNCHANGED <<registrations, made>>
      /\ drain' = [drain EXCEPT !.reads = @ + 1]
      /\ seen' = [Unseen EXCEPT !.due =
            {Get(registrations, k).handler : k \in {x \in Keys(registrations) : Applies(x)}}]
  BY DEF RouteFrame, begin_packet
<1>2. drain'.ingress = drain.ingress
  BY <1>1 DEF Shape, Drain
<1>3. \A k \in Keys(registrations) : Get(registrations, k).handler \in 1 .. made
  BY LiveReg
<1> DEFINE D == {Get(registrations, k).handler : k \in {x \in Keys(registrations) : Applies(x)}}
<1>4. D \subseteq 1 .. made /\ D \subseteq Nat
  BY <1>3
<1>5. seen' \in Observed /\ seen'.fed = <<>> /\ seen'.due = D
  <2>1. Unseen \in Observed /\ Unseen.fed = <<>>
    BY UnseenType DEF Unseen
  <2> HIDE DEF D
  <2> QED BY <1>1, <1>4, <2>1 DEF Observed, D
<1>6. ASSUME NEW k \in Keys(registrations) PROVE Applies(k)' <=> Get(registrations, k).handler \in D
  <2>1. Applies(k)' <=> Applies(k)
    BY <1>1, <1>2 DEF Applies
  <2>2. \A j \in Keys(registrations) : Get(registrations, j).handler = Get(registrations, k).handler => j = k
    BY DEF Regs, Good, Named
  <2> QED BY <2>1, <2>2
<1> HIDE DEF D
<1>7. Range(seen'.fed) = {} /\ DOMAIN seen'.fed = {}
  BY <1>5 DEF Range
<1> QED BY <1>1, <1>4, <1>5, <1>6, <1>7 DEF Fed

\* A call of a handler that applies.
LEMMA RouteCallFed ==
    ASSUME Shape, Regs, Fed, RouteCall
    PROVE  Fed'
<1>1. PICK key \in keys : \E outcome \in Outcome :
         TakeKey(key) /\ Applies(key) /\ on_packet(key, outcome)
  BY DEF RouteCall
<1>2. PICK outcome \in Outcome : TakeKey(key) /\ Applies(key) /\ on_packet(key, outcome)
  BY <1>1
<1>3. /\ at = "route" /\ UNCHANGED <<at, drain>> /\ keys' = keys \ {key}
      /\ Contains(registrations, key) /\ Call(key)
  BY <1>2 DEF RouteCall, TakeKey, Applies, on_packet
<1>4. Regs' /\ Later(registrations, made, registrations', made', keys)
  BY <1>3, CallRegs
<1> DEFINE h == Get(registrations, key).handler
<1>5. /\ key \in Keys(registrations) /\ h \in Nat /\ h \in 1 .. made /\ made \in Nat
      /\ \A k \in Keys(registrations) : Get(registrations, k).handler = h => k = key
  BY <1>3, LiveReg DEF Regs, Good, Contains, None, Named
<1>6. h \in seen.due /\ h \notin Range(seen.fed)
  BY <1>2, <1>3, <1>5 DEF Fed
<1>7. seen' \in Observed /\ seen'.due = seen.due /\ seen'.fed = Append(seen.fed, h)
  BY <1>2, <1>5, OnPacketSeen DEF Fed
<1> HIDE DEF h
<1>8. /\ Range(seen'.fed) = Range(seen.fed) \cup {h}
      /\ \A i, j \in DOMAIN seen'.fed : seen'.fed[i] = seen'.fed[j] => i = j
  <2>1. seen.fed \in Seq(Nat) /\ \A i, j \in DOMAIN seen.fed : seen.fed[i] = seen.fed[j] => i = j
    BY <1>3 DEF Fed, Observed
  <2> QED BY <1>5, <1>6, <1>7, <2>1, AppendNew
<1>9. made' \in Nat /\ made <= made'
  BY <1>4 DEF Later
<1>10. seen'.due \subseteq 1 .. made'
  <2>1. seen'.due \subseteq 1 .. made
    BY <1>3, <1>7 DEF Fed
  <2>2. 1 .. made \subseteq 1 .. made'
    BY <1>5, <1>9
  <2> QED BY <2>1, <2>2
<1>11. ASSUME NEW k \in Keys(registrations') \cap keys'
       PROVE  /\ Applies(k)' <=> Get(registrations', k).handler \in seen'.due
              /\ Get(registrations', k).handler \notin Range(seen'.fed)
  <2>1. k \in Keys(registrations) \cap keys /\ Get(registrations', k) = Get(registrations, k) /\ k # key
    BY <1>3, <1>4 DEF Later
  <2>2. Applies(k)' <=> Applies(k)
    BY <1>3, <2>1 DEF Applies, Contains
  <2>3. Get(registrations, k).handler # h
    BY <1>5, <2>1
  <2> QED BY <1>3, <1>7, <1>8, <2>1, <2>2, <2>3 DEF Fed
<1>12. ASSUME NEW k \in Keys(registrations') \ keys', Get(registrations', k).handler \in seen'.due
       PROVE  Get(registrations', k).handler \in Range(seen'.fed)
  <2>1. CASE k \in Keys(registrations) /\ Get(registrations', k) = Get(registrations, k)
    BY <1>3, <1>7, <1>8, <1>12, <2>1 DEF Fed, h
  <2>2. CASE Get(registrations', k).handler > made
    <3>1. Get(registrations', k).handler \in 1 .. made
      BY <1>3, <1>7, <1>12 DEF Fed
    <3> QED BY <1>5, <2>2, <3>1
  <2> QED BY <1>4, <2>1, <2>2 DEF Later
<1> QED BY <1>3, <1>6, <1>7, <1>8, <1>10, <1>11, <1>12 DEF Fed

\* A key whose registration is gone or does not match.
LEMMA RouteSkipFed ==
    ASSUME Shape, Regs, Fed, RouteSkip
    PROVE  Fed'
<1>1. PICK key \in keys : TakeKey(key) /\ ~Applies(key)
  BY DEF RouteSkip
<1>2. at = "route" /\ UNCHANGED <<registrations, made, at, drain, seen>> /\ keys' = keys \ {key}
  BY <1>1 DEF RouteSkip, TakeKey
<1>3. key \in Keys(registrations) => Get(registrations, key).handler \notin seen.due
  BY <1>1, <1>2 DEF Fed
<1>4. \A k : Applies(k)' <=> Applies(k)
  BY <1>2 DEF Applies
<1> QED BY <1>2, <1>3, <1>4 DEF Fed

\* Every step feeds only handlers that are due, each once.
LEMMA NextFed == Shape /\ Regs /\ Fed /\ [Next]_vars => Fed'
<1> SUFFICES ASSUME Shape, Regs, Fed, [Next]_vars PROVE Fed'
    OBVIOUS
<1>1. CASE UNCHANGED vars
  BY <1>1 DEF Fed, vars, Applies
<1>2. CASE at' # "route" /\ (seen' = seen \/ seen' = Unseen)
  BY <1>2, UnseenType DEF Fed
<1>3. CASE Rebound \/ SweepDone \/ SkipFrame \/ DrainDone \/ SweepNext
  BY <1>2, <1>3 DEF Rebound, SweepDone, SkipFrame, DrainDone, SweepNext, NextFrame
<1>4. CASE SweepStart \/ RouteDone
  BY <1>2, <1>4 DEF SweepStart, RouteDone
<1>5. ASSUME NEW c \in Captures, on_readable(c) PROVE Fed'
  BY <1>2, <1>5 DEF on_readable
<1> QED BY <1>1, <1>3, <1>4, <1>5, RouteFrameFed, RouteCallFed, RouteSkipFed DEF Next

\* The handlers fed are those due, each once.
LEMMA FedIsOnce == Fed => FedOnce
BY DEF Fed, FedOnce

(* ----------------------------- what is sent ----------------------------- *)

\* Whether a datagram is noted as out on a capture for the packet that is routed.
Noted(cs, c, d) == cs[c].sent_packet = egress.packet /\ d \in cs[c].sent

\* The datagrams out for the packet are exactly those noted, once each.
Sent ==
    /\ \A c \in Captures : captures[c].sent_packet <= egress.packet
    /\ at = "route" =>
         \A c \in Captures, d \in Datagrams : seen.out[c][d] = IF Noted(captures, c, d) THEN 1 ELSE 0
    /\ OkIsOut

\* Nothing is out before the first handler is fed.
LEMMA UnseenOut ==
    /\ \A c \in Captures, d \in Datagrams : Unseen.out[c][d] = 0
    /\ Unseen.told.ok = FALSE
BY DEF Unseen, NoDelivery

\* At startup nothing was sent.
LEMMA InitSent == Init => Sent
<1> SUFFICES ASSUME Init PROVE Sent
    OBVIOUS
<1>1. \A c \in Captures : captures[c].sent_packet = 0
  BY DEF Init
<1>2. egress.packet = 0 /\ at = "idle" /\ seen = Unseen
  BY DEF Init
<1> QED BY <1>1, <1>2, UnseenOut DEF Sent, OkIsOut

\* A delivery: what it sends it notes, what was noted it does not send, and it is told Ok only if a
\* copy is out.
LEMMA DeliverSent ==
    ASSUME Shape, Sent, seen \in Observed, at = "route", NEW e \in Captures,
           NEW copies \in SUBSET Datagrams, copies # {}, NEW failed \in SUBSET copies
    PROVE  LET r == deliver(e, copies, failed)
           IN  /\ \A c \in Captures : r.captures[c].sent_packet <= egress.packet
               /\ \A c \in Captures, d \in Datagrams :
                     Emitted(e, r.out)[c][d] = IF Noted(r.captures, c, d) THEN 1 ELSE 0
               /\ r.ok /\ ~r.captures[e].taken => \E d \in copies : Emitted(e, r.out)[e][d] > 0
<1> DEFINE r == deliver(e, copies, failed)
           already == already_sent(e, copies)
           out == (copies \ already) \ failed
           next == record_sent(e, out)
           O(s) == Emitted(e, s)
<1>1. /\ captures \in [Captures -> Capture] /\ egress.packet \in Nat /\ egress.routing
      /\ \A c \in Captures : captures[c].sent_packet <= egress.packet
      /\ \A c \in Captures, d \in Datagrams : seen.out[c][d] = IF Noted(captures, c, d) THEN 1 ELSE 0
      /\ seen.out \in [Captures -> [Datagrams -> Nat]]
  BY DEF Shape, Sent, Observed
<1>2. already = {d \in copies : Noted(captures, e, d)}
  BY <1>1 DEF already_sent, Noted
<1>3. \A s \in SUBSET Datagrams : \A c \in Captures, d \in Datagrams :
         O(s)[c][d] = IF c = e /\ d \in s THEN seen.out[c][d] + 1 ELSE seen.out[c][d]
  BY <1>1 DEF Emitted
<1>4. \A d \in already : seen.out[e][d] = 1
  BY <1>1, <1>2
<1>5. CASE copies \ already = {} \/ captures[e].taken \/ e \notin bound
  <2>1. /\ r.captures = captures /\ r.out = {}
        /\ r.ok /\ ~captures[e].taken => copies \ already = {}
    BY <1>5 DEF deliver
  <2>2. \A c \in Captures, d \in Datagrams : O(r.out)[c][d] = seen.out[c][d]
    <3> HIDE DEF r, O
    <3>1. \A c \in Captures, d \in Datagrams : O({})[c][d] = seen.out[c][d]
      BY <1>3
    <3> QED BY <2>1, <3>1
  <2>3. copies \ already = {} => \E d \in copies : d \in already
    OBVIOUS
  <2> HIDE DEF r, already
  <2>4. ASSUME r.ok, ~captures[e].taken PROVE \E d \in copies : O(r.out)[e][d] > 0
    <3>1. PICK d \in copies : d \in already
      BY <2>1, <2>3, <2>4
    <3>2. O(r.out)[e][d] = 1
      BY <1>4, <2>2, <3>1
    <3> QED BY <3>2
  <2>5. \A c \in Captures : r.captures[c].sent_packet <= egress.packet
    BY <1>1, <2>1
  <2>6. \A c \in Captures, d \in Datagrams : O(r.out)[c][d] = IF Noted(r.captures, c, d) THEN 1 ELSE 0
    <3>1. \A c \in Captures, d \in Datagrams : Noted(r.captures, c, d) <=> Noted(captures, c, d)
      BY <2>1 DEF Noted
    <3>2. ASSUME NEW c \in Captures, NEW d \in Datagrams
          PROVE  O(r.out)[c][d] = IF Noted(captures, c, d) THEN 1 ELSE 0
      <4>1. seen.out[c][d] = IF Noted(captures, c, d) THEN 1 ELSE 0
        BY <1>1, Zenon
      <4> QED BY <2>2, <4>1
    <3> QED BY <3>1, <3>2
  <2>7. r.ok /\ ~r.captures[e].taken => \E d \in copies : O(r.out)[e][d] > 0
    BY <2>1, <2>4
  <2> QED BY <2>5, <2>6, <2>7, Zenon DEF r, O
<1>6. CASE ~(copies \ already = {} \/ captures[e].taken \/ e \notin bound)
  <2>1. r.captures = next /\ r.out = out /\ r.ok = (already # {} \/ out # {})
    BY <1>6 DEF deliver
  <2>2. out \in SUBSET Datagrams /\ \A d \in out : d \in copies /\ ~Noted(captures, e, d)
    BY <1>2
  <2> HIDE DEF r, already, out, O
  <2>3. /\ \A c \in Captures : next[c].sent_packet <= egress.packet
        /\ \A c \in Captures : c # e => next[c] = captures[c]
        /\ \A d \in Datagrams : Noted(next, e, d) <=> d \in out \/ Noted(captures, e, d)
    <3>1. CASE out = {}
      BY <1>1, <3>1 DEF record_sent, Noted
    <3>2. CASE out # {}
      <4> DEFINE s == IF captures[e].sent_packet = egress.packet THEN captures[e].sent \cup out ELSE out
      <4>1. next = [captures EXCEPT ![e].sent_packet = egress.packet, ![e].sent = s]
        BY <1>1, <3>2 DEF record_sent
      <4>2. /\ next[e].sent_packet = egress.packet /\ next[e].sent = s
            /\ \A c \in Captures : c # e => next[c] = captures[c]
        <5> DEFINE noted == [[captures[e] EXCEPT !.sent_packet = egress.packet] EXCEPT !.sent = s]
        <5>1. next = [captures EXCEPT ![e] = noted]
          BY <1>1, <4>1, Zenon
        <5>2. captures[e] \in Capture
          BY <1>1
        <5> HIDE DEF s, next
        <5>3. noted.sent_packet = egress.packet /\ noted.sent = s
          BY <5>2 DEF Capture
        <5> HIDE DEF noted
        <5>4. captures \in [Captures -> Capture]
          BY <1>1
        <5> QED BY <5>1, <5>3, <5>4
      <4>3. \A c \in Captures : captures[c].sent_packet <= egress.packet
        BY <1>1
      <4>4. egress.packet \in Nat
        BY <1>1
      <4> HIDE DEF next, s
      <4>5. \A c \in Captures : next[c].sent_packet <= egress.packet
        BY <4>2, <4>3, <4>4
      <4>6. \A d \in Datagrams : Noted(next, e, d) <=> d \in s
        BY <4>2 DEF Noted
      <4>7. \A d \in Datagrams : d \in s <=> d \in out \/ Noted(captures, e, d)
        BY DEF s, Noted
      <4> QED BY <4>2, <4>5, <4>6, <4>7
    <3> QED BY <3>1, <3>2
  <2> HIDE DEF next
  <2>4. ASSUME NEW c \in Captures, NEW d \in Datagrams
        PROVE  O(out)[c][d] = IF Noted(next, c, d) THEN 1 ELSE 0
    <3>1. seen.out[c][d] = IF Noted(captures, c, d) THEN 1 ELSE 0
      BY <1>1, Zenon
    <3>2. O(out)[c][d] = IF c = e /\ d \in out THEN seen.out[c][d] + 1 ELSE seen.out[c][d]
      BY <1>3, <2>2
    <3>3. CASE c # e
      <4>1. Noted(next, c, d) <=> Noted(captures, c, d)
        BY <2>3, <3>3 DEF Noted
      <4> QED BY <3>1, <3>2, <3>3, <4>1
    <3>4. CASE c = e
      <4>1. Noted(next, c, d) <=> d \in out \/ Noted(captures, c, d)
        BY <2>3, <3>4
      <4>2. d \in out => ~Noted(captures, c, d)
        BY <2>2, <3>4
      <4>3. CASE d \in out
        <5>1. seen.out[c][d] = 0 /\ O(out)[c][d] = seen.out[c][d] + 1
          BY <3>1, <3>2, <3>4, <4>2, <4>3
        <5> QED BY <4>1, <4>3, <5>1
      <4>4. CASE d \notin out
        BY <3>1, <3>2, <4>1, <4>4
      <4> QED BY <4>3, <4>4
    <3> QED BY <3>3, <3>4
  <2>5. ASSUME r.ok PROVE \E d \in copies : O(out)[e][d] > 0
    <3>1. PICK d \in copies : d \in already \/ d \in out
      BY <1>2, <2>1, <2>2, <2>5, Zenon
    <3>2. O(out)[e][d] = 1
      BY <1>2, <2>3, <2>4, <3>1
    <3> QED BY <3>2
  <2> QED BY <2>1, <2>3, <2>4, <2>5 DEF r, O
<1> QED BY <1>5, <1>6 DEF r

\* A call of a handler.
LEMMA RouteCallSent ==
    ASSUME Shape, Regs, Fed, Sent, RouteCall
    PROVE  Sent'
<1>1. PICK key \in keys : \E outcome \in Outcome : Applies(key) /\ on_packet(key, outcome)
  BY DEF RouteCall
<1>2. PICK outcome \in Outcome : Applies(key) /\ on_packet(key, outcome)
  BY <1>1
<1>3. at = "route" /\ UNCHANGED <<at, egress>> /\ seen \in Observed
  BY DEF RouteCall, Fed
<1> DEFINE fed == [seen EXCEPT !.fed = Append(@, Get(registrations, key).handler),
                               !.outcomes = @ \union {outcome}, !.told = NoDelivery]
<1>4. fed.told.ok = FALSE /\ fed.out = seen.out /\ \A t, o :
         /\ [fed EXCEPT !.told = t, !.out = o].told = t
         /\ [fed EXCEPT !.told = t, !.out = o].out = o
  BY <1>3 DEF Observed, NoDelivery
<1>5. CASE seen' = fed /\ UNCHANGED captures
  BY <1>3, <1>4, <1>5 DEF Sent, OkIsOut, Noted
<1> HIDE DEF fed
<1>6. ASSUME NEW e \in Captures, NEW copies \in SUBSET Datagrams, copies # {},
             NEW failed \in SUBSET copies,
             captures' = deliver(e, copies, failed).captures,
             seen' = [fed EXCEPT !.told = [ok |-> deliver(e, copies, failed).ok, egress |-> e,
                                           copies |-> copies],
                                 !.out = Emitted(e, deliver(e, copies, failed).out)]
      PROVE  Sent'
  <2> DEFINE r == deliver(e, copies, failed)
  <2>1. /\ \A c \in Captures : r.captures[c].sent_packet <= egress.packet
        /\ \A c \in Captures, d \in Datagrams :
              Emitted(e, r.out)[c][d] = IF Noted(r.captures, c, d) THEN 1 ELSE 0
        /\ r.ok /\ ~r.captures[e].taken => \E d \in copies : Emitted(e, r.out)[e][d] > 0
    BY <1>3, <1>6, DeliverSent, Zenon
  <2>2. /\ seen'.told = [ok |-> r.ok, egress |-> e, copies |-> copies]
        /\ seen'.out = Emitted(e, r.out)
    BY <1>4, <1>6
  <2> HIDE DEF r
  <2> QED BY <1>3, <1>6, <2>1, <2>2 DEF Sent, OkIsOut, Noted, r
<1> QED BY <1>2, <1>5, <1>6 DEF on_packet, fed

\* Every step: what is out is noted, once.
LEMMA NextSent == Shape /\ Regs /\ Fed /\ Sent /\ [Next]_vars => Sent'
<1> SUFFICES ASSUME Shape, Regs, Fed, Sent, [Next]_vars PROVE Sent'
    OBVIOUS
<1>1. /\ captures \in [Captures -> Capture] /\ egress.packet \in Nat
      /\ \A c \in Captures : captures[c].sent_packet \in Nat /\ captures[c].sent_packet <= egress.packet
  BY DEF Shape, Capture, Sent
<1>2. CASE UNCHANGED <<captures, egress, at, seen>>
  BY <1>2 DEF Sent, OkIsOut, Noted
<1>3. CASE /\ \A c \in Captures : captures'[c].sent_packet = captures[c].sent_packet
           /\ egress'.packet = egress.packet /\ at' # "route" /\ seen' = Unseen
  BY <1>1, <1>3, UnseenOut DEF Sent, OkIsOut
<1>4. CASE Rebound \/ SweepNext \/ RouteSkip \/ UNCHANGED vars
  BY <1>2, <1>4 DEF Rebound, SweepNext, RouteSkip, vars
<1>5. CASE SweepStart \/ SweepDone
  BY <1>3, <1>5 DEF SweepStart, SweepDone, Shape
<1>6. CASE RouteDone
  BY <1>1, <1>3, <1>6 DEF RouteDone, Shape
<1>7. ASSUME NEW c \in Captures, on_readable(c) PROVE Sent'
  BY <1>1, <1>3, <1>7 DEF on_readable, Shape, Capture
<1>8. CASE DrainDone
  <2> DEFINE freed == [captures EXCEPT ![drain.ingress].taken = FALSE]
             left == IF AtLimit THEN captures[drain.ingress].buffered ELSE 0
  <2>1. /\ at = "drain" /\ drain.ingress \in Captures /\ at' = "idle"
        /\ UNCHANGED <<egress, seen>> /\ seen = Unseen
    BY <1>8 DEF DrainDone, Shape
  <2>2. \A c \in Captures : captures'[c].sent_packet = captures[c].sent_packet
    BY <1>1, <1>8, <2>1 DEF DrainDone, Capture
  <2> QED BY <1>3, <2>1, <2>2
<1>9. CASE SkipFrame
  <2>1. /\ UNCHANGED <<egress, at, seen>> /\ at = "drain" /\ seen = Unseen
        /\ \A c \in Captures : captures'[c].sent_packet = captures[c].sent_packet
    BY <1>9, NextFrameFacts DEF SkipFrame, Shape
  <2> QED BY <1>3, <2>1
<1>10. CASE RouteFrame
  <2>1. \A c \in Captures : captures'[c].sent_packet = captures[c].sent_packet
    BY <1>10, NextFrameFacts DEF RouteFrame
  <2>2. /\ egress'.packet = egress.packet + 1
        /\ seen' = [Unseen EXCEPT !.due =
             {Get(registrations, k).handler : k \in {x \in Keys(registrations) : Applies(x)}}]
    BY <1>10 DEF RouteFrame, begin_packet
  <2>3. seen'.out = Unseen.out /\ seen'.told = Unseen.told
    BY <2>2 DEF Unseen
  <2>4. \A c \in Captures : captures'[c].sent_packet < egress'.packet
    BY <1>1, <2>1, <2>2
  <2>5. \A c \in Captures : captures'[c].sent_packet \in Nat /\ egress'.packet \in Nat
    BY <1>1, <2>1, <2>2
  <2>6. \A c \in Captures : captures'[c].sent_packet # egress'.packet
                            /\ captures'[c].sent_packet <= egress'.packet
    BY <2>4, <2>5
  <2>7. \A c \in Captures, d \in Datagrams : seen'.out[c][d] = 0 /\ ~Noted(captures, c, d)'
    BY <2>3, <2>6, UnseenOut DEF Noted
  <2>8. OkIsOut'
    BY <2>3, UnseenOut DEF OkIsOut
  <2> QED BY <2>6, <2>7, <2>8 DEF Sent
<1> QED BY <1>4, <1>5, <1>6, <1>7, <1>8, <1>9, <1>10, RouteCallSent DEF Next

\* What is noted is out once, and a delivery that is told Ok is out.
LEMMA SentIsOnce == Sent => SentOnceIfOk
BY DEF Sent, SentOnceIfOk, OnceEach

(* --------------------------- what is counted ---------------------------- *)

\* An outcome o that sums up the outcomes S: the highest disposition there is, and the protocol's
\* type if one has it.
SumsUp(o, S) ==
    /\ o \in Outcome
    /\ \E a \in S : a.disposition = o.disposition
    /\ \A a \in S : a.disposition <= o.disposition
    /\ is_specific(o.type) => \E a \in S : a.type = o.type
    /\ \A a \in S : is_specific(a.type) => a.type = o.type

\* No two protocols claim the packet.
Agree(S) == \A a, b \in S : ~type_mismatch(a, b)

\* The running outcome of route sums up the outcomes so far.
Summed ==
    at = "route" =>
        /\ final_outcome = NoOutcome <=> seen.outcomes = {}
        /\ final_outcome # NoOutcome => final_outcome \in Outcome
        /\ seen.outcomes # {} /\ Agree(seen.outcomes) => SumsUp(final_outcome, seen.outcomes)

\* No outcome stands for "none yet".
LEMMA NoOutcomeIsNone == NoOutcome \notin Outcome
BY NoneAssumption, OutcomeShape DEF NoOutcome

\* One more outcome, folded in by combine.
LEMMA CombineSums ==
    ASSUME NEW S \in SUBSET Outcome, NEW f, NEW x \in Outcome, SumsUp(f, S), Agree(S \cup {x})
    PROVE  SumsUp(combine(f, x), S \cup {x})
<1> DEFINE c == combine(f, x)
<1>1. f \in Outcome
  BY DEF SumsUp
<1>2. ~type_mismatch(f, x)
  BY DEF SumsUp, Agree, type_mismatch
<1>3. /\ c \in Outcome /\ c.disposition = Higher(f.disposition, x.disposition)
      /\ c.type = Claimed(f.type, x.type)
  BY <1>1, <1>2, CombineParts, KeptIsClaimed
<1>4. /\ f.disposition \in Int /\ x.disposition \in Int
      /\ \A a \in S : a.disposition \in Int
  BY <1>1, OutcomeShape DEF Filtered, Reflected
<1> HIDE DEF c
<1>5. /\ \E a \in S \cup {x} : a.disposition = c.disposition
      /\ \A a \in S \cup {x} : a.disposition <= c.disposition
  BY <1>3, <1>4 DEF SumsUp, Higher
<1>6. is_specific(c.type) => \E a \in S \cup {x} : a.type = c.type
  BY <1>3 DEF SumsUp, Claimed
<1>7. \A a \in S \cup {x} : is_specific(a.type) => a.type = c.type
  BY <1>2, <1>3 DEF SumsUp, Claimed, type_mismatch
<1> QED BY <1>3, <1>5, <1>6, <1>7 DEF SumsUp, c

\* The outcome that sums up others is the best of them.
LEMMA SumIsBest ==
    ASSUME NEW S \in SUBSET Outcome, NEW o, SumsUp(o, S)
    PROVE  o = Best(S)
<1> DEFINE ds == {a.disposition : a \in S}
           types == {a.type : a \in S} \ {NoType}
<1>1. /\ o.disposition \in Int /\ \A a \in S : a.disposition \in Int
      /\ o \in Outcome /\ \A a \in S : a.type \in MessageType \cup {NoType}
      /\ o.type \in MessageType \cup {NoType} /\ (o.disposition = Filtered <=> o.type = NoType)
      /\ o = [disposition |-> o.disposition, type |-> o.type]
  <2>1. o \in Outcome
    BY DEF SumsUp
  <2>2. \A a \in Outcome : a.disposition \in Int /\ a.type \in MessageType \cup {NoType}
    BY OutcomeShape DEF Filtered, Reflected
  <2>3. /\ o.disposition = Filtered <=> o.type = NoType
        /\ o = [disposition |-> o.disposition, type |-> o.type]
    BY <2>1, OutcomeShape, Zenon
  <2>4. \A a \in S : a.disposition \in Int /\ a.type \in MessageType \cup {NoType}
    BY <2>2
  <2> QED BY <2>1, <2>2, <2>3, <2>4, Zenon
<1>2. Max(ds) = o.disposition
  <2>1. o.disposition \in ds /\ \A y \in ds : y \in Int /\ o.disposition >= y
    BY <1>1 DEF SumsUp
  <2> HIDE DEF ds
  <2>2. Max(ds) \in ds /\ \A y \in ds : Max(ds) >= y
    BY <2>1 DEF Max
  <2> QED BY <1>1, <2>1, <2>2
<1>3. CASE o.disposition = Filtered
  BY <1>1, <1>2, <1>3 DEF Best, FilteredOutcome
<1>4. CASE o.disposition # Filtered
  <2>1. o.type \in MessageType
    BY <1>1, <1>4
  <2>2. CASE types \subseteq {UdpDatagram}
    <3>1. \A a \in S : a.type \in {NoType, UdpDatagram}
      BY <2>2
    <3>2. o.type = UdpDatagram
      BY <2>1, <3>1, OutcomesAssumption DEF SumsUp, is_specific, MessageType
    <3>3. Best(S) = [disposition |-> Max(ds), type |-> UdpDatagram]
      BY <1>2, <1>4, <2>2 DEF Best
    <3> QED BY <1>1, <1>2, <3>2, <3>3
  <2>3. CASE ~(types \subseteq {UdpDatagram})
    <3>1. \E t \in types : is_specific(t)
      BY <1>1, <2>3 DEF MessageType, is_specific
    <3>2. \A t \in types : is_specific(t) => t = o.type
      BY DEF SumsUp
    <3> HIDE DEF types
    <3>3. (CHOOSE t \in types : is_specific(t)) = o.type
      BY <3>1, <3>2
    <3>4. Best(S) = [disposition |-> Max(ds), type |-> CHOOSE t \in types : is_specific(t)]
      BY <1>2, <1>4, <2>3 DEF Best, types
    <3> QED BY <1>1, <1>2, <3>3, <3>4
  <2> QED BY <2>2, <2>3
<1> QED BY <1>3, <1>4

\* At startup no packet is counted.
LEMMA InitSummed == Init => Summed
BY DEF Init, Summed

\* The next handler's outcome is folded in.
LEMMA RouteCallSummed ==
    ASSUME Shape, Regs, Fed, Summed, RouteCall
    PROVE  Summed'
<1>1. PICK key \in keys : \E outcome \in Outcome :
         /\ Applies(key) /\ on_packet(key, outcome)
         /\ final_outcome' = IF final_outcome = NoOutcome THEN outcome
                             ELSE combine(final_outcome, outcome)
  BY DEF RouteCall
<1>2. PICK outcome \in Outcome :
         /\ Applies(key) /\ on_packet(key, outcome)
         /\ final_outcome' = IF final_outcome = NoOutcome THEN outcome
                             ELSE combine(final_outcome, outcome)
  BY <1>1
<1>3. at = "route" /\ seen \in Observed /\ seen.outcomes \in SUBSET Outcome
  BY DEF RouteCall, Fed, Observed
<1>4. Contains(registrations, key) /\ key \in Key
  BY <1>2 DEF Applies, Regs
<1>5. seen'.outcomes = seen.outcomes \cup {outcome}
  <2>1. Get(registrations, key).handler \in Nat
    BY <1>4, LiveReg DEF Contains, None
  <2> QED BY <1>2, <1>3, <2>1, OnPacketSeen
<1>6. CASE final_outcome = NoOutcome
  <2>1. final_outcome' = outcome /\ seen'.outcomes = {outcome}
    BY <1>2, <1>3, <1>5, <1>6 DEF Summed
  <2>2. outcome.disposition \in Int
    BY OutcomeShape DEF Filtered, Reflected
  <2>3. SumsUp(outcome, {outcome})
    BY <2>2 DEF SumsUp
  <2> QED BY <2>1, <2>3, NoOutcomeIsNone DEF Summed
<1>7. CASE final_outcome # NoOutcome
  <2>1. final_outcome' = combine(final_outcome, outcome) /\ final_outcome \in Outcome /\ seen.outcomes # {}
    BY <1>2, <1>3, <1>7 DEF Summed
  <2>2. final_outcome' \in Outcome
    BY <2>1, CombineParts
  <2>3. ASSUME Agree(seen'.outcomes) PROVE SumsUp(final_outcome', seen'.outcomes)
    <3>1. SumsUp(final_outcome, seen.outcomes)
      BY <1>3, <1>5, <2>1, <2>3 DEF Summed, Agree
    <3>2. Agree(seen.outcomes \cup {outcome})
      BY <1>5, <2>3
    <3>3. SumsUp(combine(final_outcome, outcome), seen.outcomes \cup {outcome})
      BY <1>3, <3>1, <3>2, CombineSums
    <3> QED BY <1>5, <2>1, <3>3
  <2> QED BY <1>5, <2>2, <2>3, NoOutcomeIsNone DEF Summed
<1> QED BY <1>6, <1>7

\* Every step leaves the running outcome the sum of the outcomes.
LEMMA NextSummed == Shape /\ Regs /\ Fed /\ Summed /\ [Next]_vars => Summed'
<1> SUFFICES ASSUME Shape, Regs, Fed, Summed, [Next]_vars PROVE Summed'
    OBVIOUS
<1>1. CASE UNCHANGED vars \/ RouteSkip
  BY <1>1 DEF Summed, vars, RouteSkip
<1>2. CASE at' # "route"
  BY <1>2 DEF Summed
<1>3. CASE Rebound \/ SweepDone \/ SkipFrame \/ DrainDone \/ SweepNext \/ SweepStart \/ RouteDone
  BY <1>2, <1>3 DEF Rebound, SweepDone, SkipFrame, DrainDone, SweepNext, NextFrame, SweepStart, RouteDone
<1>4. ASSUME NEW c \in Captures, on_readable(c) PROVE Summed'
  BY <1>2, <1>4 DEF on_readable
<1>5. CASE RouteFrame
  BY <1>5 DEF RouteFrame, begin_packet, Summed, Unseen
<1> QED BY <1>1, <1>3, <1>4, <1>5, RouteCallSummed DEF Next

(* ------------------------------- theorems ------------------------------- *)

\* Initially no capture holds frames.
LEMMA InitDraining == Init => Draining
<1> SUFFICES ASSUME Init PROVE Draining
    OBVIOUS
<1>1. at = "idle" /\ \A c \in Captures : captures[c].buffered = 0
  BY DEF Init
<1> QED BY <1>1 DEF Draining

\* The inductive invariant.
IInv == Shape /\ Draining /\ Regs /\ Fed /\ Sent /\ Summed

\* The invariant holds of every reachable state, for any captures, datagrams, protocols, batch and
\* limit.
THEOREM Invariant == Spec => []IInv
<1>1. Init => IInv
  BY InitShape, InitDraining, InitRegs, InitFed, InitSent, InitSummed DEF IInv
<1>2. IInv /\ [Next]_vars => IInv'
  BY NextShape, NextDraining, NextRegs, NextFed, NextSent, NextSummed DEF IInv
<1> QED BY <1>1, <1>2, PTL DEF Spec

\* However many handlers there are and whatever they register and remove while a packet is routed,
\* each that matched it at the start is fed it once, unless it goes before its turn, and no other is
\* (route).
THEOREM HandlersAreFedOnce == Spec => []FedOnce
<1>1. IInv => FedOnce
  BY FedIsOnce DEF IInv
<1> QED BY <1>1, Invariant, PTL

\* For any captures and datagrams: no datagram goes out twice for one packet, and none is said to be
\* out that is not (already_sent, record_sent).
THEOREM DatagramsGoOutOnce == Spec => []SentOnceIfOk
<1>1. IInv => SentOnceIfOk
  BY SentIsOnce DEF IInv
<1> QED BY <1>1, Invariant, PTL

\* For any limit and any batch: one readable event reads no more than the limit and the rest of a
\* batch, and leaves no frame unread in the capture (drain_and_route).
THEOREM DrainsEnd == Spec => []DrainEnds
<1>1. ASSUME IInv PROVE DrainEnds
  <2>1. Shape /\ Draining
    BY <1>1 DEF IInv
  <2>2. CASE at \in {"idle", "sweep"}
    <3>1. drain.reads = 0 /\ \A c \in Captures : captures[c].buffered = 0
      BY <2>1, <2>2 DEF Shape, Draining, NoDrain
    <3>2. 0 <= MAX_FRAMES_PER_EVENT + Batch - 1
      <4>1. MAX_FRAMES_PER_EVENT \in Nat \ {0} /\ Batch \in Nat \ {0}
        BY RoutingAssumption
      <4> QED BY <4>1
    <3> QED BY <3>1, <3>2 DEF DrainEnds
  <2>3. CASE at \in {"drain", "route"}
    <3>1. drain.reads \in Nat /\ captures[drain.ingress].buffered \in Nat
      BY <2>1, <2>3 DEF Shape, Capture, Drain
    <3> QED BY <2>1, <2>3, <3>1, RoutingAssumption DEF Draining, DrainEnds
  <2> QED BY <2>1, <2>2, <2>3 DEF Shape
<1> QED BY <1>1, Invariant, PTL

\* However many handlers a packet has and in whatever order they are fed, it is counted once, under
\* the best of their outcomes (route, combine, record).
THEOREM PacketsCountAsBest == Spec => CountedAsBest
<1>1. IInv /\ [Next]_vars =>
        [at = "route" /\ at' = "drain" /\ (\A a, b \in seen.outcomes : ~type_mismatch(a, b)) =>
           recorded' = IF seen.outcomes = {} THEN NoRecord
                       ELSE Recorded(drain.ingress, record(Best(seen.outcomes)))]_vars
  <2> SUFFICES ASSUME IInv, [Next]_vars, at = "route", at' = "drain", Agree(seen.outcomes)
               PROVE  recorded' = IF seen.outcomes = {} THEN NoRecord
                                  ELSE Recorded(drain.ingress, record(Best(seen.outcomes)))
      BY DEF Agree
  <2>1. RouteDone
    BY DEF Next, vars, Rebound, SweepStart, SweepNext, SweepDone, on_readable, SkipFrame, NextFrame,
           RouteFrame, RouteSkip, RouteCall, DrainDone
  <2>2. recorded' = IF final_outcome = NoOutcome THEN NoRecord
                    ELSE Recorded(drain.ingress, record(final_outcome))
    BY <2>1 DEF RouteDone
  <2>3. /\ final_outcome = NoOutcome <=> seen.outcomes = {}
        /\ seen.outcomes # {} => SumsUp(final_outcome, seen.outcomes)
        /\ seen.outcomes \in SUBSET Outcome
    BY DEF IInv, Summed, Fed, Observed
  <2>4. seen.outcomes # {} => final_outcome = Best(seen.outcomes)
    BY <2>3, SumIsBest
  <2> QED BY <2>2, <2>3, <2>4
<1> QED BY <1>1, Invariant, PTL DEF Spec, CountedAsBest

=============================================================================
