------------------------------ MODULE Outcomes ------------------------------
(* What a handler did with a packet, how the outcomes of all its handlers are folded into one,  *)
(* and what the counters count (src/src/dispatch/counters.rs).                            *)
EXTENDS Integers

CONSTANTS Protocols,    \* the message types of the protocols, the relay's excluded
          UdpDatagram,  \* the relay's message type
          NoType        \* message_type() of Outcome::Filtered

ASSUME OutcomesAssumption ==
    UdpDatagram \notin Protocols /\ NoType \notin Protocols /\ UdpDatagram # NoType

MessageType == Protocols \cup {UdpDatagram}
is_specific(t) == t \in Protocols

\* enum Disposition: the derived Ord follows declaration order.
Filtered == 0
Skipped == 1
Refused == 2
Stalled == 3
Dropped == 4
Reflected == 5

FilteredOutcome == [disposition |-> Filtered, type |-> NoType]
Outcome == [disposition : Skipped .. Reflected, type : MessageType] \cup {FilteredOutcome}

\* Anomalies::type_mismatch: two protocols claim the packet; the relay's type does not count.
type_mismatch(a, b) == is_specific(a.type) /\ is_specific(b.type) /\ a.type # b.type

with_type(outcome, t) ==
    IF outcome.disposition = Filtered THEN outcome ELSE [outcome EXCEPT !.type = t]

\* Fault: the outcome of the last handler stands.
CombineTakesLast(a, b) == b

combine(a, b) ==
    LET merged == IF b.disposition > a.disposition THEN b ELSE a
    IN  IF NoType \notin {a.type, b.type} /\ is_specific(a.type) # is_specific(b.type)
        THEN with_type(merged, IF is_specific(a.type) THEN a.type ELSE b.type)
        ELSE merged

\* A count added to a CaptureCounters: an outcome's, or of frames that reach no handler.
record(outcome) == [what |-> "outcome", outcome |-> outcome, n |-> 1]
record_echo == [what |-> "echoed", outcome |-> FilteredOutcome, n |-> 1]
record_oversized(n) == [what |-> "oversized", outcome |-> FilteredOutcome, n |-> n]

=============================================================================
