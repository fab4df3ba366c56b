----------------------------- MODULE DialProofs -----------------------------
(* A connection of a DIAL proxy never fails an expect, splices its two flows in *)
(* order, keeps the edge of a backlog armed and ages out, whatever the buffers, *)
(* windows and timeouts.  A handler works on one flow and may leave that flow's *)
(* edge unarmed until sync_write_interest runs; the other flow is not touched.  *)
(* So each handler has a lemma about its own flow, and the invariant is the two *)
(* flows together.                                                              *)
EXTENDS DialConnection, TLAPS

(* ------------------------ the connection's invariant ----------------------- *)

Conns ==
    [recv : [Flows -> Seq(Nat)], send : [Flows -> Seq(Nat)],
     state : [Flows -> {"Open", "SourceClosed", "Done"}],
     reg : [Sides -> BOOLEAN], read : [Sides -> BOOLEAN], write : [Sides -> BOOLEAN],
     connecting : BOOLEAN, deadline : Nat, taken : [Sides -> Nat],
     got : [Sides -> Seq(Nat)], room : [Sides -> Nat], fins : [Sides -> Nat],
     open : BOOLEAN, panicked : BOOLEAN, faults : Nat]

Results == [conn : Conns, outcome : {"Keep", "Close"}]
Event == [side : Sides, kind : {"readable", "writable"}]

\* The first n bytes of a stream.
Stream(n) == [i \in 1 .. n |-> i]

\* The bytes of a flow are where they should be, and there is room to read more into.
Spliced(c, d) ==
    /\ c.got[To(d)] \o c.send[d] \o c.recv[d] = Stream(c.taken[From(d)])
    /\ c.taken[From(d)] <= sent[From(d)]
    /\ Len(c.recv[d]) <= MAX_RECV

\* A flow not done has its destination, and its FIN to come; a flow done sent it, or lost its
\* destination.
Ended(c, d) ==
    /\ c.state[d] # "Done" => c.reg[To(d)] /\ c.fins[To(d)] = 0
    /\ c.state[d] = "Done" => c.fins[To(d)] \in {0, 1}
    /\ c.state[d] = "Done" /\ c.reg[To(d)] => c.fins[To(d)] = 1

Armed(c, d) ==
    c.reg[To(d)] /\ (c.send[d] # <<>> \/ c.state[d] = "SourceClosed") => c.write[To(d)]

Flowing(c, d) == Spliced(c, d) /\ Ended(c, d) /\ Armed(c, d)

Shape ==
    /\ conn \in Conns
    /\ sent \in [Sides -> Nat]
    /\ batch \in Seq(Event)
    /\ idle \in Nat

IInv ==
    /\ Shape
    /\ ~conn.panicked
    /\ conn.open => \A d \in Flows : Flowing(conn, d)
    /\ conn.open => idle + conn.deadline <= IDLE_TIMEOUT
    /\ ~conn.open => \A s \in Sides : ~conn.reg[s]

(* ------------------------------- flows and bytes --------------------------- *)

\* The two flows run between the two sides, each against the other.
LEMMA Ends ==
    ASSUME NEW d \in Flows
    PROVE  /\ To(d) \in Sides /\ From(d) \in Sides /\ To(d) # From(d)
           /\ Opposite(d) \in Flows /\ Opposite(d) # d
           /\ To(Opposite(d)) = From(d) /\ From(Opposite(d)) = To(d)
           /\ \A e \in Flows : e = d \/ e = Opposite(d)
BY DEF Flows, Sides, To, From, Opposite

\* The smaller of two numbers is one of them.
LEMMA MinOfTwo ==
    ASSUME NEW a \in Nat, NEW b \in Nat
    PROVE  Min({a, b}) = IF a <= b THEN a ELSE b
<1>1. \E x \in {a, b} : \A y \in {a, b} : x <= y
  OBVIOUS
<1> QED BY <1>1 DEF Min

\* Sequences of one length that agree everywhere are one sequence.
LEMMA SameBytes ==
    ASSUME NEW a \in Seq(Nat), NEW b \in Seq(Nat), Len(a) = Len(b),
           \A i \in 1 .. Len(a) : a[i] = b[i]
    PROVE  a = b
OBVIOUS

\* Bytes joined to bytes are bytes.
LEMMA Joins == \A a, b \in Seq(Nat) : a \o b \in Seq(Nat) /\ Len(a \o b) = Len(a) + Len(b)
OBVIOUS

\* A joined sequence is the one and then the other.
LEMMA JoinedAt ==
    ASSUME NEW a \in Seq(Nat), NEW b \in Seq(Nat), NEW i \in 1 .. Len(a) + Len(b)
    PROVE  (a \o b)[i] = IF i <= Len(a) THEN a[i] ELSE b[i - Len(a)]
OBVIOUS

\* A sequence is its first n elements and the others.
LEMMA FirstAfter ==
    ASSUME NEW s \in Seq(Nat), NEW n \in 0 .. Len(s)
    PROVE  /\ First(s, n) \in Seq(Nat) /\ After(s, n) \in Seq(Nat)
           /\ Len(First(s, n)) = n /\ Len(After(s, n)) = Len(s) - n
           /\ First(s, n) \o After(s, n) = s
<1>1. \A i \in 1 .. Len(s) : s[i] \in Nat
  OBVIOUS
<1>2. First(s, n) \in Seq(Nat) /\ Len(First(s, n)) = n
  BY <1>1 DEF First
<1>3. After(s, n) \in Seq(Nat) /\ Len(After(s, n)) = Len(s) - n
  BY <1>1 DEF After
<1>4. /\ \A i \in 1 .. n : First(s, n)[i] = s[i]
      /\ \A i \in 1 .. Len(s) - n : After(s, n)[i] = s[n + i]
  <2>1. ASSUME NEW i \in 1 .. n PROVE First(s, n)[i] = s[i]
    BY DEF First
  <2>2. ASSUME NEW i \in 1 .. Len(s) - n PROVE After(s, n)[i] = s[n + i]
    BY DEF After
  <2> QED BY <2>1, <2>2
<1> DEFINE a == First(s, n)
           b == After(s, n)
<1> HIDE DEF a, b
<1>5. a \in Seq(Nat) /\ b \in Seq(Nat) /\ Len(a) = n /\ Len(b) = Len(s) - n
  BY <1>2, <1>3 DEF a, b
<1>6. a \o b \in Seq(Nat) /\ Len(a \o b) = Len(a) + Len(b)
  BY <1>5, Joins, Zenon
<1>7. ASSUME NEW i \in 1 .. Len(s) PROVE (a \o b)[i] = s[i]
  <2>1. (a \o b)[i] = IF i <= n THEN a[i] ELSE b[i - n]
    BY <1>5, JoinedAt
  <2> QED BY <1>4, <2>1 DEF a, b
<1>8. Len(a \o b) = Len(s)
  BY <1>5, <1>6
<1>9. a \o b = s
  BY <1>6, <1>7, <1>8, SameBytes, Zenon
<1> QED BY <1>2, <1>3, <1>9 DEF a, b

\* Bytes read from the source lengthen the stream.
LEMMA StreamGrows ==
    ASSUME NEW t \in Nat, NEW n \in Nat
    PROVE  /\ Stream(t) \in Seq(Nat)
           /\ [i \in 1 .. n |-> t + i] \in Seq(Nat)
           /\ Len([i \in 1 .. n |-> t + i]) = n
           /\ Stream(t) \o [i \in 1 .. n |-> t + i] = Stream(t + n)
<1> DEFINE more == [i \in 1 .. n |-> t + i]
<1>1. Stream(t) \in Seq(Nat) /\ Len(Stream(t)) = t
  BY DEF Stream
<1>2. more \in Seq(Nat) /\ Len(more) = n
  OBVIOUS
<1>3. Stream(t + n) \in Seq(Nat) /\ Len(Stream(t + n)) = t + n
  BY DEF Stream
<1>4. /\ Stream(t) \o more \in Seq(Nat) /\ Len(Stream(t) \o more) = t + n
      /\ \A i \in 1 .. t + n : (Stream(t) \o more)[i] = IF i <= t THEN Stream(t)[i] ELSE more[i - t]
  <2> HIDE DEF more
  <2> QED BY <1>1, <1>2, SMTT(30)
<1>5. \A i \in 1 .. t + n : (Stream(t) \o more)[i] = Stream(t + n)[i]
  BY <1>4 DEF Stream
<1> QED BY <1>1, <1>2, <1>3, <1>4, <1>5, SameBytes, Zenon

\* Concatenation of bytes is associative.
LEMMA Assoc == \A a, b, c \in Seq(Nat) : (a \o b) \o c = a \o (b \o c)
<1> SUFFICES ASSUME NEW a \in Seq(Nat), NEW b \in Seq(Nat), NEW c \in Seq(Nat)
             PROVE  (a \o b) \o c = a \o (b \o c)
    OBVIOUS
<1> QED BY SMT

\* Four pieces are the same however they are joined.
Regrouped(a, b, c, e) ==
    /\ (a \o (b \o c)) \o e = (a \o b) \o (c \o e)
    /\ a \o ((b \o c) \o e) = (a \o b) \o (c \o e)

\* Bytes may be joined in any grouping.
LEMMA Regroup == \A a, b, c, e \in Seq(Nat) : Regrouped(a, b, c, e)
<1> SUFFICES ASSUME NEW a \in Seq(Nat), NEW b \in Seq(Nat), NEW c \in Seq(Nat), NEW e \in Seq(Nat)
             PROVE  Regrouped(a, b, c, e)
    OBVIOUS
<1>1. a \o b \in Seq(Nat)
  BY Joins, Zenon
<1>2. (a \o b) \o c = a \o (b \o c)
  BY Assoc, Zenon
<1>3. ((a \o b) \o c) \o e = (a \o b) \o (c \o e)
  BY <1>1, Assoc, ZenonT(60)
<1>4. b \o c \in Seq(Nat)
  BY Joins, Zenon
<1>5. (a \o (b \o c)) \o e = a \o ((b \o c) \o e)
  <2> DEFINE z == b \o c
  <2> HIDE DEF z
  <2>1. z \in Seq(Nat)
    BY <1>4 DEF z
  <2>2. (a \o z) \o e = a \o (z \o e)
    BY <2>1, Assoc, ZenonT(60)
  <2> QED BY <2>2, Zenon DEF z
<1> QED BY <1>2, <1>3, <1>5, Zenon DEF Regrouped

(* ------------------------------- interest ---------------------------------- *)

\* A handler of the other flow left this one alone.
Untouched(c, e, d) ==
    /\ e.got[To(d)] = c.got[To(d)] /\ e.send[d] = c.send[d] /\ e.recv[d] = c.recv[d]
    /\ e.taken[From(d)] = c.taken[From(d)] /\ e.fins[To(d)] = c.fins[To(d)]
    /\ e.state[d] = c.state[d] /\ e.reg[To(d)] = c.reg[To(d)] /\ e.write[To(d)] = c.write[To(d)]

\* No byte reached a peer and the connect is as it was: the deadline is too.
Still(c, e) == e.got = c.got /\ e.deadline = c.deadline /\ e.connecting = c.connecting

\* Sound but for the edge of flow d, which the handler has yet to arm.
Ready(c, d) == c \in Conns /\ c.open /\ ~c.panicked /\ Spliced(c, d) /\ Ended(c, d)

Settled(c, d, r) ==
    /\ r \in Results /\ ~r.conn.panicked /\ Still(c, r.conn)
    /\ r.outcome = "Keep" => /\ r.conn.open /\ Flowing(r.conn, d)
                             /\ Untouched(c, r.conn, Opposite(d))

\* A refused change of interest closes.
LEMMA RefusedCloses ==
    ASSUME NEW c \in Conns, ~c.panicked, NEW r \in Refused(c)
    PROVE  r \in Results /\ ~r.conn.panicked /\ Still(c, r.conn) /\ r.outcome = "Close"
<1> DEFINE more == c.faults + 1
           e == [c EXCEPT !.faults = more]
<1>1. r = [conn |-> e, outcome |-> "Close"]
  BY DEF Refused, Close
<1> more \in Nat
  BY DEF Conns
<1> HIDE DEF more
<1>2. /\ e \in Conns /\ e.panicked = c.panicked
      /\ e.got = c.got /\ e.deadline = c.deadline /\ e.connecting = c.connecting
  BY Zenon DEF Conns
<1> HIDE DEF e
<1> QED BY <1>1, <1>2 DEF Results, Still

\* sync_write_interest arms the edge of a backlog.
LEMMA SyncSettled ==
    ASSUME NEW d \in Flows, NEW c, Ready(c, d), c.reg[To(d)],
           c.state[d] = "SourceClosed" /\ c.send[d] = <<>> => Connecting(c, To(d)),
           NEW r \in sync_write_interest(c, d)
    PROVE  Settled(c, d, r)
<1> DEFINE armed == c.send[d] # <<>> \/ Connecting(c, To(d))
           e == [c EXCEPT !.write[To(d)] = armed]
<1>1. c \in Conns /\ c.open /\ ~c.panicked
  BY DEF Ready
<1>2. CASE r \in Refused(c)
  BY <1>1, <1>2, RefusedCloses DEF Settled
<1>3. CASE r \in Keep(e)
  <2>1. r = [conn |-> e, outcome |-> "Keep"]
    BY <1>3 DEF Keep
  <2>2. To(d) \in Sides /\ To(d) # From(d) /\ Opposite(d) \in Flows /\ To(Opposite(d)) = From(d)
        /\ From(d) \in Sides
    BY Ends
  <2>3. armed \in BOOLEAN
    OBVIOUS
  <2>4. /\ e \in Conns /\ e.write = [c.write EXCEPT ![To(d)] = armed]
        /\ e.got = c.got /\ e.send = c.send /\ e.recv = c.recv /\ e.taken = c.taken
        /\ e.fins = c.fins /\ e.state = c.state /\ e.reg = c.reg /\ e.open = c.open
        /\ e.panicked = c.panicked /\ e.deadline = c.deadline /\ e.connecting = c.connecting
    <3> HIDE DEF armed
    <3> QED BY <1>1, <2>2, <2>3, Zenon DEF Conns
  <2>5. c.write \in [Sides -> BOOLEAN]
    BY <1>1 DEF Conns
  <2> HIDE DEF e
  <2>6. e.write[To(d)] = armed /\ e.write[From(d)] = c.write[From(d)]
    BY <2>2, <2>4, <2>5, Zenon
  <2>7. Armed(e, d)
    BY <2>4, <2>6, Zenon DEF Armed
  <2>8. Spliced(e, d) /\ Ended(e, d)
    BY <2>4, Zenon DEF Ready, Spliced, Ended
  <2>9. Untouched(c, e, Opposite(d)) /\ Still(c, e)
    BY <2>2, <2>4, <2>6 DEF Untouched, Still
  <2> QED BY <1>1, <2>1, <2>4, <2>7, <2>8, <2>9, Zenon DEF Settled, Flowing, Results
<1> QED BY <1>2, <1>3 DEF sync_write_interest

\* What is settled from a connection that differs only in flow d is settled.
LEMMA SettledFrom ==
    ASSUME NEW d \in Flows, NEW c, NEW e, NEW r, Settled(e, d, r),
           Untouched(c, e, Opposite(d)), Still(c, e)
    PROVE  Settled(c, d, r)
BY DEF Settled, Untouched, Still

\* settle sends the FIN of a flow once its backlog is gone, and arms the edge otherwise.
LEMMA SettleSettled ==
    ASSUME NEW d \in Flows, NEW c, Ready(c, d), c.reg[To(d)], NEW r \in settle(c, d)
    PROVE  Settled(c, d, r)
<1> DEFINE done == c.state[d] = "SourceClosed" /\ c.send[d] = <<>> /\ ~Connecting(c, To(d))
           fin == c.fins[To(d)] + 1
           e == [[c EXCEPT !.fins[To(d)] = fin] EXCEPT !.state[d] = "Done"]
<1>1. c \in Conns /\ c.open /\ ~c.panicked
  BY DEF Ready
<1>2. CASE ~done
  <2>1. r \in sync_write_interest(c, d)
    BY <1>2 DEF settle
  <2>2. c.state[d] = "SourceClosed" /\ c.send[d] = <<>> => Connecting(c, To(d))
    BY <1>2
  <2> QED BY <2>1, <2>2, SyncSettled
<1>3. CASE done
  <2>1. r \in sync_write_interest(e, d)
    BY <1>3 DEF settle, ShutdownWrite
  <2>2. To(d) \in Sides /\ To(d) # From(d) /\ Opposite(d) \in Flows /\ Opposite(d) # d
        /\ To(Opposite(d)) = From(d) /\ From(d) \in Sides
    BY Ends
  <2> fin \in Nat
    BY <1>1, <2>2 DEF Conns
  <2> HIDE DEF fin
  <2>3. /\ e \in Conns /\ e.fins = [c.fins EXCEPT ![To(d)] = fin]
        /\ e.state = [c.state EXCEPT ![d] = "Done"] /\ e.write = c.write
        /\ e.got = c.got /\ e.send = c.send /\ e.recv = c.recv /\ e.taken = c.taken
        /\ e.reg = c.reg /\ e.open = c.open
        /\ e.panicked = c.panicked /\ e.deadline = c.deadline /\ e.connecting = c.connecting
    BY <1>1, <2>2, Zenon DEF Conns
  <2>4. c.fins \in [Sides -> Nat] /\ c.state \in [Flows -> {"Open", "SourceClosed", "Done"}]
    BY <1>1 DEF Conns
  <2> HIDE DEF e
  <2>5. /\ e.fins[To(d)] = fin /\ e.fins[From(d)] = c.fins[From(d)]
        /\ e.state[d] = "Done" /\ e.state[Opposite(d)] = c.state[Opposite(d)]
    BY <2>2, <2>3, <2>4
  <2>6. c.fins[To(d)] = 0
    BY <1>3 DEF Ready, Ended
  <2>7. Ended(e, d)
    BY <2>5, <2>6 DEF Ended, fin
  <2>8. Spliced(e, d)
    BY <2>3, Zenon DEF Ready, Spliced
  <2>9. Untouched(c, e, Opposite(d)) /\ Still(c, e)
    BY <2>2, <2>3, <2>5 DEF Untouched, Still
  <2>10. Ready(e, d) /\ e.reg[To(d)]
    BY <1>1, <2>3, <2>7, <2>8 DEF Ready
  <2>11. Settled(e, d, r)
    BY <2>1, <2>5, <2>10, SyncSettled
  <2> QED BY <2>9, <2>11, SettledFrom
<1> QED BY <1>2, <1>3

\* half_close gives the source's read interest up and settles what is left of the flow.
LEMMA HalfCloseSettled ==
    ASSUME NEW d \in Flows, NEW c, Ready(c, d), c.state[d] = "Open", c.reg[From(d)],
           NEW r \in half_close(c, d)
    PROVE  Settled(c, d, r)
<1> DEFINE e == [[c EXCEPT !.read[From(d)] = FALSE] EXCEPT !.state[d] = "SourceClosed"]
<1>1. c \in Conns /\ c.open /\ ~c.panicked
  BY DEF Ready
<1>2. CASE r \in Refused(c)
  BY <1>1, <1>2, RefusedCloses DEF Settled
<1>3. CASE r \in settle(e, d)
  <2>1. To(d) \in Sides /\ To(d) # From(d) /\ Opposite(d) \in Flows /\ Opposite(d) # d
        /\ To(Opposite(d)) = From(d) /\ From(d) \in Sides
    BY Ends
  <2>2. /\ e \in Conns /\ e.fins = c.fins
        /\ e.state = [c.state EXCEPT ![d] = "SourceClosed"] /\ e.write = c.write
        /\ e.got = c.got /\ e.send = c.send /\ e.recv = c.recv /\ e.taken = c.taken
        /\ e.reg = c.reg /\ e.open = c.open
        /\ e.panicked = c.panicked /\ e.deadline = c.deadline /\ e.connecting = c.connecting
    BY <1>1, <2>1, Zenon DEF Conns
  <2>3. c.state \in [Flows -> {"Open", "SourceClosed", "Done"}]
    BY <1>1 DEF Conns
  <2> HIDE DEF e
  <2>4. e.state[d] = "SourceClosed" /\ e.state[Opposite(d)] = c.state[Opposite(d)]
    BY <2>1, <2>2, <2>3
  <2>5. c.reg[To(d)] /\ c.fins[To(d)] = 0
    BY DEF Ready, Ended
  <2>6. Ended(e, d)
    BY <2>2, <2>4, <2>5 DEF Ended
  <2>7. Spliced(e, d)
    BY <2>2, Zenon DEF Ready, Spliced
  <2>8. Untouched(c, e, Opposite(d)) /\ Still(c, e)
    BY <2>1, <2>2, <2>4 DEF Untouched, Still
  <2>9. Ready(e, d) /\ e.reg[To(d)]
    BY <1>1, <2>2, <2>5, <2>6, <2>7 DEF Ready
  <2>10. Settled(e, d, r)
    BY <1>3, <2>9, SettleSettled
  <2> QED BY <2>8, <2>10, SettledFrom
<1> QED BY <1>2, <1>3 DEF half_close

(* --------------------------------- bytes ----------------------------------- *)

\* The deadline moves to the idle timeout only as bytes reach a peer.
Moved(c, e) ==
    /\ e.connecting = c.connecting
    /\ e.deadline = c.deadline \/ (e.deadline = IDLE_TIMEOUT /\ e.got # c.got)

\* Sound but for bytes the framer took, which are not in the backlog yet.
Carrying(c, d, bytes) ==
    /\ c \in Conns /\ c.open /\ ~c.panicked /\ Ended(c, d)
    /\ (c.got[To(d)] \o c.send[d]) \o (bytes \o c.recv[d]) = Stream(c.taken[From(d)])
    /\ c.taken[From(d)] <= sent[From(d)] /\ Len(c.recv[d]) <= MAX_RECV

Fed(c, d, r) ==
    /\ r \in Results /\ ~r.conn.panicked /\ Moved(c, r.conn)
    /\ r.outcome = "Keep" => /\ Ready(r.conn, d) /\ Untouched(c, r.conn, Opposite(d))
                             /\ r.conn.state = c.state /\ r.conn.reg = c.reg

\* What is in the buffers is bytes.
LEMMA Bytes ==
    ASSUME NEW c \in Conns, NEW d \in Flows
    PROVE  /\ c.got[To(d)] \in Seq(Nat) /\ c.send[d] \in Seq(Nat) /\ c.recv[d] \in Seq(Nat)
           /\ c.room[To(d)] \in Nat /\ c.taken[From(d)] \in Nat /\ c.deadline \in Nat
<1>1. To(d) \in Sides /\ From(d) \in Sides
  BY Ends
<1> QED BY <1>1 DEF Conns

\* A connection given up changes nothing but its outcome.
LEMMA CloseFed ==
    ASSUME NEW d \in Flows, NEW c \in Conns, ~c.panicked, NEW r \in Close(c)
    PROVE  Fed(c, d, r) /\ r.conn = c /\ r.outcome = "Close"
BY DEF Close, Fed, Results, Moved

\* buffer_tail appends the bytes to the backlog, or closes.
LEMMA BufferTailFed ==
    ASSUME NEW d \in Flows, NEW bytes \in Seq(Nat), NEW c, Carrying(c, d, bytes),
           NEW r \in buffer_tail(c, d, bytes)
    PROVE  Fed(c, d, r) /\ Still(c, r.conn)
<1> DEFINE tail == c.send[d] \o bytes
           e == [c EXCEPT !.send[d] = tail]
<1>1. c \in Conns /\ c.open /\ ~c.panicked
  BY DEF Carrying
<1>2. CASE r \in Close(c)
  BY <1>1, <1>2, CloseFed DEF Still
<1>3. CASE r \in Keep(e)
  <2>1. r = [conn |-> e, outcome |-> "Keep"]
    BY <1>3 DEF Keep
  <2>2. To(d) \in Sides /\ To(d) # From(d) /\ Opposite(d) \in Flows /\ Opposite(d) # d
        /\ To(Opposite(d)) = From(d) /\ From(d) \in Sides /\ From(Opposite(d)) = To(d)
    BY Ends
  <2>3. c.got[To(d)] \in Seq(Nat) /\ c.send[d] \in Seq(Nat) /\ c.recv[d] \in Seq(Nat)
    BY <1>1, Bytes
  <2>4. tail \in Seq(Nat)
    BY <2>3, Joins
  <2>5. c.got[To(d)] \o tail \o c.recv[d] = Stream(c.taken[From(d)])
    <3>1. (c.got[To(d)] \o (c.send[d] \o bytes)) \o c.recv[d]
            = (c.got[To(d)] \o c.send[d]) \o (bytes \o c.recv[d])
      <4> DEFINE g == c.got[To(d)]  b == c.send[d]  q == c.recv[d]
      <4>1. g \in Seq(Nat) /\ b \in Seq(Nat) /\ q \in Seq(Nat)
        BY <2>3
      <4> HIDE DEF g, b, q
      <4>2. (g \o (b \o bytes)) \o q = (g \o b) \o (bytes \o q)
        <5>1. Regrouped(g, b, bytes, q)
          BY <4>1, Regroup, Zenon
        <5> QED BY <5>1, Zenon DEF Regrouped
      <4> QED BY <4>2 DEF g, b, q
    <3> QED BY <3>1 DEF Carrying
  <2> HIDE DEF tail
  <2>6. /\ e \in Conns /\ e.send = [c.send EXCEPT ![d] = tail] /\ e.write = c.write
        /\ e.got = c.got /\ e.recv = c.recv /\ e.taken = c.taken
        /\ e.fins = c.fins /\ e.state = c.state /\ e.reg = c.reg /\ e.open = c.open
        /\ e.panicked = c.panicked /\ e.deadline = c.deadline /\ e.connecting = c.connecting
    BY <1>1, <2>4, Zenon DEF Conns
  <2>7. c.send \in [Flows -> Seq(Nat)]
    BY <1>1 DEF Conns
  <2> HIDE DEF e
  <2>8. e.send[d] = tail /\ e.send[Opposite(d)] = c.send[Opposite(d)]
    BY <2>2, <2>6, <2>7
  <2>9. Spliced(e, d)
    BY <2>5, <2>6, <2>8, Zenon DEF Carrying, Spliced
  <2>10. Ended(e, d)
    BY <2>6 DEF Carrying, Ended
  <2>11. Untouched(c, e, Opposite(d)) /\ Still(c, e)
    BY <2>6, <2>8 DEF Untouched, Still
  <2>12. Ready(e, d)
    BY <1>1, <2>6, <2>9, <2>10 DEF Ready
  <2>13. r \in Results
    BY <2>1, <2>6 DEF Results
  <2> QED BY <1>1, <2>1, <2>6, <2>11, <2>12, <2>13 DEF Fed, Moved, Still
<1> QED BY <1>2, <1>3 DEF buffer_tail

\* A peer got bytes, and nothing else changed but the deadline.
Handed(c, d, bytes, e) ==
    /\ e \in Conns /\ e.got[To(d)] = c.got[To(d)] \o bytes
    /\ e.got[From(d)] = c.got[From(d)] /\ Moved(c, e)
    /\ e.send = c.send /\ e.recv = c.recv /\ e.taken = c.taken /\ e.write = c.write
    /\ e.fins = c.fins /\ e.state = c.state /\ e.reg = c.reg /\ e.open = c.open
    /\ e.panicked = c.panicked

\* Deliver moves n bytes to the peer; the deadline moves when there are any.
LEMMA Delivered ==
    ASSUME NEW d \in Flows, NEW c \in Conns, NEW bytes \in Seq(Nat),
           NEW n \in 0 .. Len(bytes), n <= c.room[To(d)]
    PROVE  Handed(c, d, First(bytes, n), Deliver(c, d, bytes, n))
<1> DEFINE e == Deliver(c, d, bytes, n)
           more == c.got[To(d)] \o First(bytes, n)
           left == c.room[To(d)] - n
           later == IF n > 0 THEN IDLE_TIMEOUT ELSE c.deadline
           x == [[[c EXCEPT !.got[To(d)] = more] EXCEPT !.room[To(d)] = left] EXCEPT !.deadline = later]
<1>1. To(d) \in Sides /\ From(d) \in Sides /\ To(d) # From(d)
  BY Ends
<1>2. c.got[To(d)] \in Seq(Nat) /\ c.room[To(d)] \in Nat /\ c.deadline \in Nat
  BY Bytes
<1>3. First(bytes, n) \in Seq(Nat) /\ Len(First(bytes, n)) = n
  BY FirstAfter
<1>4. more \in Seq(Nat) /\ Len(more) = Len(c.got[To(d)]) + n
  BY <1>2, <1>3, Joins, Zenon
<1>5. left \in Nat
  BY <1>2
<1>6. later \in Nat
  BY <1>2, DialConnectionAssumption
<1>7. e = x
  BY DEF Deliver
<1> HIDE DEF e, more, left, later
<1>8. /\ x \in Conns /\ x.got = [c.got EXCEPT ![To(d)] = more]
      /\ x.send = c.send /\ x.recv = c.recv /\ x.taken = c.taken /\ x.write = c.write
      /\ x.fins = c.fins /\ x.state = c.state /\ x.reg = c.reg /\ x.open = c.open
      /\ x.panicked = c.panicked /\ x.connecting = c.connecting /\ x.deadline = later
  BY <1>1, <1>4, <1>5, <1>6, Zenon DEF Conns
<1>9. c.got \in [Sides -> Seq(Nat)]
  BY DEF Conns
<1> HIDE DEF x
<1>10. e.got[To(d)] = more /\ e.got[From(d)] = c.got[From(d)]
  BY <1>1, <1>7, <1>8, <1>9
<1>11. n > 0 => e.got # c.got
  BY <1>2, <1>4, <1>10
<1>12. Moved(c, e)
  BY <1>7, <1>8, <1>11 DEF Moved, later
<1>13. Handed(c, d, First(bytes, n), e)
  BY <1>7, <1>8, <1>10, <1>12 DEF Handed, more
<1> QED BY <1>13 DEF e

\* What is fed from a connection that only had bytes delivered is fed.
LEMMA FedFrom ==
    ASSUME NEW d \in Flows, NEW c, NEW e, NEW r, Fed(e, d, r), Still(e, r.conn), Moved(c, e),
           Untouched(c, e, Opposite(d)), e.state = c.state, e.reg = c.reg
    PROVE  Fed(c, d, r)
BY DEF Fed, Still, Moved, Untouched

\* send_framed passes on what the socket takes and keeps the rest, behind a backlog if there is one.
LEMMA SendFramedFed ==
    ASSUME NEW d \in Flows, NEW bytes \in Seq(Nat), NEW c, Carrying(c, d, bytes),
           NEW r \in send_framed(c, d, bytes)
    PROVE  Fed(c, d, r)
<1> DEFINE n == Min({c.room[To(d)], Len(bytes)})
           e == Deliver(c, d, bytes, n)
<1>1. c \in Conns /\ c.open /\ ~c.panicked
  BY DEF Carrying
<1>2. CASE r \in buffer_tail(c, d, bytes)
  BY <1>2, BufferTailFed
<1>3. CASE r \in Close(c)
  BY <1>1, <1>3, CloseFed
<1>4. CASE c.send[d] = <<>> /\ r \in buffer_tail(e, d, After(bytes, n))
  <2>1. /\ c.got[To(d)] \in Seq(Nat) /\ c.send[d] \in Seq(Nat) /\ c.recv[d] \in Seq(Nat)
        /\ c.room[To(d)] \in Nat
    BY <1>1, Bytes
  <2>2. n \in 0 .. Len(bytes) /\ n <= c.room[To(d)]
    <3>1. Len(bytes) \in Nat
      OBVIOUS
    <3>2. n = IF c.room[To(d)] <= Len(bytes) THEN c.room[To(d)] ELSE Len(bytes)
      BY <2>1, <3>1, MinOfTwo, Zenon
    <3> HIDE DEF n
    <3> QED BY <2>1, <3>1, <3>2
  <2> HIDE DEF n
  <2>3. Handed(c, d, First(bytes, n), e)
    BY <1>1, <2>2, Delivered
  <2>4. /\ First(bytes, n) \in Seq(Nat) /\ After(bytes, n) \in Seq(Nat)
        /\ First(bytes, n) \o After(bytes, n) = bytes
    BY <2>2, FirstAfter
  <2> HIDE DEF e
  <2>5. (e.got[To(d)] \o e.send[d]) \o (After(bytes, n) \o e.recv[d]) = Stream(e.taken[From(d)])
    <3> DEFINE g == c.got[To(d)]  a == First(bytes, n)  b == After(bytes, n)  q == c.recv[d]
    <3>1. (g \o c.send[d]) \o (bytes \o q) = Stream(c.taken[From(d)])
      BY DEF Carrying
    <3>2. g \o c.send[d] = g
      BY <1>4, <2>1
    <3>3. g \o ((a \o b) \o q) = (g \o a) \o (b \o q)
      <4>1. g \in Seq(Nat) /\ a \in Seq(Nat) /\ b \in Seq(Nat) /\ q \in Seq(Nat)
        BY <2>1, <2>4
      <4> HIDE DEF g, a, b, q
      <4>2. Regrouped(g, a, b, q)
        BY <4>1, Regroup, Zenon
      <4> QED BY <4>2, Zenon DEF Regrouped
    <3>4. (g \o a) \o <<>> = g \o a
      BY <2>1, <2>4, Joins
    <3>5. /\ e.got[To(d)] \o e.send[d] = g \o a /\ e.recv[d] = q
          /\ e.taken[From(d)] = c.taken[From(d)]
      BY <1>4, <2>3, <3>4, Zenon DEF Handed
    <3>6. g \o (bytes \o q) = Stream(c.taken[From(d)])
      BY <3>1, <3>2, Zenon
    <3>7. a \o b = bytes
      BY <2>4
    <3> HIDE DEF g, a, b, q
    <3>8. (g \o a) \o (b \o q) = Stream(c.taken[From(d)])
      BY <3>3, <3>6, <3>7, Zenon
    <3> QED BY <3>5, <3>8, Zenon DEF b
  <2>6. Carrying(e, d, After(bytes, n))
    BY <1>1, <2>3, <2>5 DEF Carrying, Ended, Handed
  <2>7. Fed(e, d, r) /\ Still(e, r.conn)
    BY <1>4, <2>4, <2>6, BufferTailFed
  <2>8. Untouched(c, e, Opposite(d))
    BY <2>3, Ends DEF Untouched, Handed
  <2> QED BY <2>3, <2>7, <2>8, FedFrom DEF Handed
<1> QED BY <1>2, <1>3, <1>4 DEF send_framed

\* drain passes on as much of the backlog as the socket takes.
LEMMA DrainFed ==
    ASSUME NEW d \in Flows, NEW c, Ready(c, d), NEW r \in drain(c, d)
    PROVE  Fed(c, d, r)
<1> DEFINE n == Min({c.room[To(d)], Len(c.send[d])})
           f == Deliver(c, d, c.send[d], n)
           rest == After(c.send[d], n)
           e == [f EXCEPT !.send[d] = rest]
<1>1. c \in Conns /\ c.open /\ ~c.panicked
  BY DEF Ready
<1>2. CASE r \in Keep(c)
  BY <1>1, <1>2 DEF Keep, Fed, Results, Moved, Untouched
<1>3. CASE r \in Close(c)
  BY <1>1, <1>3, CloseFed
<1>4. CASE r \in Keep([f EXCEPT !.send[d] = After(@, n)])
  <2>1. /\ c.got[To(d)] \in Seq(Nat) /\ c.send[d] \in Seq(Nat) /\ c.recv[d] \in Seq(Nat)
        /\ c.room[To(d)] \in Nat
    BY <1>1, Bytes
  <2>2. n \in 0 .. Len(c.send[d]) /\ n <= c.room[To(d)]
    <3>1. Len(c.send[d]) \in Nat
      BY <2>1
    <3>2. n = IF c.room[To(d)] <= Len(c.send[d]) THEN c.room[To(d)] ELSE Len(c.send[d])
      BY <2>1, <3>1, MinOfTwo, Zenon
    <3> HIDE DEF n
    <3> QED BY <2>1, <3>1, <3>2
  <2> HIDE DEF n
  <2>3. Handed(c, d, First(c.send[d], n), f)
    BY <1>1, <2>1, <2>2, Delivered
  <2>4. /\ First(c.send[d], n) \in Seq(Nat) /\ rest \in Seq(Nat)
        /\ First(c.send[d], n) \o rest = c.send[d]
    BY <2>1, <2>2, FirstAfter, Zenon
  <2> HIDE DEF f
  <2>5. r = [conn |-> e, outcome |-> "Keep"]
    BY <1>4, <2>3 DEF Keep, Handed
  <2> HIDE DEF rest
  <2>6. /\ e \in Conns /\ e.send = [c.send EXCEPT ![d] = rest] /\ e.write = c.write
        /\ e.got = f.got /\ e.recv = c.recv /\ e.taken = c.taken
        /\ e.fins = c.fins /\ e.state = c.state /\ e.reg = c.reg /\ e.open = c.open
        /\ e.panicked = c.panicked /\ e.deadline = f.deadline /\ e.connecting = f.connecting
    BY <2>3, <2>4, Zenon DEF Conns, Handed
  <2>7. c.send \in [Flows -> Seq(Nat)]
    BY <1>1 DEF Conns
  <2> HIDE DEF e
  <2>8. e.send[d] = rest /\ e.send[Opposite(d)] = c.send[Opposite(d)]
    <3>1. Opposite(d) \in Flows /\ Opposite(d) # d
      BY Ends
    <3>2. e.send = [c.send EXCEPT ![d] = rest]
      BY <2>6
    <3> QED BY <2>7, <3>1, <3>2
  <2>9. Spliced(e, d)
    <3>1. (c.got[To(d)] \o c.send[d]) \o c.recv[d] = Stream(c.taken[From(d)])
      BY DEF Ready, Spliced
    <3>2. c.got[To(d)] \o (First(c.send[d], n) \o rest) = (c.got[To(d)] \o First(c.send[d], n)) \o rest
      BY <2>1, <2>4, Assoc, Zenon
    <3>3. e.got[To(d)] \o e.send[d] = c.got[To(d)] \o c.send[d]
      BY <2>3, <2>4, <2>6, <2>8, <3>2, Zenon DEF Handed
    <3> QED BY <2>6, <3>1, <3>3, Zenon DEF Ready, Spliced
  <2>10. Ready(e, d)
    BY <1>1, <2>6, <2>9 DEF Ready, Ended
  <2>11. Untouched(c, e, Opposite(d))
    BY <2>3, <2>6, <2>8, Ends DEF Untouched, Handed
  <2>12. Moved(c, e)
    BY <2>3, <2>6 DEF Moved, Handed
  <2> QED BY <1>1, <2>5, <2>6, <2>10, <2>11, <2>12 DEF Fed, Results
<1> QED BY <1>2, <1>3, <1>4 DEF drain

(* --------------------------------- reading --------------------------------- *)

Chunked(c, d, r) ==
    /\ r \in Results /\ ~r.conn.panicked /\ Moved(c, r.conn)
    /\ r.outcome = "Keep" => /\ r.conn.open /\ Flowing(r.conn, d)
                             /\ Untouched(c, r.conn, Opposite(d))

\* A settled flow passed no bytes on.
LEMMA SettledChunked ==
    ASSUME NEW d \in Flows, NEW c, NEW r, Settled(c, d, r)
    PROVE  Chunked(c, d, r)
BY DEF Settled, Chunked, Still, Moved

\* Bytes read, passed on and the edge armed.
LEMMA FedChunked ==
    ASSUME NEW d \in Flows, NEW c, NEW e, NEW q, NEW r, Still(c, e), Untouched(c, e, Opposite(d)),
           Fed(e, d, q), q.outcome = "Keep", Settled(q.conn, d, r)
    PROVE  Chunked(c, d, r)
<1>1. r \in Results /\ ~r.conn.panicked
  BY DEF Settled
<1>2. Moved(c, r.conn)
  BY DEF Settled, Fed, Still, Moved
<1>3. r.outcome = "Keep" => Untouched(c, r.conn, Opposite(d))
  BY DEF Settled, Fed, Untouched
<1> QED BY <1>1, <1>2, <1>3 DEF Settled, Chunked

\* The connection once n bytes are read into the flow's buffer.
Read(c, d, n, e) ==
    /\ Ready(e, d) /\ Untouched(c, e, Opposite(d)) /\ Still(c, e)
    /\ e.state = c.state /\ e.reg = c.reg
    /\ Len(e.recv[d]) = Len(c.recv[d]) + n

\* commit appends the bytes received to what waits to be framed.
LEMMA CommitReads ==
    ASSUME NEW d \in Flows, NEW c, Ready(c, d), NEW n \in Nat, sent \in [Sides -> Nat],
           n <= MAX_RECV - Len(c.recv[d]), n <= Available(c, From(d))
    PROVE  Read(c, d, n, commit(c, d, n))
<1> DEFINE more == [i \in 1 .. n |-> c.taken[From(d)] + i]
           all == c.recv[d] \o more
           count == c.taken[From(d)] + n
           e == [[c EXCEPT !.recv[d] = all] EXCEPT !.taken[From(d)] = count]
<1>1. c \in Conns /\ c.open /\ ~c.panicked
  BY DEF Ready
<1>2. To(d) \in Sides /\ To(d) # From(d) /\ Opposite(d) \in Flows /\ Opposite(d) # d
      /\ To(Opposite(d)) = From(d) /\ From(d) \in Sides /\ From(Opposite(d)) = To(d)
  BY Ends
<1>3. /\ c.got[To(d)] \in Seq(Nat) /\ c.send[d] \in Seq(Nat) /\ c.recv[d] \in Seq(Nat)
      /\ c.taken[From(d)] \in Nat
  BY <1>1, Bytes
<1>4. more \in Seq(Nat) /\ Len(more) = n /\ Stream(c.taken[From(d)]) \o more = Stream(count)
  BY <1>3, StreamGrows, Zenon
<1>5. count \in Nat /\ count <= sent[From(d)]
  BY <1>2, <1>3 DEF Available
<1>6. commit(c, d, n) = e
  BY DEF commit
<1> HIDE DEF more, count
<1>7. all \in Seq(Nat) /\ Len(all) = Len(c.recv[d]) + n
  BY <1>3, <1>4, Joins, Zenon
<1>8. (c.got[To(d)] \o c.send[d]) \o all = Stream(count)
  <2> DEFINE front == c.got[To(d)] \o c.send[d]  back == c.recv[d]
  <2>1. front \in Seq(Nat) /\ back \in Seq(Nat)
    BY <1>3, Joins
  <2>2. front \o back = Stream(c.taken[From(d)])
    BY DEF Ready, Spliced
  <2> HIDE DEF front, back
  <2>3. (front \o back) \o more = front \o (back \o more)
    BY <1>4, <2>1, Assoc, Zenon
  <2>4. front \o (back \o more) = Stream(count)
    BY <1>4, <2>2, <2>3, Zenon
  <2> QED BY <2>4 DEF front, back
<1> HIDE DEF all
<1>9. /\ e \in Conns /\ e.recv = [c.recv EXCEPT ![d] = all]
      /\ e.taken = [c.taken EXCEPT ![From(d)] = count] /\ e.send = c.send /\ e.write = c.write
      /\ e.got = c.got /\ e.fins = c.fins /\ e.state = c.state /\ e.reg = c.reg
      /\ e.open = c.open /\ e.panicked = c.panicked /\ e.deadline = c.deadline
      /\ e.connecting = c.connecting
  BY <1>1, <1>2, <1>5, <1>7, Zenon DEF Conns
<1>10. c.recv \in [Flows -> Seq(Nat)] /\ c.taken \in [Sides -> Nat]
  BY <1>1 DEF Conns
<1> HIDE DEF e
<1>11. /\ e.recv[d] = all /\ e.recv[Opposite(d)] = c.recv[Opposite(d)]
       /\ e.taken[From(d)] = count /\ e.taken[To(d)] = c.taken[To(d)]
  BY <1>2, <1>9, <1>10
<1>12. Spliced(e, d)
  <2>1. Len(all) <= MAX_RECV
    BY <1>3, <1>7, DialConnectionAssumption
  <2>2. e.got[To(d)] \o e.send[d] \o e.recv[d] = Stream(count)
    BY <1>8, <1>9, <1>11, Zenon
  <2> QED BY <1>5, <1>11, <2>1, <2>2 DEF Spliced
<1>13. Ready(e, d)
  BY <1>1, <1>9, <1>12 DEF Ready, Ended
<1>14. Untouched(c, e, Opposite(d)) /\ Still(c, e)
  BY <1>2, <1>9, <1>11 DEF Untouched, Still
<1> QED BY <1>6, <1>7, <1>9, <1>11, <1>13, <1>14 DEF Read

\* The bytes the framer takes leave the buffer at its front.
LEMMA FramedCarries ==
    ASSUME NEW d \in Flows, NEW c, Ready(c, d), NEW n \in 0 .. Len(c.recv[d]),
           NEW e, e = [c EXCEPT !.recv[d] = After(@, n)]
    PROVE  /\ Carrying(e, d, First(c.recv[d], n)) /\ First(c.recv[d], n) \in Seq(Nat)
           /\ Untouched(c, e, Opposite(d)) /\ Still(c, e)
           /\ e.state = c.state /\ e.reg = c.reg
<1> DEFINE rest == After(c.recv[d], n)
           x == [c EXCEPT !.recv[d] = rest]
<1>1. c \in Conns /\ c.open /\ ~c.panicked
  BY DEF Ready
<1>2. c.recv[d] \in Seq(Nat)
  BY <1>1, Bytes
<1>3. /\ First(c.recv[d], n) \in Seq(Nat) /\ rest \in Seq(Nat)
      /\ Len(rest) = Len(c.recv[d]) - n /\ First(c.recv[d], n) \o rest = c.recv[d]
  BY <1>2, FirstAfter, Zenon
<1>4. e = x
  BY <1>1 DEF Conns
<1> HIDE DEF rest
<1>5. /\ x \in Conns /\ x.recv = [c.recv EXCEPT ![d] = rest]
      /\ x.taken = c.taken /\ x.send = c.send /\ x.write = c.write
      /\ x.got = c.got /\ x.fins = c.fins /\ x.state = c.state /\ x.reg = c.reg
      /\ x.open = c.open /\ x.panicked = c.panicked /\ x.deadline = c.deadline
      /\ x.connecting = c.connecting
  BY <1>1, <1>3, Zenon DEF Conns
<1>6. c.recv \in [Flows -> Seq(Nat)]
  BY <1>1 DEF Conns
<1> HIDE DEF x
<1>7. e.recv[d] = rest /\ e.recv[Opposite(d)] = c.recv[Opposite(d)]
  <2>1. Opposite(d) \in Flows /\ Opposite(d) # d
    BY Ends
  <2>2. x.recv = [c.recv EXCEPT ![d] = rest]
    BY <1>5
  <2> QED BY <1>4, <1>6, <2>1, <2>2
<1>8. (e.got[To(d)] \o e.send[d]) \o (First(c.recv[d], n) \o e.recv[d]) = Stream(e.taken[From(d)])
  BY <1>3, <1>4, <1>5, <1>7, Zenon DEF Ready, Spliced
<1>9. Len(rest) <= MAX_RECV
  BY <1>2, <1>3, DialConnectionAssumption DEF Ready, Spliced
<1>10. Ended(e, d) /\ e.taken[From(d)] <= sent[From(d)]
  BY <1>4, <1>5 DEF Ready, Spliced, Ended
<1>11. Carrying(e, d, First(c.recv[d], n))
  BY <1>1, <1>4, <1>5, <1>7, <1>8, <1>9, <1>10, Zenon DEF Carrying
<1>12. Untouched(c, e, Opposite(d)) /\ Still(c, e)
  BY <1>4, <1>5, <1>7 DEF Untouched, Still
<1> QED BY <1>3, <1>4, <1>5, <1>11, <1>12

\* A chunk read and framed: its bytes are passed on, or the connection closes.
LEMMA FramingChunked ==
    ASSUME NEW d \in Flows, NEW c, Ready(c, d), c.state[d] = "Open",
           NEW m \in Nat, NEW n \in Nat, NEW e, Read(c, d, m, e), n <= Len(e.recv[d]),
           NEW q \in IF n = 0 THEN Keep(e)
                     ELSE send_framed([e EXCEPT !.recv[d] = After(@, n)], d, First(e.recv[d], n)),
           NEW r \in IF q.outcome = "Close" THEN {q} ELSE sync_write_interest(q.conn, d)
    PROVE  Chunked(c, d, r)
<1>1. /\ Ready(e, d) /\ Untouched(c, e, Opposite(d)) /\ Still(c, e)
      /\ e.state[d] = "Open" /\ e.reg[To(d)]
  BY DEF Read, Ready, Ended
<1>2. e \in Conns /\ ~e.panicked
  BY <1>1 DEF Ready
<1>3. CASE n = 0
  <2>1. q = [conn |-> e, outcome |-> "Keep"]
    BY <1>3 DEF Keep
  <2>2. r \in sync_write_interest(e, d)
    BY <2>1
  <2>3. Settled(e, d, r)
    BY <1>1, <2>2, SyncSettled
  <2> QED BY <1>1, <2>3, SettledFrom, SettledChunked
<1>4. CASE n # 0
  <2> DEFINE f == [e EXCEPT !.recv[d] = After(@, n)]
             bytes == First(e.recv[d], n)
  <2>1. q \in send_framed(f, d, bytes)
    BY <1>4
  <2>2. n \in 0 .. Len(e.recv[d])
    <3>1. Len(e.recv[d]) \in Nat
      BY <1>2, Bytes
    <3> QED BY <3>1
  <2>3. f = [e EXCEPT !.recv[d] = After(@, n)]
    OBVIOUS
  <2> HIDE DEF f
  <2>4. /\ Carrying(f, d, bytes) /\ bytes \in Seq(Nat)
        /\ Untouched(e, f, Opposite(d)) /\ Still(e, f)
        /\ f.state = e.state /\ f.reg = e.reg
    BY <1>1, <2>2, <2>3, FramedCarries
  <2> HIDE DEF bytes
  <2>5. Fed(f, d, q)
    BY <2>1, <2>4, SendFramedFed
  <2>6. Untouched(c, f, Opposite(d)) /\ Still(c, f)
    BY <1>1, <2>4 DEF Untouched, Still
  <2>7. CASE q.outcome = "Close"
    <3>1. r = q
      BY <2>7
    <3> QED BY <2>5, <2>6, <2>7, <3>1 DEF Fed, Chunked, Moved, Still
  <2>8. CASE q.outcome = "Keep"
    <3>1. r \in sync_write_interest(q.conn, d)
      BY <2>8
    <3>2. /\ Ready(q.conn, d) /\ q.conn.state[d] = "Open" /\ q.conn.reg[To(d)]
      BY <1>1, <2>4, <2>5, <2>8 DEF Fed
    <3>3. Settled(q.conn, d, r)
      BY <3>1, <3>2, SyncSettled
    <3> QED BY <2>5, <2>6, <2>8, <3>3, FedChunked
  <2>9. q.outcome \in {"Keep", "Close"}
    BY <2>5 DEF Fed, Results
  <2> QED BY <2>7, <2>8, <2>9
<1> QED BY <1>3, <1>4

\* ForwardChunk, whatever the read comes to and whatever the framer takes.
LEMMA ForwardChunked ==
    ASSUME NEW d \in Flows, NEW c, Ready(c, d), c.state[d] = "Open", c.reg[From(d)],
           sent \in [Sides -> Nat], NEW r \in ForwardChunk(c, d)
    PROVE  Chunked(c, d, r)
<1> DEFINE free == MAX_RECV - Len(c.recv[d])
           available == Available(c, From(d))
           m == Min({free, available})
           received == commit(c, d, m)
           Ns == IF available = 0 THEN {} ELSE 0 .. Min({MAX_RECV, Len(c.recv[d]) + available})
           Fs(n) == IF n = 0 THEN Keep(received)
                    ELSE send_framed([received EXCEPT !.recv[d] = After(@, n)], d,
                                     First(received.recv[d], n))
           Rs(q) == IF q.outcome = "Close" THEN {q} ELSE sync_write_interest(q.conn, d)
<1>1. c \in Conns /\ ~c.panicked /\ c.reg[To(d)]
  BY DEF Ready, Ended
<1>2. CASE r \in Close(c)
  BY <1>1, <1>2, CloseFed DEF Fed, Chunked
<1>3. CASE r \in sync_write_interest(c, d)
  BY <1>1, <1>3, SyncSettled, SettledChunked
<1>4. CASE r \in half_close(c, d)
  BY <1>4, HalfCloseSettled, SettledChunked
<1>5. ASSUME NEW n \in Ns, free # 0, NEW q \in Fs(n), r \in Rs(q)
      PROVE  Chunked(c, d, r)
  <2>1. Len(c.recv[d]) \in Nat /\ Len(c.recv[d]) <= MAX_RECV /\ MAX_RECV \in Nat
    <3>1. c.recv[d] \in Seq(Nat)
      BY <1>1, Bytes
    <3> QED BY <3>1, DialConnectionAssumption DEF Ready, Spliced
  <2>2. available \in Nat
    <3>1. c.taken[From(d)] \in Nat /\ sent[From(d)] \in Nat /\ c.taken[From(d)] <= sent[From(d)]
      BY <1>1, Bytes, Ends DEF Ready, Spliced
    <3> QED BY <3>1 DEF Available
  <2>3. free \in Nat
    BY <2>1
  <2>4. m = IF free <= available THEN free ELSE available
    <3> HIDE DEF free, available
    <3> QED BY <2>2, <2>3, MinOfTwo
  <2>5. Min({MAX_RECV, Len(c.recv[d]) + available})
          = IF MAX_RECV <= Len(c.recv[d]) + available THEN MAX_RECV ELSE Len(c.recv[d]) + available
    <3> HIDE DEF available
    <3>1. Len(c.recv[d]) + available \in Nat
      BY <2>1, <2>2
    <3> QED BY <2>1, <3>1, MinOfTwo
  <2> HIDE DEF m, available
  <2>6. m \in Nat /\ m <= free /\ m <= available /\ n \in Nat /\ n <= Len(c.recv[d]) + m
    BY <2>1, <2>2, <2>3, <2>4, <2>5, <1>5
  <2>7. Read(c, d, m, received)
    BY <2>6, CommitReads DEF available
  <2> HIDE DEF received
  <2>8. n <= Len(received.recv[d])
    BY <2>6, <2>7 DEF Read
  <2> QED BY <1>5, <2>6, <2>7, <2>8, FramingChunked, Zenon
<1>6. \/ r \in Close(c) \/ r \in sync_write_interest(c, d) \/ r \in half_close(c, d)
      \/ free # 0 /\ \E n \in Ns : \E q \in Fs(n) : r \in Rs(q)
  <2>1. CASE free = 0
    BY <2>1 DEF ForwardChunk
  <2>2. CASE free # 0
    <3> DEFINE quiet == IF available = 0 /\ ~eof[From(d)] /\ ~hup[From(d)]
                        THEN sync_write_interest(c, d) ELSE {}
               over == IF available = 0 /\ (eof[From(d)] \/ hup[From(d)])
                       THEN half_close(c, d) ELSE {}
               bad == IF hup[From(d)] \/ available > 0 THEN Close(c) ELSE {}
               Gs(n) == UNION {Rs(q) : q \in Fs(n)}
    <3>1. r \in UNION ({quiet} \union {over} \union {bad} \union {Gs(n) : n \in Ns})
      BY <2>2, Zenon DEF ForwardChunk
    <3> HIDE DEF quiet, over, bad, Ns, Fs, Rs, free
    <3>2. r \in quiet \/ r \in over \/ r \in bad \/ \E n \in Ns : \E q \in Fs(n) : r \in Rs(q)
      BY <3>1
    <3> QED BY <2>2, <3>2 DEF quiet, over, bad
  <2> QED BY <2>1, <2>2, Zenon
<1> HIDE DEF Ns, Fs, Rs, free
<1> QED BY <1>2, <1>3, <1>4, <1>5, <1>6

(* ------------------------------- the handlers ------------------------------ *)

Whole(c) == c \in Conns /\ c.open /\ ~c.panicked /\ \A d \in Flows : Flowing(c, d)

\* A handler's result once the connect is settled, and that of the whole handler.
Worked(c, r) ==
    /\ r \in Results /\ ~r.conn.panicked /\ Moved(c, r.conn)
    /\ r.outcome = "Keep" => Whole(r.conn)

Handled(c, r) ==
    /\ r \in Results /\ ~r.conn.panicked
    /\ \/ r.conn.deadline = c.deadline
       \/ /\ r.conn.deadline = IDLE_TIMEOUT
          /\ r.conn.got # c.got \/ r.conn.connecting # c.connecting
    /\ r.outcome = "Keep" => Whole(r.conn)

\* A flow handled and the other untouched make the whole.
LEMMA ChunkedWorked ==
    ASSUME NEW d \in Flows, NEW c, Flowing(c, Opposite(d)), NEW r, Chunked(c, d, r)
    PROVE  Worked(c, r)
<1>1. ASSUME r.outcome = "Keep" PROVE Whole(r.conn)
  <2>1. /\ r.conn \in Conns /\ r.conn.open /\ ~r.conn.panicked /\ Flowing(r.conn, d)
        /\ Untouched(c, r.conn, Opposite(d))
    BY <1>1 DEF Chunked, Results
  <2>2. Flowing(r.conn, Opposite(d))
    BY <2>1, Zenon DEF Flowing, Spliced, Ended, Armed, Untouched
  <2>3. \A e \in Flows : e = d \/ e = Opposite(d)
    BY Ends
  <2> QED BY <2>1, <2>2, <2>3 DEF Whole
<1> QED BY <1>1 DEF Worked, Chunked

\* close_if_complete may only turn a kept connection into one to close.
LEMMA CloseIfCompleteWorked ==
    ASSUME NEW c, NEW S, \A s \in S : Worked(c, s), NEW r \in close_if_complete(S)
    PROVE  Worked(c, r)
<1>1. PICK s \in S : r = [s EXCEPT !.outcome = IF \A d \in Flows : s.conn.state[d] = "Done"
                                               THEN "Close" ELSE @]
  BY Zenon DEF close_if_complete
<1>2. s \in Results /\ Worked(c, s)
  BY DEF Worked
<1>3. /\ r \in Results /\ r.conn = s.conn /\ r.outcome \in {"Close", s.outcome}
  <2> DEFINE o == IF \A d \in Flows : s.conn.state[d] = "Done" THEN "Close" ELSE s.outcome
  <2>1. o \in {"Keep", "Close"} /\ o \in {"Close", s.outcome}
    BY <1>2 DEF Results
  <2>2. r = [s EXCEPT !.outcome = o]
    BY <1>1
  <2> HIDE DEF o
  <2> QED BY <1>2, <2>1, <2>2 DEF Results
<1> QED BY <1>2, <1>3 DEF Worked

\* peer_gone abandons the reverse flow with its fd and settles this one.
LEMMA PeerGoneWorked ==
    ASSUME NEW d \in Flows, NEW c, Whole(c), c.reg[To(d)], c.reg[From(d)], NEW r \in peer_gone(c, d)
    PROVE  Worked(c, r)
<1> DEFINE x == [[c EXCEPT !.state[Opposite(d)] = "Done"] EXCEPT !.reg[From(d)] = FALSE]
           e == [[[c EXCEPT !.state[Opposite(d)] = "Done"] EXCEPT !.read[To(d)] = FALSE]
                   EXCEPT !.reg[From(d)] = FALSE]
<1>1. c \in Conns /\ c.open /\ ~c.panicked /\ Flowing(c, d) /\ Flowing(c, Opposite(d))
  BY Ends DEF Whole
<1>2. To(d) \in Sides /\ To(d) # From(d) /\ Opposite(d) \in Flows /\ Opposite(d) # d
      /\ To(Opposite(d)) = From(d) /\ From(d) \in Sides /\ From(Opposite(d)) = To(d)
  BY Ends
<1>3. CASE r \in Refused(x)
  <2>1. /\ x \in Conns /\ x.panicked = c.panicked /\ x.deadline = c.deadline
        /\ x.connecting = c.connecting
    BY <1>1, <1>2, Zenon DEF Conns
  <2> HIDE DEF x
  <2>2. r \in Results /\ ~r.conn.panicked /\ Still(x, r.conn) /\ r.outcome = "Close"
    BY <1>1, <1>3, <2>1, RefusedCloses
  <2> QED BY <2>1, <2>2 DEF Worked, Moved, Still
<1>4. CASE r \in close_if_complete(settle(e, d))
  <2>1. /\ e \in Conns /\ e.state = [c.state EXCEPT ![Opposite(d)] = "Done"]
        /\ e.reg = [c.reg EXCEPT ![From(d)] = FALSE] /\ e.recv = c.recv
        /\ e.taken = c.taken /\ e.send = c.send /\ e.write = c.write
        /\ e.got = c.got /\ e.fins = c.fins
        /\ e.open = c.open /\ e.panicked = c.panicked /\ e.deadline = c.deadline
        /\ e.connecting = c.connecting
    BY <1>1, <1>2, Zenon DEF Conns
  <2>2. c.state \in [Flows -> {"Open", "SourceClosed", "Done"}] /\ c.reg \in [Sides -> BOOLEAN]
    BY <1>1 DEF Conns
  <2> HIDE DEF e
  <2>3. e.state[d] = c.state[d] /\ e.state[Opposite(d)] = "Done" /\ e.reg[From(d)] = FALSE
    BY <1>2, <2>1, <2>2
  <2>4. e.reg[To(d)]
    <3>1. e.reg[To(d)] = c.reg[To(d)]
      BY <1>2, <2>1, <2>2, Zenon
    <3> QED BY <3>1
  <2>5. Ready(e, d)
    BY <1>1, <2>1, <2>3, <2>4, Zenon DEF Ready, Flowing, Spliced, Ended
  <2>6. Flowing(e, Opposite(d))
    <3>1. Spliced(e, Opposite(d)) /\ c.fins[To(Opposite(d))] \in {0, 1}
      BY <1>1, <2>1, Zenon DEF Flowing, Spliced, Ended
    <3> QED BY <1>2, <2>1, <2>3, <3>1 DEF Flowing, Ended, Armed
  <2>7. ASSUME NEW s \in settle(e, d) PROVE Worked(c, s)
    <3>1. Chunked(e, d, s)
      BY <2>4, <2>5, SettleSettled, SettledChunked
    <3>2. Worked(e, s)
      BY <2>6, <3>1, ChunkedWorked
    <3> QED BY <2>1, <3>2 DEF Worked, Moved
  <2> QED BY <1>4, <2>7, CloseIfCompleteWorked
<1>5. r \in close_if_complete(settle(e, d)) \/ r \in Refused(x)
  BY DEF peer_gone
<1> QED BY <1>3, <1>4, <1>5

\* A connection before and after an edge of the device: the edge that ends the connect also
\* starts the idle timeout.
Greeted(c, e) ==
    /\ Whole(e) /\ e.got = c.got /\ e.reg = c.reg /\ e.state = c.state
    /\ \/ e.deadline = c.deadline /\ e.connecting = c.connecting
       \/ e.deadline = IDLE_TIMEOUT /\ e.connecting # c.connecting

\* The first edge of the device ends the connect and starts the idle timeout, or closes.
LEMMA ConnectedGreets ==
    ASSUME NEW c, Whole(c), NEW side, NEW r \in Connected(c, side)
    PROVE  \/ r.outcome = "Close" /\ Handled(c, r)
           \/ r.outcome = "Keep" /\ Greeted(c, r.conn)
<1> DEFINE e == [[c EXCEPT !.connecting = FALSE] EXCEPT !.deadline = IDLE_TIMEOUT]
<1>1. c \in Conns /\ c.open /\ ~c.panicked
  BY DEF Whole
<1>2. CASE r \in Close(c)
  BY <1>1, <1>2 DEF Close, Handled, Results
<1>3. CASE r \in Keep(c)
  BY <1>3 DEF Keep, Greeted
<1>4. CASE c.connecting /\ r \in Keep(e)
  <2>1. IDLE_TIMEOUT \in Nat
    BY DialConnectionAssumption
  <2>2. /\ e \in Conns /\ e.state = c.state /\ e.reg = c.reg /\ e.recv = c.recv
        /\ e.taken = c.taken /\ e.send = c.send /\ e.write = c.write
        /\ e.got = c.got /\ e.fins = c.fins
        /\ e.open = c.open /\ e.panicked = c.panicked /\ e.deadline = IDLE_TIMEOUT
        /\ e.connecting = FALSE
    BY <1>1, <2>1, Zenon DEF Conns
  <2>3. r = [conn |-> e, outcome |-> "Keep"]
    BY <1>4 DEF Keep
  <2> HIDE DEF e
  <2>4. Whole(e)
    BY <2>2, Zenon DEF Whole, Flowing, Spliced, Ended, Armed
  <2> QED BY <1>4, <2>2, <2>3, <2>4, Zenon DEF Greeted
<1>5. r \in Close(c) \/ r \in Keep(c) \/ (c.connecting /\ r \in Keep(e))
  BY DEF Connected, Connecting, finish_device_connect
<1> QED BY <1>2, <1>3, <1>4, <1>5

\* What a handler does after the connect, it does for the connection as it was before.
LEMMA GreetedHandled ==
    ASSUME NEW c, NEW e, Greeted(c, e), NEW r, Worked(e, r)
    PROVE  Handled(c, r)
BY DEF Greeted, Worked, Handled, Moved

\* forward, on a readable edge: a chunk of an open flow, a hangup otherwise.
LEMMA ForwardHandled ==
    ASSUME NEW d \in Flows, NEW c, Whole(c), c.reg[From(d)], sent \in [Sides -> Nat],
           NEW r \in forward(c, d)
    PROVE  Handled(c, r)
<1> DEFINE Fs(q) == CASE q.outcome = "Close" -> {q}
                      [] q.outcome = "Keep" /\ q.conn.state[d] = "Open" ->
                           close_if_complete(ForwardChunk(q.conn, d))
                      [] q.outcome = "Keep" /\ q.conn.state[d] # "Open" ->
                           IF q.conn.reg[To(d)] THEN peer_gone(q.conn, d) ELSE Close(q.conn)
<1>1. PICK q \in Connected(c, From(d)) : r \in Fs(q)
  <2>1. r \in UNION {Fs(q) : q \in Connected(c, From(d))}
    BY Zenon DEF forward
  <2> HIDE DEF Fs
  <2> QED BY <2>1
<1>2. CASE q.outcome = "Close" /\ Handled(c, q)
  BY <1>1, <1>2
<1>3. CASE q.outcome = "Keep" /\ Greeted(c, q.conn)
  <2> DEFINE e == q.conn
  <2>1. Whole(e) /\ e.reg[From(d)]
    BY <1>3 DEF Greeted
  <2>2. e \in Conns /\ ~e.panicked /\ Flowing(e, d) /\ Flowing(e, Opposite(d)) /\ Ready(e, d)
    BY <2>1, Ends DEF Whole, Ready, Flowing
  <2>3. CASE e.state[d] = "Open"
    <3>1. r \in close_if_complete(ForwardChunk(e, d))
      BY <1>1, <1>3, <2>3
    <3> HIDE DEF e
    <3>2. ASSUME NEW s \in ForwardChunk(e, d) PROVE Worked(e, s)
      <4>1. Chunked(e, d, s)
        BY <2>1, <2>2, <2>3, ForwardChunked
      <4> QED BY <2>2, <4>1, ChunkedWorked
    <3>3. Worked(e, r)
      BY <3>1, <3>2, CloseIfCompleteWorked
    <3> QED BY <1>3, <3>3, GreetedHandled DEF e
  <2>4. CASE e.state[d] # "Open"
    <3>1. r \in IF e.reg[To(d)] THEN peer_gone(e, d) ELSE Close(e)
      BY <1>1, <1>3, <2>4
    <3> HIDE DEF e
    <3>2. CASE e.reg[To(d)]
      <4>1. Worked(e, r)
        BY <2>1, <3>1, <3>2, PeerGoneWorked
      <4> QED BY <1>3, <4>1, GreetedHandled DEF e
    <3>3. CASE ~e.reg[To(d)]
      <4>1. Worked(e, r)
        BY <2>2, <3>1, <3>3, CloseFed DEF Fed, Worked
      <4> QED BY <1>3, <4>1, GreetedHandled DEF e
    <3> QED BY <3>2, <3>3
  <2> QED BY <2>3, <2>4
<1> QED BY <1>2, <1>3, ConnectedGreets

\* on_writable: the backlog drains, and the flow settles.
LEMMA OnWritableHandled ==
    ASSUME NEW d \in Flows, NEW c, Whole(c), c.reg[To(d)], NEW r \in on_writable(c, d)
    PROVE  Handled(c, r)
<1> DEFINE Gs(s) == IF s.outcome = "Close" THEN {s} ELSE close_if_complete(settle(s.conn, d))
           Fs(q) == IF q.outcome = "Close" THEN {q} ELSE UNION {Gs(s) : s \in drain(q.conn, d)}
<1>1. PICK q \in Connected(c, To(d)) : r \in Fs(q)
  <2>1. r \in UNION {Fs(q) : q \in Connected(c, To(d))}
    BY DEF on_writable
  <2> HIDE DEF Fs
  <2> QED BY <2>1
<1>2. CASE q.outcome = "Close" /\ Handled(c, q)
  BY <1>1, <1>2
<1>3. CASE q.outcome = "Keep" /\ Greeted(c, q.conn)
  <2> DEFINE e == q.conn
  <2>1. Whole(e) /\ e.reg[To(d)]
    BY <1>3 DEF Greeted
  <2>2. Flowing(e, Opposite(d)) /\ Ready(e, d)
    BY <2>1, Ends DEF Whole, Ready, Flowing
  <2>3. PICK s \in drain(e, d) : r \in Gs(s)
    <3>1. r \in UNION {Gs(s) : s \in drain(e, d)}
      BY <1>1, <1>3
    <3> HIDE DEF Gs, e
    <3> QED BY <3>1
  <2> HIDE DEF e
  <2>4. Fed(e, d, s)
    BY <2>2, DrainFed
  <2>5. CASE s.outcome = "Close"
    <3>1. Worked(e, r)
      BY <2>3, <2>4, <2>5 DEF Fed, Worked
    <3> QED BY <1>3, <3>1, GreetedHandled DEF e
  <2>6. CASE s.outcome = "Keep"
    <3>1. r \in close_if_complete(settle(s.conn, d))
      BY <2>3, <2>6
    <3>2. Ready(s.conn, d) /\ s.conn.reg[To(d)]
      BY <2>1, <2>4, <2>6 DEF Fed
    <3>3. ASSUME NEW t \in settle(s.conn, d) PROVE Worked(e, t)
      <4>1. Settled(s.conn, d, t)
        BY <3>2, SettleSettled
      <4>2. Still(e, e) /\ Untouched(e, e, Opposite(d))
        BY DEF Still, Untouched
      <4>3. Chunked(e, d, t)
        BY <2>4, <2>6, <4>1, <4>2, FedChunked
      <4> QED BY <2>2, <4>3, ChunkedWorked
    <3>4. Worked(e, r)
      BY <3>1, <3>3, CloseIfCompleteWorked
    <3> QED BY <1>3, <3>4, GreetedHandled DEF e
  <2>7. s.outcome \in {"Keep", "Close"}
    BY <2>4 DEF Fed, Results
  <2> QED BY <2>5, <2>6, <2>7
<1> QED BY <1>2, <1>3, ConnectedGreets

(* --------------------------------- the steps ------------------------------- *)

\* A connection that starts has nothing in its buffers.
LEMMA InitIInv == Init => IInv
<1> SUFFICES ASSUME Init PROVE IInv
    OBVIOUS
<1>1. PICK armed, pending \in BOOLEAN :
        /\ armed \/ MaxFaults > 0
        /\ conn = [recv |-> [d \in Flows |-> <<>>], send |-> [d \in Flows |-> <<>>],
                   state |-> [d \in Flows |-> "Open"],
                   reg |-> [s \in Sides |-> TRUE], read |-> [s \in Sides |-> TRUE],
                   write |-> [s \in Sides |-> s = "device" /\ armed],
                   connecting |-> pending, deadline |-> CONNECT_TIMEOUT,
                   taken |-> [s \in Sides |-> 0], got |-> [s \in Sides |-> <<>>],
                   room |-> [s \in Sides |-> Window], fins |-> [s \in Sides |-> 0],
                   open |-> TRUE, panicked |-> FALSE, faults |-> IF armed THEN 0 ELSE 1]
  BY Zenon DEF Init
<1>2. /\ CONNECT_TIMEOUT \in Nat /\ Window \in Nat /\ MAX_RECV \in Nat /\ IDLE_TIMEOUT \in Nat
      /\ CONNECT_TIMEOUT <= IDLE_TIMEOUT
  BY DialConnectionAssumption
<1>3. conn \in Conns
  <2> DEFINE e == <<>>  w == [s \in Sides |-> s = "device" /\ armed]  f == IF armed THEN 0 ELSE 1
  <2>1. e \in Seq(Nat) /\ w \in [Sides -> BOOLEAN] /\ f \in Nat
    OBVIOUS
  <2>2. conn = [recv |-> [d \in Flows |-> e], send |-> [d \in Flows |-> e],
                state |-> [d \in Flows |-> "Open"],
                reg |-> [s \in Sides |-> TRUE], read |-> [s \in Sides |-> TRUE],
                write |-> w, connecting |-> pending, deadline |-> CONNECT_TIMEOUT,
                taken |-> [s \in Sides |-> 0], got |-> [s \in Sides |-> e],
                room |-> [s \in Sides |-> Window], fins |-> [s \in Sides |-> 0],
                open |-> TRUE, panicked |-> FALSE, faults |-> f]
    BY <1>1
  <2> HIDE DEF e, w, f
  <2> QED BY <1>2, <2>1, <2>2 DEF Conns
<1>4. /\ ~conn.panicked /\ conn.open /\ conn.deadline = CONNECT_TIMEOUT
      /\ \A d \in Flows : conn.recv[d] = <<>> /\ conn.send[d] = <<>> /\ conn.state[d] = "Open"
      /\ \A s \in Sides : conn.reg[s] /\ conn.taken[s] = 0 /\ conn.got[s] = <<>> /\ conn.fins[s] = 0
  BY <1>1
<1>5. sent = [s \in Sides |-> 0] /\ batch = <<>> /\ idle = 0
  BY DEF Init
<1>6. ASSUME NEW d \in Flows PROVE Flowing(conn, d)
  <2>1. To(d) \in Sides /\ From(d) \in Sides
    BY Ends
  <2>2. Stream(0) = <<>>
    BY DEF Stream
  <2>3. <<>> \o <<>> \o <<>> = <<>>
    OBVIOUS
  <2>4. Spliced(conn, d)
    <3>1. /\ conn.got[To(d)] = <<>> /\ conn.send[d] = <<>> /\ conn.recv[d] = <<>>
          /\ conn.taken[From(d)] = 0 /\ sent[From(d)] = 0
      BY <1>4, <1>5, <2>1
    <3>2. conn.got[To(d)] \o conn.send[d] \o conn.recv[d] = Stream(conn.taken[From(d)])
      BY <2>2, <2>3, <3>1
    <3>3. Len(conn.recv[d]) <= MAX_RECV
      BY <1>2, <3>1
    <3> QED BY <3>1, <3>2, <3>3 DEF Spliced
  <2>5. Ended(conn, d) /\ Armed(conn, d)
    BY <1>4, <2>1 DEF Ended, Armed
  <2> QED BY <2>4, <2>5 DEF Flowing
<1> QED BY <1>2, <1>3, <1>4, <1>5, <1>6 DEF IInv, Shape

\* A closed connection has nothing registered.
LEMMA ClosedShape ==
    ASSUME NEW c \in Conns
    PROVE  /\ Closed(c) \in Conns /\ ~Closed(c).open /\ Closed(c).panicked = c.panicked
           /\ \A s \in Sides : ~Closed(c).reg[s]
BY Zenon DEF Closed, Conns

\* Only what the peers and the connection do to their buffers matters.
LEMMA SameIInv ==
    ASSUME IInv, UNCHANGED <<conn, sent, idle>>, batch' \in Seq(Event)
    PROVE  IInv'
BY Zenon DEF IInv, Shape, Flowing, Spliced, Ended, Armed

\* A wait reports edges of the two sockets.
LEMMA WaitIInv == IInv /\ Wait => IInv'
<1> SUFFICES ASSUME IInv, Wait PROVE IInv'
    OBVIOUS
<1>1. PICK first, second \in Sides : batch' = EventsOf(first) \o EventsOf(second)
  BY Zenon DEF Wait
<1>2. \A s \in Sides : EventsOf(s) \in Seq(Event)
  <2> SUFFICES ASSUME NEW s \in Sides PROVE EventsOf(s) \in Seq(Event)
      OBVIOUS
  <2> DEFINE a == IF Readable(s) THEN <<[side |-> s, kind |-> "readable"]>> ELSE <<>>
             b == IF Writable(s) THEN <<[side |-> s, kind |-> "writable"]>> ELSE <<>>
  <2>1. [side |-> s, kind |-> "readable"] \in Event /\ [side |-> s, kind |-> "writable"] \in Event
    BY DEF Event
  <2>2. a \in Seq(Event)
    BY <2>1
  <2>3. b \in Seq(Event)
    BY <2>1
  <2>4. EventsOf(s) = a \o b
    BY DEF EventsOf
  <2> HIDE DEF a, b
  <2> QED BY <2>2, <2>3, <2>4
<1>3. batch' \in Seq(Event)
  BY <1>1, <1>2
<1>4. UNCHANGED <<conn, sent, idle>>
  BY DEF Wait, peers
<1> QED BY <1>3, <1>4, SameIInv

\* The flow of an edge starts, or ends, at the socket it is on.
LEMMA FlowOfEvent ==
    ASSUME NEW event \in Event
    PROVE  /\ FlowOf(event) \in Flows
           /\ event.kind = "readable" => From(FlowOf(event)) = event.side
           /\ event.kind = "writable" => To(FlowOf(event)) = event.side
<1>1. event.side \in Sides /\ event.kind \in {"readable", "writable"}
  BY DEF Event
<1>2. \E d \in Flows : From(d) = event.side
  BY <1>1 DEF Sides, Flows, From
<1>3. \E d \in Flows : To(d) = event.side
  BY <1>1 DEF Sides, Flows, To
<1> QED BY <1>1, <1>2, <1>3, Zenon DEF FlowOf

\* An edge is dispatched to the handler of its flow.
LEMMA DispatchIInv == IInv /\ Dispatch => IInv'
<1> SUFFICES ASSUME IInv, Dispatch PROVE IInv'
    OBVIOUS
<1> DEFINE event == Head(batch)
           d == FlowOf(event)
<1>1. conn \in Conns /\ sent \in [Sides -> Nat] /\ batch \in Seq(Event) /\ idle \in Nat
  BY DEF IInv, Shape
<1>2. batch # <<>> /\ batch' = Tail(batch) /\ UNCHANGED sent
  BY DEF Dispatch, peers
<1>3. event \in Event /\ batch' \in Seq(Event)
  BY <1>1, <1>2
<1> HIDE DEF event
<1>4. CASE Suppressed(event)
  <2>1. UNCHANGED <<conn, idle>>
    BY <1>4 DEF Dispatch, event
  <2> QED BY <1>2, <1>3, <2>1, SameIInv
<1>5. CASE ~Suppressed(event)
  <2>1. PICK r \in IF event.kind = "readable" THEN forward(conn, d) ELSE on_writable(conn, d) :
          /\ conn' = IF r.outcome = "Close" THEN Closed(r.conn) ELSE r.conn
          /\ idle' = IF r.conn.got # conn.got \/ r.conn.connecting # conn.connecting
                     THEN 0 ELSE idle
    BY <1>5 DEF Dispatch, event
  <2>2. conn.reg[event.side] /\ event.side \in Sides /\ event.kind \in {"readable", "writable"}
    BY <1>3, <1>5 DEF Suppressed, Event
  <2>3. conn.open
    BY <2>2 DEF IInv
  <2>4. Whole(conn) /\ idle + conn.deadline <= IDLE_TIMEOUT
    BY <1>1, <2>3 DEF IInv, Whole
  <2>5. /\ d \in Flows
        /\ event.kind = "readable" => From(d) = event.side
        /\ event.kind = "writable" => To(d) = event.side
    BY <1>3, FlowOfEvent
  <2> HIDE DEF d
  <2>6. Handled(conn, r)
    <3>1. CASE event.kind = "readable"
      <4>1. r \in forward(conn, d) /\ conn.reg[From(d)]
        BY <2>1, <2>2, <2>5, <3>1
      <4> QED BY <1>1, <2>4, <2>5, <4>1, ForwardHandled
    <3>2. CASE event.kind = "writable"
      <4>1. r \in on_writable(conn, d) /\ conn.reg[To(d)]
        BY <2>1, <2>2, <2>5, <3>2
      <4> QED BY <2>4, <2>5, <4>1, OnWritableHandled
    <3> QED BY <2>2, <3>1, <3>2
  <2>7. r.conn \in Conns /\ ~r.conn.panicked /\ r.outcome \in {"Keep", "Close"}
    BY <2>6 DEF Handled, Results
  <2>8. IDLE_TIMEOUT \in Nat /\ conn.deadline \in Nat
    BY <1>1, DialConnectionAssumption DEF Conns
  <2>9. idle' \in Nat /\ idle' + r.conn.deadline <= IDLE_TIMEOUT
    BY <1>1, <2>1, <2>4, <2>6, <2>8 DEF Handled
  <2>10. CASE r.outcome = "Close"
    <3>1. conn' = Closed(r.conn)
      BY <2>1, <2>10
    <3>2. conn' \in Conns /\ ~conn'.open /\ ~conn'.panicked /\ \A s \in Sides : ~conn'.reg[s]
      BY <2>7, <3>1, ClosedShape
    <3>3. Shape'
      BY <1>1, <1>2, <1>3, <2>9, <3>2 DEF Shape
    <3> QED BY <3>2, <3>3 DEF IInv
  <2>11. CASE r.outcome = "Keep"
    <3>1. conn' = r.conn /\ Whole(r.conn)
      BY <2>1, <2>6, <2>11 DEF Handled
    <3>2. Shape'
      BY <1>1, <1>2, <1>3, <2>7, <2>9, <3>1 DEF Shape
    <3>3. conn'.open /\ ~conn'.panicked
      BY <3>1 DEF Whole
    <3>4. \A f \in Flows : Flowing(conn, f)'
      BY <1>2, <3>1, Zenon DEF Whole, Flowing, Spliced, Ended, Armed
    <3> QED BY <2>9, <3>1, <3>2, <3>3, <3>4 DEF IInv
  <2> QED BY <2>7, <2>10, <2>11
<1> QED BY <1>4, <1>5

\* The proxy's sweep closes a connection that is due.
LEMMA SweepIInv == IInv /\ sweep => IInv'
<1> SUFFICES ASSUME IInv, sweep PROVE IInv'
    OBVIOUS
<1>1. conn \in Conns /\ conn' = Closed(conn) /\ UNCHANGED <<sent, batch, idle>>
  BY DEF IInv, Shape, sweep, peers
<1>2. conn' \in Conns /\ ~conn'.open /\ ~conn'.panicked /\ \A s \in Sides : ~conn'.reg[s]
  BY <1>1, ClosedShape DEF IInv
<1>3. Shape'
  BY <1>1, <1>2 DEF IInv, Shape
<1> QED BY <1>2, <1>3 DEF IInv

\* Time off the deadline is time idle.
LEMMA TickIInv == IInv /\ Tick => IInv'
<1> SUFFICES ASSUME IInv, Tick PROVE IInv'
    OBVIOUS
<1> DEFINE left == conn.deadline - 1
           e == [conn EXCEPT !.deadline = left]
<1>1. conn \in Conns /\ UNCHANGED <<sent, batch>> /\ conn.open /\ idle \in Nat
  BY DEF IInv, Shape, Tick, peers
<1>2. conn.deadline \in Nat /\ conn.deadline > 0 /\ left \in Nat /\ IDLE_TIMEOUT \in Nat
  BY <1>1, DialConnectionAssumption DEF Conns, Tick
<1>3. conn' = e
  BY DEF Tick
<1>4. idle' = idle + 1 /\ idle' + left <= IDLE_TIMEOUT
  <2>1. idle + conn.deadline <= IDLE_TIMEOUT
    BY <1>1 DEF IInv
  <2>2. idle + 1 \in Nat /\ IDLE_TIMEOUT + 1 \in Nat /\ idle + 1 <= IDLE_TIMEOUT + 1
    BY <1>1, <1>2, <2>1
  <2>3. Min({idle + 1, IDLE_TIMEOUT + 1}) = idle + 1
    BY <2>2, MinOfTwo
  <2> QED BY <1>1, <1>2, <2>1, <2>3 DEF Tick
<1> HIDE DEF left
<1>5. /\ e \in Conns /\ e.deadline = left /\ e.state = conn.state /\ e.reg = conn.reg
      /\ e.recv = conn.recv /\ e.taken = conn.taken /\ e.send = conn.send /\ e.write = conn.write
      /\ e.got = conn.got /\ e.fins = conn.fins /\ e.open = conn.open
      /\ e.panicked = conn.panicked
  BY <1>1, <1>2, Zenon DEF Conns
<1> HIDE DEF e
<1>6. \A d \in Flows : Flowing(conn, d)'
  BY <1>1, <1>3, <1>5, Zenon DEF IInv, Flowing, Spliced, Ended, Armed
<1>7. Shape'
  BY <1>1, <1>3, <1>4, <1>5 DEF IInv, Shape
<1>8. ~conn'.panicked /\ conn'.open /\ idle' + conn'.deadline <= IDLE_TIMEOUT
  BY <1>1, <1>3, <1>4, <1>5 DEF IInv
<1> QED BY <1>6, <1>7, <1>8 DEF IInv

\* The peers add to what can be read and to what can be written.
LEMMA PeerIInv == IInv /\ Peer => IInv'
<1> SUFFICES ASSUME IInv, Peer PROVE IInv'
    OBVIOUS
<1>1. conn \in Conns /\ sent \in [Sides -> Nat] /\ batch \in Seq(Event) /\ idle \in Nat
  BY DEF IInv, Shape
<1>2. ASSUME NEW s \in Sides, PeerSends(s) PROVE IInv'
  <2>1. UNCHANGED <<conn, batch, idle>> /\ sent' = [sent EXCEPT ![s] = @ + 1]
    BY <1>2 DEF PeerSends
  <2>2. sent' \in [Sides -> Nat] /\ \A t \in Sides : sent[t] <= sent'[t]
    BY <1>1, <2>1
  <2>3. Shape'
    BY <1>1, <2>1, <2>2 DEF Shape
  <2>4. ASSUME NEW d \in Flows, Flowing(conn, d) PROVE Flowing(conn, d)'
    <3>1. From(d) \in Sides /\ conn.taken[From(d)] \in Nat
      BY <1>1, Ends, Bytes
    <3>2. conn.taken[From(d)] <= sent[From(d)]
      BY <2>4 DEF Flowing, Spliced
    <3>3. conn.taken[From(d)] <= sent'[From(d)]
      BY <1>1, <2>2, <3>1, <3>2
    <3> QED BY <2>1, <2>4, <3>3 DEF Flowing, Spliced, Ended, Armed
  <2> QED BY <2>1, <2>3, <2>4 DEF IInv
<1>3. ASSUME NEW s \in Sides, PeerReads(s) PROVE IInv'
  <2> DEFINE more == conn.room[s] + 1
             e == [conn EXCEPT !.room[s] = more]
  <2>1. conn' = e /\ UNCHANGED <<sent, batch, idle>>
    BY <1>3 DEF PeerReads, peers
  <2>2. more \in Nat
    BY <1>1 DEF Conns
  <2> HIDE DEF more
  <2>3. /\ e \in Conns /\ e.deadline = conn.deadline /\ e.state = conn.state /\ e.reg = conn.reg
        /\ e.recv = conn.recv /\ e.taken = conn.taken /\ e.send = conn.send
        /\ e.write = conn.write /\ e.got = conn.got /\ e.fins = conn.fins /\ e.open = conn.open
        /\ e.panicked = conn.panicked
    BY <1>1, <2>2, Zenon DEF Conns
  <2> HIDE DEF e
  <2>4. Shape'
    BY <1>1, <2>1, <2>3 DEF Shape
  <2>5. \A d \in Flows : Flowing(conn, d) => Flowing(conn, d)'
    BY <2>1, <2>3 DEF Flowing, Spliced, Ended, Armed
  <2> QED BY <2>1, <2>3, <2>4, <2>5 DEF IInv
<1>4. CASE ConnectAnswered \/ \E s \in Sides : PeerCloses(s) \/ PeerHangsUp(s)
  <2>1. UNCHANGED <<conn, sent, idle, batch>>
    BY <1>4 DEF ConnectAnswered, PeerCloses, PeerHangsUp
  <2> QED BY <1>1, <2>1, SameIInv
<1> QED BY <1>2, <1>3, <1>4 DEF Peer

\* Every step of the reactor and of the peers keeps the invariant.
LEMMA NextIInv == IInv /\ [Next]_vars => IInv'
<1> SUFFICES ASSUME IInv, [Next]_vars PROVE IInv'
    OBVIOUS
<1>1. CASE UNCHANGED vars
  BY <1>1, SameIInv DEF vars, peers, IInv, Shape
<1> QED BY <1>1, WaitIInv, DispatchIInv, SweepIInv, TickIInv, PeerIInv DEF Next

\* The invariant holds of every connection (proxy.rs, connection.rs), whatever the buffers,
\* windows and timeouts.
THEOREM ConnectionInvariant == Spec => []IInv
BY InitIInv, NextIInv, PTL DEF Spec

\* No expect on a registration fails (half_close, sync_write_interest, peer_gone).
THEOREM NoExpectFails == Spec => []NeverPanics
<1>1. IInv => NeverPanics
  BY DEF IInv, NeverPanics
<1> QED BY <1>1, ConnectionInvariant, PTL

\* The splice loses, repeats and reorders nothing, and a flow ends in its one FIN.
THEOREM SpliceStaysFifo == Spec => []SpliceIsFifo
<1>1. IInv => SpliceIsFifo
  <2> SUFFICES ASSUME IInv, conn.open, NEW d \in Flows
               PROVE  /\ conn.got[To(d)] \o conn.send[d] \o conn.recv[d]
                           = [i \in 1..conn.taken[From(d)] |-> i]
                      /\ conn.fins[To(d)] <= 1
                      /\ conn.state[d] = "Done" /\ conn.reg[To(d)] => conn.fins[To(d)] = 1
      BY Zenon DEF SpliceIsFifo
  <2>1. Spliced(conn, d) /\ Ended(conn, d)
    BY DEF IInv, Flowing
  <2>2. conn.fins[To(d)] \in {0, 1}
    BY <2>1 DEF Ended
  <2> QED BY <2>1, <2>2 DEF Spliced, Ended, Stream
<1> QED BY <1>1, ConnectionInvariant, PTL

\* A backlog, or a FIN still owed, has its edge armed.
THEOREM BacklogStaysArmed == Spec => []BacklogIsArmed
<1>1. IInv => BacklogIsArmed
  BY DEF IInv, BacklogIsArmed, Flowing, Armed
<1> QED BY <1>1, ConnectionInvariant, PTL

\* A connection is closed within the idle timeout of the last byte that reached a peer.
THEOREM WedgedConnectionsAgeOut == Spec => []WedgedAgesOut
<1>1. IInv => WedgedAgesOut
  <2> SUFFICES ASSUME IInv, conn.open PROVE idle <= IDLE_TIMEOUT
      BY DEF WedgedAgesOut
  <2>1. conn.deadline \in Nat /\ idle \in Nat /\ idle + conn.deadline <= IDLE_TIMEOUT
    BY DEF IInv, Shape, Conns
  <2> QED BY <2>1, DialConnectionAssumption
<1> QED BY <1>1, ConnectionInvariant, PTL

=============================================================================
