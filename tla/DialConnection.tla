--------------------------- MODULE DialConnection ---------------------------
(* One proxied client <-> device connection of the DIAL proxy                  *)
(* (src/src/reflector/dial/connection.rs, and the part of proxy.rs that starts, *)
(* drives and closes it), with the two TCP peers and the reactor's events.      *)
(*                                                                            *)
(* A byte is the number of its place in the stream, so that a byte lost,        *)
(* repeated or out of order shows.  The framer is any consumption of a prefix   *)
(* of what is received: it is the header cap, the rewriting and the message     *)
(* boundaries that are left out.  An event is delivered as epoll reported it    *)
(* when the reactor last waited, so the handlers before it in the batch may     *)
(* have changed what it is about.  A handler is a function from a connection to *)
(* the set of the results it can have.                                         *)
EXTENDS Integers, Sequences, FiniteSetsExt

CONSTANTS
    Units,              \* bound: bytes each peer sends
    MAX_RECV, MAX_SEND, \* capacities of a flow's buffers
    Window,             \* bytes a socket accepts before its peer reads
    CONNECT_TIMEOUT, IDLE_TIMEOUT,
    MaxFaults           \* bound: changes of interest the kernel refuses

ASSUME DialConnectionAssumption ==
    /\ {Units, MAX_RECV, MAX_SEND, Window, CONNECT_TIMEOUT, IDLE_TIMEOUT} \subseteq Nat \ {0}
    /\ CONNECT_TIMEOUT <= IDLE_TIMEOUT
    /\ MaxFaults \in Nat

VARIABLES
    conn,       \* the connection, its sockets and its registrations
    sent,       \* bytes each peer has sent
    eof,        \* the peer has closed its write side
    hup,        \* the peer is gone altogether
    connect,    \* the device's answer to the connect: "pending", "accepted" or "refused"
    batch,      \* events of the last wait, not delivered yet
    idle        \* observer: ticks since bytes last reached a peer, or the connect ended

peers == <<sent, eof, hup, connect>>
vars == <<conn, peers, batch, idle>>

Sides == {"client", "device"}
Flows == {"c2u", "u2c"}
From(d) == IF d = "c2u" THEN "client" ELSE "device"
To(d) == IF d = "c2u" THEN "device" ELSE "client"
Opposite(d) == IF d = "c2u" THEN "u2c" ELSE "c2u"

First(s, n) == SubSeq(s, 1, n)
After(s, n) == SubSeq(s, n + 1, Len(s))

(* ------------------------------- results --------------------------------- *)

Keep(c) == {[conn |-> c, outcome |-> "Keep"]}
Close(c) == {[conn |-> c, outcome |-> "Close"]}

\* An expect on a registration that is not there.
Panic(c) == {[conn |-> [c EXCEPT !.panicked = TRUE], outcome |-> "Close"]}

\* The kernel refuses a change of interest, while it still may: the caller closes.
Refused(c) == IF c.faults < MaxFaults THEN Close([c EXCEPT !.faults = @ + 1]) ELSE {}

Connecting(c, side) == side = "device" /\ c.connecting

(* ---------------------------- DirectionContext --------------------------- *)

\* Fault: only a backlog arms the edge.
SyncForgetsConnect(c, d) ==
    LET to == To(d)
        armed == c.send[d] # <<>>
    IN  IF ~c.reg[to] THEN Panic(c)
        ELSE Keep([c EXCEPT !.write[to] = armed])
                 \union (IF c.write[to] # armed THEN Refused(c) ELSE {})

\* Armed while a backlog remains or the destination is still connecting.
sync_write_interest(c, d) ==
    LET to == To(d)
        armed == c.send[d] # <<>> \/ Connecting(c, to)
    IN  IF ~c.reg[to] THEN Panic(c)
        ELSE Keep([c EXCEPT !.write[to] = armed])
                 \union (IF c.write[to] # armed THEN Refused(c) ELSE {})

\* The FIN of a source that closed goes once its backlog is flushed.  A shutdown before the
\* connect completes does nothing.
ShutdownWrite(c, side) == IF Connecting(c, side) THEN c ELSE [c EXCEPT !.fins[side] = @ + 1]

\* Fault: a pending connect does not put the FIN off.
SettleWhileConnecting(c, d) ==
    IF c.state[d] = "SourceClosed" /\ c.send[d] = <<>>
    THEN sync_write_interest([ShutdownWrite(c, To(d)) EXCEPT !.state[d] = "Done"], d)
    ELSE sync_write_interest(c, d)

settle(c, d) ==
    IF c.state[d] = "SourceClosed" /\ c.send[d] = <<>> /\ ~Connecting(c, To(d))
    THEN sync_write_interest([ShutdownWrite(c, To(d)) EXCEPT !.state[d] = "Done"], d)
    ELSE sync_write_interest(c, d)

\* The source's FIN is readable for ever, so its read interest goes.
half_close(c, d) ==
    IF ~c.reg[From(d)] THEN Panic(c)
    ELSE settle([c EXCEPT !.read[From(d)] = FALSE, !.state[d] = "SourceClosed"], d)
             \union Refused(c)

\* Bytes that reach a socket: as many as its window has room for.
Deliver(c, d, bytes, n) ==
    [c EXCEPT !.got[To(d)] = @ \o First(bytes, n), !.room[To(d)] = @ - n,
              !.deadline = IF n > 0 THEN IDLE_TIMEOUT ELSE @]

\* A tail that does not fit closes the connection.
buffer_tail(c, d, bytes) ==
    IF Len(c.send[d]) + Len(bytes) > MAX_SEND THEN Close(c)
    ELSE Keep([c EXCEPT !.send[d] = @ \o bytes])

\* Fault: bytes are sent ahead of a backlog.
SendPastBacklog(c, d, bytes) ==
    IF Connecting(c, To(d)) THEN buffer_tail(c, d, bytes)
    ELSE IF hup[To(d)] THEN Close(c)
    ELSE LET n == Min({c.room[To(d)], Len(bytes)})
         IN  buffer_tail(Deliver(c, d, bytes, n), d, After(bytes, n))

\* A backlog or a pending connect buffers everything, to preserve the order.
send_framed(c, d, bytes) ==
    IF c.send[d] # <<>> \/ Connecting(c, To(d)) THEN buffer_tail(c, d, bytes)
    ELSE IF hup[To(d)] THEN Close(c)
    ELSE LET n == Min({c.room[To(d)], Len(bytes)})
         IN  buffer_tail(Deliver(c, d, bytes, n), d, After(bytes, n))

drain(c, d) ==
    IF c.send[d] = <<>> THEN Keep(c)
    ELSE IF hup[To(d)] THEN Close(c)
    ELSE LET n == Min({c.room[To(d)], Len(c.send[d])})
         IN  Keep([Deliver(c, d, c.send[d], n) EXCEPT !.send[d] = After(@, n)])

\* What is received and not yet taken from the source's socket.
Available(c, side) == sent[side] - c.taken[side]

\* Fault: bytes received put the deadline off.
CommitRefreshesDeadline(c, d, n) ==
    LET from == From(d)
    IN  [c EXCEPT !.recv[d] = @ \o [i \in 1..n |-> c.taken[from] + i], !.taken[from] = @ + n,
                  !.deadline = IDLE_TIMEOUT]

\* recv commits n bytes.
commit(c, d, n) ==
    LET from == From(d)
    IN  [c EXCEPT !.recv[d] = @ \o [i \in 1..n |-> c.taken[from] + i], !.taken[from] = @ + n]

\* DirectionContext::forward and what Connection::forward makes of it: nothing to read, the
\* source's EOF, a failed read, bytes the framer rejects, or bytes it takes a prefix of.
ForwardChunk(c, d) ==
    LET from == From(d)
        free == MAX_RECV - Len(c.recv[d])
    IN  IF free = 0 THEN Close(c)
        ELSE UNION
            ({IF Available(c, from) = 0 /\ ~eof[from] /\ ~hup[from]
              THEN sync_write_interest(c, d) ELSE {}}
             \union {IF Available(c, from) = 0 /\ (eof[from] \/ hup[from])
                     THEN half_close(c, d) ELSE {}}
             \union {IF hup[from] \/ Available(c, from) > 0 THEN Close(c) ELSE {}}
             \union {LET received == commit(c, d, Min({free, Available(c, from)}))
                         pending == received.recv[d]
                         framed == [received EXCEPT !.recv[d] = After(@, n)]
                     IN  UNION {IF r.outcome = "Close" THEN {r}
                                ELSE sync_write_interest(r.conn, d) :
                                r \in IF n = 0 THEN Keep(received)
                                      ELSE send_framed(framed, d, First(pending, n))} :
                     n \in IF Available(c, from) = 0 THEN {}
                           ELSE 0..Min({MAX_RECV, Len(c.recv[d]) + Available(c, from)})})

(* ------------------------------- Connection ------------------------------ *)

close_if_complete(results) ==
    {[r EXCEPT !.outcome = IF \A d \in Flows : r.conn.state[d] = "Done" THEN "Close" ELSE @] :
        r \in results}

\* The connect's error, or the idle timeout from now on.
finish_device_connect(c) ==
    IF connect = "refused" THEN Close(c)
    ELSE Keep([c EXCEPT !.connecting = FALSE, !.deadline = IDLE_TIMEOUT])

\* Fault: the hung-up fd stays watched.
PeerGoneKeepsWatch(c, d) ==
    IF ~c.reg[To(d)] \/ ~c.reg[From(d)] THEN Panic(c)
    ELSE close_if_complete(settle([c EXCEPT !.state[Opposite(d)] = "Done",
                                            !.read[To(d)] = FALSE], d))
             \union Refused(c)

\* The source hung up: the reverse flow is abandoned, the hung-up fd unwatched.
peer_gone(c, d) ==
    IF ~c.reg[To(d)] \/ ~c.reg[From(d)] THEN Panic(c)
    ELSE close_if_complete(settle([c EXCEPT !.state[Opposite(d)] = "Done",
                                            !.read[To(d)] = FALSE,
                                            !.reg[From(d)] = FALSE], d))
             \union Refused([c EXCEPT !.state[Opposite(d)] = "Done", !.reg[From(d)] = FALSE])

\* The device's first edge, readable or writable, ends the connect.
Connected(c, side) == IF Connecting(c, side) THEN finish_device_connect(c) ELSE Keep(c)

\* Fault: the destination is taken to be there still.
ForwardIntoGonePeer(c, d) ==
    UNION {CASE r.outcome = "Close" -> {r}
             [] r.outcome = "Keep" /\ r.conn.state[d] = "Open" ->
                  close_if_complete(ForwardChunk(r.conn, d))
             [] r.outcome = "Keep" /\ r.conn.state[d] # "Open" -> peer_gone(r.conn, d) :
           r \in Connected(c, From(d))}

\* On a flow no longer open the edge is a hangup; with the destination gone too, both are.
forward(c, d) ==
    UNION {CASE r.outcome = "Close" -> {r}
             [] r.outcome = "Keep" /\ r.conn.state[d] = "Open" ->
                  close_if_complete(ForwardChunk(r.conn, d))
             [] r.outcome = "Keep" /\ r.conn.state[d] # "Open" ->
                  IF r.conn.reg[To(d)] THEN peer_gone(r.conn, d) ELSE Close(r.conn) :
           r \in Connected(c, From(d))}

on_writable(c, d) ==
    UNION {IF r.outcome = "Close" THEN {r}
           ELSE UNION {IF s.outcome = "Close" THEN {s}
                       ELSE close_if_complete(settle(s.conn, d)) : s \in drain(r.conn, d)} :
           r \in Connected(c, To(d))}

(* ------------------------- the proxy and the reactor --------------------- *)

\* start_connection: both sockets watched and the device's write interest armed for the connect's
\* completion; an arming the kernel refuses is ignored.  A loopback connect completes at once.
Init ==
    \E armed, pending \in BOOLEAN :
        /\ armed \/ MaxFaults > 0
        /\ conn = [recv |-> [d \in Flows |-> <<>>], send |-> [d \in Flows |-> <<>>],
                   state |-> [d \in Flows |-> "Open"],
                   reg |-> [s \in Sides |-> TRUE], read |-> [s \in Sides |-> TRUE],
                   write |-> [s \in Sides |-> s = "device" /\ armed],
                   connecting |-> pending, deadline |-> CONNECT_TIMEOUT,
                   taken |-> [s \in Sides |-> 0], got |-> [s \in Sides |-> <<>>],
                   room |-> [s \in Sides |-> Window], fins |-> [s \in Sides |-> 0],
                   open |-> TRUE, panicked |-> FALSE, faults |-> IF armed THEN 0 ELSE 1]
        /\ connect = IF pending THEN "pending" ELSE "accepted"
        /\ sent = [s \in Sides |-> 0]
        /\ eof = [s \in Sides |-> FALSE]
        /\ hup = [s \in Sides |-> FALSE]
        /\ batch = <<>>
        /\ idle = 0

\* close_conn and teardown.
Closed(c) == [c EXCEPT !.reg = [s \in Sides |-> FALSE], !.open = FALSE]

\* Both halves shut is a hangup to epoll, like a reset.
HungUp(s) == hup[s] \/ (eof[s] /\ conn.fins[s] > 0)

Answered(s) == s = "device" => connect # "pending"

Readable(s) ==
    /\ conn.reg[s] /\ Answered(s)
    /\ \/ HungUp(s) \/ (s = "device" /\ connect = "refused")
       \/ conn.read[s] /\ (Available(conn, s) > 0 \/ eof[s])

Writable(s) ==
    /\ conn.reg[s] /\ Answered(s) /\ conn.write[s]
    /\ conn.room[s] > 0 \/ hup[s] \/ (s = "device" /\ connect = "refused")

EventsOf(s) ==
    (IF Readable(s) THEN <<[side |-> s, kind |-> "readable"]>> ELSE <<>>)
        \o (IF Writable(s) THEN <<[side |-> s, kind |-> "writable"]>> ELSE <<>>)

Wait ==
    /\ conn.open /\ batch = <<>>
    /\ \E first \in Sides, second \in Sides :
        /\ first # second
        /\ batch' = EventsOf(first) \o EventsOf(second)
    /\ batch' # <<>>
    /\ UNCHANGED <<conn, peers, idle>>

\* The flow an edge on a socket is about.
FlowOf(event) ==
    IF event.kind = "readable" THEN CHOOSE d \in Flows : From(d) = event.side
    ELSE CHOOSE d \in Flows : To(d) = event.side

\* Reactor::dispatch looks the registration up again, and the write interest before a writable
\* edge, but not the read interest.
Suppressed(event) ==
    ~conn.reg[event.side] \/ (event.kind = "writable" /\ ~conn.write[event.side])

Dispatch ==
    /\ batch # <<>>
    /\ batch' = Tail(batch)
    /\ LET event == Head(batch)
       IN  IF Suppressed(event) THEN UNCHANGED <<conn, idle>>
           ELSE \E r \in IF event.kind = "readable" THEN forward(conn, FlowOf(event))
                         ELSE on_writable(conn, FlowOf(event)) :
                  /\ conn' = IF r.outcome = "Close" THEN Closed(r.conn) ELSE r.conn
                  /\ idle' = IF r.conn.got # conn.got \/ r.conn.connecting # conn.connecting
                             THEN 0 ELSE idle
    /\ UNCHANGED peers

sweep ==
    /\ conn.open /\ batch = <<>>
    /\ conn.deadline = 0
    /\ conn' = Closed(conn)
    /\ UNCHANGED <<peers, batch, idle>>

\* Time passes while no deadline is due: on_deadline runs before the next wait.
Tick ==
    /\ conn.open /\ batch = <<>>
    /\ conn.deadline > 0
    /\ conn' = [conn EXCEPT !.deadline = @ - 1]
    /\ idle' = Min({idle + 1, IDLE_TIMEOUT + 1})
    /\ UNCHANGED <<peers, batch>>

(* -------------------------------- the peers ------------------------------ *)

PeerSends(s) ==
    /\ conn.open /\ sent[s] < Units /\ ~eof[s] /\ ~hup[s]
    /\ s = "device" => connect = "accepted"
    /\ sent' = [sent EXCEPT ![s] = @ + 1]
    /\ UNCHANGED <<conn, eof, hup, connect, batch, idle>>

PeerCloses(s) ==
    /\ conn.open /\ ~eof[s] /\ ~hup[s]
    /\ s = "device" => connect = "accepted"
    /\ eof' = [eof EXCEPT ![s] = TRUE]
    /\ UNCHANGED <<conn, sent, hup, connect, batch, idle>>

PeerHangsUp(s) ==
    /\ conn.open /\ ~hup[s]
    /\ s = "device" => connect = "accepted"
    /\ hup' = [hup EXCEPT ![s] = TRUE]
    /\ UNCHANGED <<conn, sent, eof, connect, batch, idle>>

PeerReads(s) ==
    /\ conn.open /\ ~hup[s] /\ conn.room[s] < Window
    /\ conn' = [conn EXCEPT !.room[s] = @ + 1]
    /\ UNCHANGED <<peers, batch, idle>>

ConnectAnswered ==
    /\ conn.open /\ connect = "pending"
    /\ connect' \in {"accepted", "refused"}
    /\ UNCHANGED <<conn, sent, eof, hup, batch, idle>>

Peer == ConnectAnswered \/ \E s \in Sides :
            PeerSends(s) \/ PeerCloses(s) \/ PeerHangsUp(s) \/ PeerReads(s)

Next == Wait \/ Dispatch \/ sweep \/ Tick \/ Peer

\* The reactor loop never stops waiting and dispatching, nor serving deadlines.
Spec == Init /\ [][Next]_vars /\ WF_vars(Wait) /\ WF_vars(Dispatch) /\ WF_vars(sweep)

(* ------------------------------ properties ------------------------------- *)

\* No expect on a registration fails, in whatever order edges, EOFs, hangups and refusals come
\* (half_close, sync_write_interest and peer_gone).
NeverPanics == ~conn.panicked

\* What reached a peer, what waits to be sent and what waits to be framed is, in that order,
\* what was read from the other: nothing is lost, repeated or reordered by the splice, through
\* backlogs, short writes and a connect still pending (send_framed, split_remainder).  A flow that
\* is done has sent all of it and then its one FIN, unless its destination hung up (settle: a
\* shutdown during the connect would lose it).
SpliceIsFifo ==
    conn.open => \A d \in Flows :
        /\ conn.got[To(d)] \o conn.send[d] \o conn.recv[d] = [i \in 1..conn.taken[From(d)] |-> i]
        /\ conn.fins[To(d)] <= 1
        /\ conn.state[d] = "Done" /\ conn.reg[To(d)] => conn.fins[To(d)] = 1

\* A backlog, or a FIN still owed, has the edge armed that will flush it (sync_write_interest:
\* the buffered send "would otherwise strand with no re-arm").
BacklogIsArmed ==
    conn.open => \A d \in Flows :
        conn.reg[To(d)] /\ (conn.send[d] # <<>> \/ conn.state[d] = "SourceClosed")
            => conn.write[To(d)]

\* A connection whose bytes reach nobody ages out, however much arrives meanwhile ("The deadline
\* moves only when bytes reach the destination, so a wedged connection still ages out").
WedgedAgesOut == conn.open => idle <= IDLE_TIMEOUT

\* A hung-up peer's level-triggered event does not fire for ever: its fd is unwatched or the
\* connection closed.
HangupIsServed == \A s \in Sides : (conn.open /\ conn.reg[s] /\ HungUp(s)) ~> ~conn.reg[s]

\* peer_gone: the hung-up source's "buffered bytes still drain toward the live peer (then FIN)".
\* The connection goes before that only when the live peer goes too, on a timeout or on a
\* refused change of interest.
DrainsAfterHangup ==
    [][conn.open /\ ~conn'.open =>
        \A d \in Flows : ~conn.reg[From(d)] /\ conn'.send[d] # <<>> =>
            HungUp(To(d)) \/ conn.deadline = 0 \/ conn'.faults # conn.faults
                \/ connect = "refused"]_vars

=============================================================================
