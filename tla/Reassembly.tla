----------------------------- MODULE Reassembly -----------------------------
(* Reassembly of fragmented datagrams (src/src/dispatch/reassembly.rs) and the handler around it, *)
(* PacketDispatcher::reassemble_and_route.  The network delivers fragments of any datagram, in     *)
(* any order, repeated, overlapping or contradicting each other.                                  *)
(*                                                                                                *)
(* Of a buffer's bytes it matters which ones are of the datagram collected in it, and not of one   *)
(* the buffer was used for before: own is the set of them.  Lengths and offsets are in bytes, as   *)
(* in the code; an Instant is the age it has reached, no more than EXPIRY.                         *)
EXTENDS LinearMap

CONSTANTS
    Datagrams,          \* the keys of the datagrams on the wire
    SLOTS, DISCARDS, EXPIRY,
    FRAGMENT_UNIT, MAX_DATAGRAM_LEN

ASSUME ReassemblyAssumption ==
    /\ 0 \notin Datagrams
    /\ {SLOTS, DISCARDS, EXPIRY, FRAGMENT_UNIT, MAX_DATAGRAM_LEN} \subseteq Nat \ {0}

VARIABLES
    collecting,     \* LinearMap of datagrams being collected
    discarding,     \* LinearMap of datagrams whose fragments are dropped, and since when
    spare,          \* buffers no slot holds
    lost,           \* what the last offer gave up on, drained by its caller
    done,           \* the datagram the last offer completed
    unwanted        \* observer: the datagram the last offer dropped as unwanted, 0 for none

vars == <<collecting, discarding, spare, lost, done, unwanted>>

Blocks == 0 .. (MAX_DATAGRAM_LEN + FRAGMENT_UNIT - 1) \div FRAGMENT_UNIT - 1
div_ceil(n) == (n + FRAGMENT_UNIT - 1) \div FRAGMENT_UNIT
Unknown == 0 - 1
NoDatagram == [key |-> 0, first |-> FALSE, len |-> 0, own |-> {}]

NewBuffer == [own |-> {}, received |-> {}]

\* A buffer given back: its bytes are no datagram's, its marks stay as they are.
Released(buf) == [buf EXCEPT !.own = {}]

\* Parsed::Fragment: anything with an offset or with more to come.  A fragment that reaches past
\* the buffer does so by one byte.
Fragments ==
    {f \in [key : Datagrams, offset : {b * FRAGMENT_UNIT : b \in Blocks},
            size : 0 .. MAX_DATAGRAM_LEN + 1, more : BOOLEAN] :
        f.offset + f.size <= MAX_DATAGRAM_LEN + 1 /\ (f.offset > 0 \/ f.more)}

\* Fragment::headers: the UDP header, of FRAGMENT_UNIT bytes, is whole.
HasHeaders(f) == f.offset = 0 /\ f.size >= FRAGMENT_UNIT

(* ------------------------------- Collecting ------------------------------ *)

\* Fault: the marks of the buffer's last use stay.
ReusesReceived(buf) == [age |-> 0, len |-> Unknown, first |-> FALSE, buf |-> buf]

\* Collecting::new.
NewCollecting(buf) ==
    [age |-> 0, len |-> Unknown, first |-> FALSE, buf |-> [buf EXCEPT !.received = {}]]

End(f) == f.offset + f.size
BlocksOf(f) == (f.offset \div FRAGMENT_UNIT) .. (div_ceil(End(f)) - 1)

\* Fault: an end is not compared with what came before it.
EndUncheckedBehind(c, f) ==
    IF c.len = Unknown THEN FALSE ELSE IF f.more THEN End(f) > c.len ELSE End(f) # c.len

\* A last fragment must be last, and nothing may lie past it.
EndsElsewhere(c, f) ==
    IF c.len = Unknown THEN ~f.more /\ \E b \in c.buf.received : b >= div_ceil(End(f))
    ELSE IF f.more THEN End(f) > c.len
    ELSE End(f) # c.len

\* Why Collecting::add refuses the fragment.
AddLoss(c, f) ==
    CASE (f.more /\ f.size % FRAGMENT_UNIT # 0) \/ (f.offset = 0 /\ ~HasHeaders(f)) -> "Malformed"
      [] End(f) > MAX_DATAGRAM_LEN -> "TooLarge"
      [] EndsElsewhere(c, f) \/ c.buf.received \cap BlocksOf(f) # {} -> "Inconsistent"
      [] OTHER -> "none"

add(c, f) ==
    [c EXCEPT !.buf.own = @ \union (f.offset + 1 .. End(f)),
              !.buf.received = @ \union BlocksOf(f),
              !.len = IF f.more THEN @ ELSE End(f),
              !.first = @ \/ f.offset = 0]

is_complete(c) ==
    c.first /\ c.len # Unknown /\ 0 .. (div_ceil(c.len) - 1) \subseteq c.buf.received

(* ------------------------------ Reassembler ------------------------------ *)

\* The first of the oldest entries (min_by_key), given the entries' ages.
Oldest(map, ages) == map[SelectInSeq(ages, LAMBDA a : \A i \in DOMAIN ages : ages[i] <= a)].key

Since(map) == [i \in DOMAIN map |-> map[i].value]
Started(map) == [i \in DOMAIN map |-> map[i].value.age]

\* At capacity the oldest entry is forgotten.
discard(r, key) ==
    LET kept == IF Len(r.discarding) >= DISCARDS
                THEN remove(r.discarding, Oldest(r.discarding, Since(r.discarding))) ELSE r.discarding
    IN  [r EXCEPT !.discarding = insert(kept, key, 0)]

\* Fault: the loss is not reported.
GiveUpSilent(r, key, loss) ==
    discard([r EXCEPT !.collecting = remove(@, key),
                      !.spare = Append(@, Released(get(r.collecting, key).buf))], key)

\* The slot and its buffer are freed; the later fragments are not collected again.
give_up(r, key, loss) ==
    discard([r EXCEPT !.collecting = remove(@, key),
                      !.spare = Append(@, Released(get(r.collecting, key).buf)),
                      !.lost = Append(@, [key |-> key, loss |-> loss])], key)

\* Fault: room is made one datagram late.
MakeRoomLate(r) ==
    IF Len(r.collecting) > SLOTS
    THEN give_up(r, Oldest(r.collecting, Started(r.collecting)), "Evicted") ELSE r

make_room(r) ==
    IF Len(r.collecting) >= SLOTS
    THEN give_up(r, Oldest(r.collecting, Started(r.collecting)), "Evicted") ELSE r

\* first_expired, or 0.
first_expired(r) == SelectInSeq(r.collecting, LAMBDA e : e.value.age >= EXPIRY)

\* The while loop of expire, one expired datagram at a time.
expire(r) ==
    LET fresh == [r EXCEPT !.discarding = SelectSeq(@, LAMBDA e : e.value < EXPIRY)]
        after[n \in 0 .. Len(r.collecting)] ==
            IF n = 0 THEN fresh
            ELSE LET before == after[n - 1]
                     i == first_expired(before)
                 IN  IF i = 0 THEN before
                     ELSE give_up(before, before.collecting[i].key, "Expired")
    IN  after[Len(r.collecting)]

\* A slot for the datagram, in a buffer used before when there is one.
Opened(r, key) ==
    IF key \in keys(r.collecting) THEN r
    ELSE LET room == make_room(r)
    IN  IF room.spare = <<>>
        THEN [room EXCEPT !.collecting = insert(@, key, NewCollecting(NewBuffer))]
        ELSE [room EXCEPT !.collecting = insert(@, key, NewCollecting(Last(room.spare))),
                          !.spare = Front(@)]

\* Fault: the datagram stays in its slot.
DropUnwantedOpen(r, key) == discard(r, key)

\* The datagram is not for anyone: the rest of it is dropped without a report.
DropUnwanted(r, key) ==
    discard(IF key \in keys(r.collecting)
            THEN [r EXCEPT !.collecting = remove(@, key),
                           !.spare = Append(@, Released(get(r.collecting, key).buf))]
            ELSE r, key)

Reassembled(key, c) == [key |-> key, first |-> c.first, len |-> c.len, own |-> c.buf.own]

\* A fragment for a datagram that is collected, or is from now on.
Collect(r, f) ==
    LET opened == Opened(r, f.key)
        c == get(opened.collecting, f.key)
        added == add(c, f)
    IN  IF AddLoss(c, f) # "none" THEN give_up(opened, f.key, AddLoss(c, f))
        ELSE IF is_complete(added)
        THEN [opened EXCEPT !.collecting = remove(@, f.key), !.done = Reassembled(f.key, added),
                            !.spare = Append(@, Released(added.buf))]
        ELSE [opened EXCEPT !.collecting = insert(@, f.key, added)]

\* reassemble_and_route: offer, drain_lost, and recycle once the datagram is routed.
offer(f, wanted) ==
    LET r == expire([collecting |-> collecting, discarding |-> discarding, spare |-> spare,
                     lost |-> <<>>, done |-> NoDatagram])
        after == IF f.key \in keys(r.discarding) THEN r
                 ELSE IF ~wanted THEN DropUnwanted(r, f.key)
                 ELSE Collect(r, f)
    IN  /\ collecting' = after.collecting
        /\ discarding' = after.discarding
        /\ spare' = after.spare
        /\ lost' = after.lost
        /\ done' = after.done
        /\ unwanted' = IF wanted \/ f.key \in keys(r.discarding) THEN 0 ELSE f.key

Init ==
    /\ collecting = <<>> /\ discarding = <<>> /\ spare = <<>>
    /\ lost = <<>> /\ done = NoDatagram /\ unwanted = 0

\* would_route is asked only about a fragment that has the headers.
Offer == \E f \in Fragments, wanted \in BOOLEAN : (~HasHeaders(f) => wanted) /\ offer(f, wanted)

Aged(n) == IF n < EXPIRY THEN n + 1 ELSE n

Tick ==
    /\ collecting' = [i \in DOMAIN collecting |-> [collecting[i] EXCEPT !.value.age = Aged(@)]]
    /\ discarding' = [i \in DOMAIN discarding |-> [discarding[i] EXCEPT !.value = Aged(@)]]
    /\ lost' = <<>> /\ done' = NoDatagram /\ unwanted' = 0
    /\ UNCHANGED spare

Next == Offer \/ Tick

Spec == Init /\ [][Next]_vars

(* ------------------------------ properties ------------------------------- *)

\* No datagram is told from another.
Symmetry == Permutations(Datagrams)

\* A datagram that is routed has its first fragment and, to its last byte, bytes of its own
\* fragments, whatever the buffer held before (Collecting::new clears only the marks).  None of
\* its fragments lay past its end, in whichever order the two came: an end that contradicts
\* what arrived gives the datagram up (Collecting::add).
OwnBytes ==
    done # NoDatagram =>
        done.first /\ done.own = 1 .. done.len

\* No more buffers than slots, both lists within their capacities and at most one entry for a
\* datagram in them: given up on, it is not collected again while it is remembered.
BuffersBounded ==
    /\ Len(collecting) + Len(spare) <= SLOTS /\ Len(discarding) <= DISCARDS
    /\ keys(collecting) \cap keys(discarding) = {}
    /\ \A m \in {collecting, discarding} : \A i, j \in DOMAIN m : m[i].key = m[j].key => i = j
    /\ \A i \in DOMAIN discarding : discarding[i].value \in 0 .. EXPIRY

\* Buffers go around: however many datagrams come, fail, expire or complete, no more are ever
\* made than there are slots (make_room, recycle), and a datagram leaves its slot for a reason
\* that shows: it is routed, or its loss is reported once, or its first fragment is one nobody
\* wants (offer, give_up, drain_lost).
Accounted ==
    /\ []BuffersBounded
    /\ [][\A k \in keys(collecting) \ keys(collecting') :
             \/ done'.key = k
             \/ Len(SelectSeq(lost', LAMBDA l : l.key = k)) = 1
             \/ unwanted' = k]_vars

=============================================================================
