----------------------------- MODULE MdnsMessages -----------------------------
(* What the allow-list and the address filter make of an mDNS message:            *)
(* src/src/net/mdns/message.rs, services.rs and addresses.rs, and the gate that     *)
(* runs the one after the other (reflector/mdns.rs).                              *)
(*                                                                                *)
(* A message is a header and cells: a label, a pointer to a cell, the end of a      *)
(* name, the fixed octets of an entry, or octets of rdata.  An offset is the place  *)
(* of a cell, a length the sum of what the cells take on the wire.  A pointer into   *)
(* the middle of a cell is not modelled, nor a message longer than a pointer        *)
(* reaches.  An Option is the empty set for None and a singleton for Some.         *)
EXTENDS Naturals, Sequences, SequencesExt

CONSTANTS
    EntryCells(_),      \* the entries a sender may append to a message: sets of [section, cells]
    MaxEntries,
    Allowed,            \* mdns_services
    ServiceLabels,      \* labels with an underscore, but for the transports and _dns-sd
    MAX_NAME_LEN,
    STEPS_PER_BYTE

VARIABLES
    message,    \* what the peer sends
    judged      \* what became of it: a sequence of at most one judgement

mdnsVars == <<message, judged>>

MAX_POINTER_HOPS == MAX_NAME_LEN \div 2

Question == 1
Answer == 2

Cell(is, text, n) == [is |-> is, text |-> text, n |-> n]
Label(text) == Cell("label", text, 0)
Pointer(to) == Cell("pointer", "", to)
End == Cell("end", "", 0)
Octets(text) == Cell("octets", text, 0)

\* TYPE and CLASS, and for a record TTL and RDLENGTH.
Asked == Cell("asked", "", 0)
Fixed(rtype, length) == Cell("fixed", rtype, length)

WireLen(cell) ==
    CASE cell.is \in {"label", "pointer"} -> 2
      [] cell.is = "end" -> 1
      [] cell.is \in {"octets", "asked"} -> 4
      [] cell.is = "fixed" -> 10

LenOf(cells) == FoldLeft(LAMBDA sum, cell : sum + WireLen(cell), 0, cells)

DNS_HEADER_LEN == 12

Budget(cells) == STEPS_PER_BYTE * (DNS_HEADER_LEN + LenOf(cells))

Times(n) == [turn \in 1..n |-> turn]

(* --------------------------------- names ---------------------------------- *)

\* Labels::step, of a name that is being walked.
LabelStep(cells, w) ==
    LET cell == cells[w.at]
        spent == [w EXCEPT !.budget = @ - 1]
        malformed == [w EXCEPT !.is = "malformed"]
    IN  IF w.budget = 0 \/ w.at \notin DOMAIN cells THEN malformed
        ELSE CASE cell.is = "end" -> [spent EXCEPT !.is = "done"]
               [] cell.is = "label" ->
                    IF w.len + 2 >= MAX_NAME_LEN THEN malformed
                    ELSE [spent EXCEPT !.at = @ + 1, !.len = @ + 2, !.labels = Append(@, cell.text)]
               [] cell.is = "pointer" ->
                    IF w.hops = MAX_POINTER_HOPS THEN malformed
                    ELSE [spent EXCEPT !.at = cell.n, !.hops = @ + 1]
               [] OTHER -> malformed

\* The labels of a name, pointers followed.
Labels(cells, at, budget) ==
    FoldLeft(LAMBDA w, turn : IF w.is = "walking" THEN LabelStep(cells, w) ELSE w,
             [is |-> "walking", at |-> at, hops |-> 0, len |-> 0, labels |-> <<>>, budget |-> budget],
             Times(MAX_NAME_LEN + 1))

\* skip_name: just past the inline part of a name, or 0.
SkipTo(cells, stops) ==
    IF stops = {} \/ cells[Min(stops)].is \notin {"end", "pointer"} THEN 0 ELSE Min(stops) + 1
skip_name(cells, at) == SkipTo(cells, {i \in at .. Len(cells) : cells[i].is # "label"})

(* -------------------------------- entries --------------------------------- *)

\* rdata_names: a name, two, or one behind fixed octets; other rdata is opaque.
rdata_names(rtype) ==
    CASE rtype = "PTR" -> [offset |-> 0, count |-> 1]
      [] rtype = "SOA" -> [offset |-> 0, count |-> 2]
      [] rtype = "SRV" -> [offset |-> 1, count |-> 1]
      [] OTHER -> [offset |-> 0, count |-> 0]

\* Entries::step
EndOf(cells, section, fixed) == fixed + 1 + (IF section = Question THEN 0 ELSE cells[fixed].n)
EntryFrom(cells, walk, section, fixed) ==
    IF fixed \notin DOMAIN cells \/ EndOf(cells, section, fixed) > Len(cells) + 1 THEN [walk EXCEPT !.ok = FALSE]
    ELSE [walk EXCEPT !.at = EndOf(cells, section, fixed),
                      !.list = Append(@, [section |-> section, name |-> walk.at, fixed |-> fixed,
                                          rtype |-> cells[fixed].text, rdata |-> fixed + 1,
                                          end |-> EndOf(cells, section, fixed)])]
EntryStep(cells, walk, section) ==
    IF walk.ok THEN EntryFrom(cells, walk, section, skip_name(cells, walk.at)) ELSE walk

\* Entries: those the counts of the header announce, in order of their sections.
Entries(m) ==
    FoldLeft(LAMBDA walk, section :
                 FoldLeft(LAMBDA w, turn : EntryStep(m.cells, w, section), walk, Times(m.counts[section])),
             [ok |-> TRUE, at |-> 1, list |-> <<>>], Times(4))

\* Where the names of an entry's rdata start, as far as the name before ends.
NamesFrom(cells, first, count) == IF count = 2 THEN <<first, skip_name(cells, first)>> ELSE <<first>>
RdataNames(cells, e) ==
    IF e.rdata >= e.end \/ rdata_names(e.rtype).count = 0 THEN <<>>
    ELSE NamesFrom(cells, e.rdata + rdata_names(e.rtype).offset, rdata_names(e.rtype).count)

\* Entry::check_names: every name can be walked, and ends inside the rdata.
CheckedName(cells, e, at, w) ==
    [ok |-> w.is = "done" /\ (at # e.name => skip_name(cells, at) \in 1 .. e.end), budget |-> w.budget]
check_names(cells, e, budget) ==
    FoldLeft(LAMBDA checked, at : IF checked.ok THEN CheckedName(cells, e, at, Labels(cells, at, checked.budget))
                                  ELSE checked,
             [ok |-> TRUE, budget |-> budget], <<e.name>> \o RdataNames(cells, e))

(* -------------------------------- services -------------------------------- *)

\* service_of: the pair nearest the domain.
service_of(labels) ==
    LET pairs == {i \in 1 .. Len(labels) - 1 : labels[i] \in ServiceLabels /\ labels[i + 1] \in {"_tcp", "_udp"}} IN
    {<<labels[i], labels[i + 1]>> : i \in {i \in pairs : \A j \in pairs : j <= i}}

\* entry_service: a PTR's by its target, else by its owner.
ServiceAt(w) == [ok |-> w.is = "done", budget |-> w.budget, service |-> service_of(w.labels)]
OrOwner(cells, e, target) ==
    IF target.ok /\ target.service = {} THEN ServiceAt(Labels(cells, e.name, target.budget)) ELSE target
entry_service(cells, e, budget) ==
    OrOwner(cells, e, IF e.rtype = "PTR" /\ e.rdata < e.end THEN ServiceAt(Labels(cells, e.rdata, budget))
                      ELSE [ok |-> TRUE, budget |-> budget, service |-> {}])

allows(service) == service \subseteq Allowed

\* assess: what the entries the list is about name, by whether they are answers.
Names(service) == IF service = {} THEN "none" ELSE IF allows(service) THEN "granted" ELSE "refused"
Noted(so_far, e, found) ==
    [ok |-> found.ok, budget |-> found.budget,
     named |-> so_far.named \union {<<e.section = Answer, Names(found.service)>>}]
LookIn(m, so_far, e, checked) ==
    IF ~checked.ok THEN [so_far EXCEPT !.ok = FALSE]
    ELSE IF (e.section = Question) = m.response THEN [so_far EXCEPT !.budget = checked.budget]
    ELSE Noted(so_far, e, entry_service(m.cells, e, checked.budget))
Look(m, walk) ==
    FoldLeft(LAMBDA so_far, e : IF so_far.ok THEN LookIn(m, so_far, e, check_names(m.cells, e, so_far.budget))
                                ELSE so_far,
             [ok |-> walk.ok, budget |-> Budget(m.cells), named |-> {}], walk.list)
Scope(response, all, answers) ==
    IF "refused" \notin all THEN "Pass"
    ELSE IF ~response THEN (IF all = {"refused"} THEN "Refuse" ELSE "Pass")
    ELSE IF "granted" \in answers \/ answers = {"none"} THEN "Trim" ELSE "Refuse"
ScopeOf(m, looked) ==
    IF looked.ok THEN Scope(m.response, {n[2] : n \in looked.named}, {n[2] : n \in {x \in looked.named : x[1]}})
    ELSE "Malformed"
assess(m) == ScopeOf(m, Look(m, Entries(m)))

(* ------------------------------- addresses -------------------------------- *)

\* address: that of an A or AAAA record, by whether the other link can reach it.
address(cells, e) ==
    IF e.rtype = "A" /\ e.end = e.rdata + 1 THEN {cells[e.rdata].text} ELSE {}

\* advertised, of the entries of a message; one that cannot be walked advertises nothing.
AddressesIn(m, walk) == IF walk.ok THEN UNION {address(m.cells, e) : e \in Range(walk.list)} ELSE {}
advertised(m) == AddressesIn(m, Entries(m))

advertises_only_unreachable(m) == advertised(m) = {"unreachable"}

(* -------------------------------- the trim -------------------------------- *)

\* Fault: a pointer goes out as it came in.
WriteNamePointers(cells, t, at) ==
    IF ~t.ok THEN t
    ELSE LET stop == skip_name(cells, at) IN
         IF stop = 0 THEN [t EXCEPT !.ok = FALSE] ELSE [t EXCEPT !.out = @ \o SubSeq(cells, at, stop - 1)]

\* One turn of write_name.
WriteStep(cells, w) ==
    LET cell == cells[w.at]
        spent == [w EXCEPT !.budget = @ - 1]
        malformed == [w EXCEPT !.is = "malformed"]
    IN  IF w.budget = 0 \/ w.at \notin DOMAIN cells THEN malformed
        ELSE IF w.placed[w.at] # 0
        THEN IF w.placed[w.at] >= w.start THEN malformed
             ELSE [spent EXCEPT !.out = Append(@, Pointer(w.placed[w.at])), !.is = "done"]
        ELSE CASE cell.is = "end" -> [spent EXCEPT !.out = Append(@, cell), !.is = "done"]
               [] cell.is = "label" ->
                    [spent EXCEPT !.placed[w.at] = Len(w.out) + 1, !.out = Append(@, cell), !.at = @ + 1]
               [] cell.is = "pointer" ->
                    IF w.hops = MAX_POINTER_HOPS THEN malformed
                    ELSE [spent EXCEPT !.at = cell.n, !.hops = @ + 1]
               [] OTHER -> malformed

\* write_name: label by label, with a pointer to the first one that is out already.
Wrote(t, w) == [t EXCEPT !.out = w.out, !.placed = w.placed, !.budget = w.budget, !.ok = w.is = "done"]
write_name(cells, t, at) ==
    IF ~t.ok THEN t
    ELSE Wrote(t, FoldLeft(LAMBDA w, turn : IF w.is = "writing" THEN WriteStep(cells, w) ELSE w,
                           [is |-> "writing", at |-> at, hops |-> 0, start |-> Len(t.out) + 1, out |-> t.out,
                            placed |-> t.placed, budget |-> t.budget],
                           Times(Len(cells) + MAX_POINTER_HOPS + 1)))

\* write_entry, counted in a section; RDLENGTH is that of the rdata as it went out.
WithLength(out, at, section) == IF section = Question THEN out ELSE [out EXCEPT ![at].n = Len(out) - at]
WriteRest(cells, t, e, section, at, rest) ==
    IF ~t.ok \/ rest \notin 1 .. e.end THEN [t EXCEPT !.ok = FALSE]
    ELSE [t EXCEPT !.out = WithLength(@ \o SubSeq(cells, rest, e.end - 1), at, section), !.counts[section] = @ + 1]
WriteNames(cells, t, e, section, names) ==
    WriteRest(cells,
              FoldLeft(LAMBDA x, name : write_name(cells, x, name),
                       [t EXCEPT !.out = @ \o SubSeq(cells, e.fixed, Head(Append(names, e.rdata)) - 1)], names),
              e, section, Len(t.out) + 1, IF names = <<>> THEN e.rdata ELSE skip_name(cells, Last(names)))
write_entry(cells, t, e, section) ==
    WriteNames(cells, write_name(cells, t, e.name), e, section, RdataNames(cells, e))

\* What trim is given: the list keeps questions and what it allows, the address filter everything but
\* unreachable addresses.  Only the latter refills an answer section that came out empty.
KeepListed(found) == [ok |-> found.ok, budget |-> found.budget, keep |-> allows(found.service)]
keep(filter, cells, e, budget) ==
    IF filter = "addresses" THEN [ok |-> TRUE, budget |-> budget, keep |-> address(cells, e) # {"unreachable"}]
    ELSE IF e.section = Question THEN [ok |-> TRUE, budget |-> budget, keep |-> TRUE]
    ELSE KeepListed(entry_service(cells, e, budget))

refill(filter, cells, e) == filter = "addresses" /\ address(cells, e) = {"usable"}

\* One turn of trim.
KeepIf(cells, t, e, kept) ==
    IF kept.ok /\ kept.keep THEN write_entry(cells, [t EXCEPT !.budget = kept.budget], e, e.section)
    ELSE [t EXCEPT !.budget = kept.budget, !.ok = kept.ok]
KeepAll(filter, cells, from, list) ==
    FoldLeft(LAMBDA t, e : IF t.ok THEN KeepIf(cells, t, e, keep(filter, cells, e, t.budget)) ELSE t, from, list)

\* The entries behind the answers, once those are out.
Refill(cells, t, moved) == FoldLeft(LAMBDA x, e : write_entry(cells, x, e, Answer), t, moved)
KeepBehind(filter, cells, t, back, moved) ==
    KeepAll(filter, cells, Refill(cells, t, moved), SelectSeq(back, LAMBDA e : ~Contains(moved, e)))
BehindAnswers(filter, cells, t, back) ==
    KeepBehind(filter, cells, t, back,
               SelectSeq(back, LAMBDA e : t.counts[Answer] = 0 /\ refill(filter, cells, e)))

Trimmed(m, t) ==
    IF ~t.ok \/ LenOf(t.out) > LenOf(m.cells) THEN {}
    ELSE {[response |-> m.response, counts |-> t.counts, cells |-> t.out]}
TrimEntries(filter, m, walk) ==
    Trimmed(m, BehindAnswers(filter, m.cells,
        KeepAll(filter, m.cells, [out |-> <<>>, placed |-> [i \in DOMAIN m.cells |-> 0], budget |-> Budget(m.cells),
                                  ok |-> walk.ok, counts |-> <<0, 0, 0, 0>>],
                SelectSeq(walk.list, LAMBDA e : e.section <= Answer)),
        SelectSeq(walk.list, LAMBDA e : e.section > Answer)))

\* Trimmer::trim: the message, or none.
trim(filter, m) == TrimEntries(filter, m, Entries(m))

(* -------------------------------- the gates ------------------------------- *)

Judgement(verdict, m) == [verdict |-> verdict, message |-> m]

\* ServiceFilter::decide, as ServiceGate::judge reports it.
Replaced(m, trimmed) ==
    IF trimmed = {} THEN Judgement("Unreadable", m) ELSE Judgement("Replaced", CHOOSE t \in trimmed : TRUE)
Decision(m, scope) ==
    CASE scope = "Pass" -> Judgement("Verbatim", m)
      [] scope = "Refuse" -> Judgement("Refused", m)
      [] scope = "Malformed" -> Judgement("Unreadable", m)
      [] scope = "Trim" -> Replaced(m, trim("services", m))
decide(m) == Decision(m, assess(m))

\* AddressFilter::strip: the message, or none.
strip(m) == IF advertised(m) = {"usable", "unreachable"} THEN trim("addresses", m) ELSE {}

\* ResponseGate::judge: the list if there is one, then the strip on what it lets through; a query's
\* leg has the list only.
Stripped(first, stripped) ==
    IF stripped = {} THEN first ELSE Judgement("Replaced", CHOOSE t \in stripped : TRUE)
Gated(first) ==
    IF first.verdict \in {"Refused", "Unreadable"} \/ ~first.message.response THEN first
    ELSE Stripped(first, strip(first.message))

\* SimpleReflector: the response leg suppresses what goes out with unreachable addresses only.
Suppress(gated) ==
    IF gated.verdict \in {"Verbatim", "Replaced"} /\ gated.message.response
         /\ advertises_only_unreachable(gated.message)
    THEN Judgement("Suppressed", gated.message) ELSE gated
gate(listed, m) == Suppress(Gated(IF listed THEN decide(m) ELSE Judgement("Verbatim", m)))

(* ------------------------------- behaviours ------------------------------- *)

\* The sender appends an entry, in the order of the sections.
SendEntry ==
    /\ judged = <<>>
    /\ FoldLeft(LAMBDA sum, n : sum + n, 0, message.counts) < MaxEntries
    /\ \E e \in EntryCells(message) :
          /\ \A section \in e.section + 1 .. 4 : message.counts[section] = 0
          /\ message' = [message EXCEPT !.counts[e.section] = @ + 1, !.cells = @ \o e.cells]
    /\ UNCHANGED judged

\* A leg judges the message, or what arrived of it.
Judged(listed, input, output) ==
    <<[listed |-> listed, input |-> input, verdict |-> output.verdict, message |-> output.message]>>
JudgeOf(listed, input) == Judged(listed, input, gate(listed, input))
Judge(listed, cut) ==
    /\ judged = <<>> /\ message.cells # <<>>
    /\ listed \/ message.response
    /\ judged' = JudgeOf(listed, IF cut THEN [message EXCEPT !.cells = Front(@)] ELSE message)
    /\ UNCHANGED message

MdnsInit == \E response \in BOOLEAN :
    message = [response |-> response, counts |-> <<0, 0, 0, 0>>, cells |-> <<>>] /\ judged = <<>>

MdnsNext == SendEntry \/ \E listed, cut \in BOOLEAN : Judge(listed, cut)

(* ------------------------------- properties ------------------------------- *)

\* What a reader of the message makes of its entries.
Spell(m, at) == Labels(m.cells, at, MAX_NAME_LEN + MAX_POINTER_HOPS).labels
MeanWith(m, e, names) ==
    [section |-> e.section, rtype |-> e.rtype, owner |-> Spell(m, e.name),
     names |-> [i \in DOMAIN names |-> Spell(m, names[i])],
     octets |-> SelectSeq(SubSeq(m.cells, e.rdata, e.end - 1), LAMBDA cell : names = <<>> \/ cell.is = "octets")]
MeaningOf(m, list) == [i \in DOMAIN list |-> MeanWith(m, list[i], RdataNames(m.cells, list[i]))]
Meaning(m) == MeaningOf(m, Entries(m).list)

\* Every name can be read, and points into names only.
NameCells(m, list) ==
    UNION {UNION {at .. skip_name(m.cells, at) - 1 : at \in {e.name} \union Range(RdataNames(m.cells, e))} :
              e \in Range(list)}
PointsInto(m, places) == \A i \in places : m.cells[i].is = "pointer" => m.cells[i].n \in places
ProperWalk(m, walk) ==
    /\ walk.ok
    /\ \A e \in Range(walk.list) : check_names(m.cells, e, 3 * (MAX_NAME_LEN + MAX_POINTER_HOPS)).ok
    /\ PointsInto(m, NameCells(m, walk.list))
Proper(m) == ProperWalk(m, Entries(m))

OrOwners(x, target) == IF target = {} THEN service_of(x.owner) ELSE target
ServiceOf(x) == OrOwners(x, IF x.rtype = "PTR" /\ x.names # <<>> THEN service_of(x.names[1]) ELSE {})

\* Not of a service the list refuses.
OnList(x) == x.section = Question \/ allows(ServiceOf(x))

Reached(x) == x.rtype # "A" \/ x.octets # <<Octets("unreachable")>>
Usable(x) == x.rtype = "A" /\ x.octets = <<Octets("usable")>>

\* Unreachable addresses go where there are usable ones, which are the answer if there is no other.
AsAnswers(list) == [i \in DOMAIN list |-> [list[i] EXCEPT !.section = Answer]]
OfferedOf(all, kept) ==
    IF kept = all \/ ~\E x \in Range(kept) : Usable(x) THEN all
    ELSE IF \E x \in Range(kept) : x.section = Answer THEN kept
    ELSE SelectSeq(kept, LAMBDA x : x.section = Question)
           \o AsAnswers(SelectSeq(kept, LAMBDA x : x.section > Answer /\ Usable(x)))
           \o SelectSeq(kept, LAMBDA x : x.section > Answer /\ ~Usable(x))
Offered(all) == OfferedOf(all, SelectSeq(all, Reached))

\* What goes out of a judgement, from what its message meant and means.
TrimmedFrom(j, out, was, now) ==
    /\ LenOf(j.message.cells) <= LenOf(j.input.cells)
    /\ j.verdict = "Replaced" => /\ Proper(j.message)
                                 /\ \E x \in Range(now) : x.section = Answer
    /\ out /\ j.listed /\ j.input.response => \A x \in Range(now) : OnList(x)
    /\ j.verdict = "Refused" =>
          \A x \in Range(was) : x.section \in {Question, Answer} => ServiceOf(x) \intersect Allowed = {}
    /\ Proper(j.input) =>
          /\ j.verdict # "Unreadable"
          /\ out /\ j.input.response => now = Offered(IF j.listed THEN SelectSeq(was, OnList) ELSE was)

\* A response goes out with exactly the entries that the list allows and that the other link can
\* reach, each name spelled as it came whatever it pointed to (write_name: "one to a label that was
\* dropped (or not yet written) is spelled out from the original"), never longer than it came, and a
\* trimmed one with an answer.  Nothing a list refuses gets out, also of a message that cannot be
\* read, and what can be read is never turned away as malformed: "Dropping records only shrinks a
\* message".  What is refused offers nothing allowed.
TrimmedExactly ==
    \A j \in Range(judged) :
        TrimmedFrom(j, j.verdict \in {"Verbatim", "Replaced"}, Meaning(j.input), Meaning(j.message))

=============================================================================
