----------------------------- MODULE HttpFraming -----------------------------
(* One direction of a proxied HTTP stream: the receive buffer with its cursors       *)
(* (src/src/net/stream_buffer.rs), the framer that finds and rewrites each message's *)
(* header (net/http/framing.rs), and the read loop that drives them                  *)
(* (DirectionContext::forward of reflector/dial/connection.rs).                      *)
(*                                                                                *)
(* A byte is a token: CR and LF are two, so that a read may end between them, and    *)
(* the text of a line is one, named for what the parsers make of it.  What becomes of *)
(* the forwarded bytes when the peer reads slowly is DialConnection's subject.        *)
EXTENDS Naturals, Sequences, SequencesExt

CONSTANTS
    CAPACITY,           \* MAX_RECV
    MAX_HEADER, MAX_CHUNK_LINE, MAX_TRAILER_LINE,
    Streams             \* what a peer may send: [kind, messages]

ASSUME RefusalComesFirst == CAPACITY > MAX_HEADER

VARIABLES
    sent,       \* the stream of the peer
    read,       \* how many of its bytes were received
    recv,       \* StreamBuffer: [storage, filled, consumed]
    framer,     \* HttpFraming: [phase, body_remaining, chunk_remaining]
    out,        \* bytes passed to the other peer
    learned,    \* learned_rest: the device's last Application-URL
    state       \* "Open", "SourceEof" or "Failed"

streamVars == <<sent, read, recv, framer, out, learned, state>>

CRLF == <<"cr", "lf">>
NoUrl == "no_url"

(* ------------------------------ StreamBuffer ------------------------------ *)

Blank == [i \in 1..CAPACITY |-> "zero"]
EmptyBuffer == [storage |-> Blank, filled |-> 0, consumed |-> 0]

pending(b) == SubSeq(b.storage, b.consumed + 1, b.filled)

\* Fault: the cursors move, the bytes stay.
CompactCursors(b) == [b EXCEPT !.filled = b.filled - b.consumed, !.consumed = 0]

compact(b) ==
    [storage |-> [i \in 1..CAPACITY |->
                     IF i <= b.filled - b.consumed THEN b.storage[i + b.consumed] ELSE b.storage[i]],
     filled |-> b.filled - b.consumed,
     consumed |-> 0]

\* free_tail_mut, up to the slice it returns.
Compacted(b) == IF b.filled = CAPACITY /\ b.consumed > 0 THEN compact(b) ELSE b

\* recv into the free tail, then commit.
commit(b, data) ==
    [b EXCEPT !.storage = [i \in 1..CAPACITY |->
                              IF i \in b.filled + 1..b.filled + Len(data) THEN data[i - b.filled] ELSE @[i]],
              !.filled = b.filled + Len(data)]

consume(b, n) ==
    IF b.consumed + n >= b.filled THEN [b EXCEPT !.filled = 0, !.consumed = 0]
    ELSE [b EXCEPT !.consumed = b.consumed + n]

(* --------------------------------- lines ---------------------------------- *)

\* Where "what" first begins in s, or 0.
Find(what, s) ==
    LET at == {i \in 1..Len(s) : i + Len(what) - 1 <= Len(s) /\ SubSeq(s, i, i + Len(what) - 1) = what}
    IN  IF at = {} THEN 0 ELSE CHOOSE i \in at : \A j \in at : i <= j

find_crlf(s) == Find(CRLF, s)
find_header_end(s) == IF Find(CRLF \o CRLF, s) = 0 THEN 0 ELSE Find(CRLF \o CRLF, s) + 3

From(s, pos) == SubSeq(s, pos + 1, Len(s))

\* The lines of a header block that ends in an empty one.
LinesOf(block) ==
    LET ends == SelectSeq([i \in 1..Len(block) - 1 |-> i], LAMBDA i : SubSeq(block, i, i + 1) = CRLF)
    IN  [n \in 1..Len(ends) - 1 |-> SubSeq(block, IF n = 1 THEN 1 ELSE ends[n - 1] + 2, ends[n] - 1)]

(* ---------------------------------- header -------------------------------- *)

\* parse_content_length; only the texts below are lengths.
LengthFields == [cl0 |-> 0, cl2 |-> 2, cl3 |-> 3]
IsLength(line) == line[1] \in DOMAIN LengthFields
BadLength(line) == line[1] = "cl+"
\* value_has_chunked
IsChunked(line) == line[1] = "chunked"
\* Fault: every response has a body.
BodylessNever(line) == FALSE

\* parse_status_code: 1xx, 204 and 304 have no body.
Bodyless(line) == line[1] \in {"status100", "status204"}

\* rewritable_authority with RewritePolicy: a header is an authority on its own side only, and a
\* hostname is none.
Rewrites(kind) ==
    IF kind = "Request" THEN [host |-> "host_us"]
    ELSE [url1 |-> "url_us", url2 |-> "url_us", location |-> "location_us"]

Emitted(kind, line) ==
    (IF line[1] \in DOMAIN Rewrites(kind) THEN <<Rewrites(kind)[line[1]]>> \o Tail(line) ELSE line) \o CRLF

AppUrls(kind, lines) ==
    SelectSeq(lines, LAMBDA line : kind = "Response" /\ line[1] \in {"url1", "url2"})

\* set_body_phase
set_body_phase(kind, lines, lengths, chunked) ==
    [phase |-> IF kind = "Response" /\ Bodyless(lines[1]) THEN "Header"
               ELSE IF chunked THEN "BodyChunked"
               ELSE IF lengths # {} THEN (IF lengths = {0} THEN "Header" ELSE "BodyContentLength")
               ELSE IF kind = "Request" THEN "Header" ELSE "BodyCloseDelimited",
     body_remaining |-> IF chunked \/ lengths = {} \/ (kind = "Response" /\ Bodyless(lines[1])) THEN 0
                        ELSE CHOOSE n \in lengths : TRUE,
     chunk_remaining |-> 0]

\* scan_and_rewrite_header, once the block is cut into lines.
Scanned(kind, lines) ==
    LET fields == {lines[i] : i \in 2..Len(lines)}
        lengths == {LengthFields[f[1]] : f \in {g \in fields : IsLength(g)}}
        chunked == \E f \in fields : IsChunked(f)
        urls == AppUrls(kind, Tail(lines))
    IN  IF \/ kind = "Request" /\ lines[1][1] = "HEAD"
           \/ \E f \in fields : BadLength(f)
           \/ \E n, m \in lengths : n # m
           \/ chunked /\ lengths # {}
        THEN [ok |-> FALSE]
        ELSE [ok |-> TRUE,
              header |-> FlattenSeq([i \in DOMAIN lines |->
                             IF i = 1 THEN lines[i] \o CRLF ELSE Emitted(kind, lines[i])]) \o CRLF,
              url |-> IF urls = <<>> THEN NoUrl ELSE urls[1][1],
              framer |-> set_body_phase(kind, lines, lengths, chunked)]

scan_and_rewrite_header(kind, block) == Scanned(kind, LinesOf(block))

(* ----------------------------------- feed --------------------------------- *)

\* parse_chunk_size, of a line that may carry an extension after the size.
ChunkSizes == [size0 |-> 0, size2 |-> 2]

Err == [ok |-> FALSE]

\* A turn of the loop of feed, which advances pos through the body, one phase at a time.
BodyTurn(input, at) ==
    LET f == at.framer
        left == Len(input) - at.pos
        crlf == find_crlf(From(input, at.pos))
        Take(n) == IF n < left THEN n ELSE left
        Advance(to, n) == [ok |-> TRUE, framer |-> to, pos |-> at.pos + n]
    IN  IF ~at.ok \/ left = 0 \/ f.phase = "Header" THEN at
        ELSE IF f.phase = "BodyCloseDelimited" THEN Advance(f, left)
        ELSE IF f.phase = "BodyContentLength"
             THEN LET take == Take(f.body_remaining) IN
                  Advance([f EXCEPT !.body_remaining = @ - take,
                                    !.phase = IF f.body_remaining = take THEN "Header" ELSE @], take)
        ELSE IF f.phase = "BodyChunked" /\ f.chunk_remaining > 0
             THEN LET take == Take(f.chunk_remaining) IN
                  Advance([f EXCEPT !.chunk_remaining = @ - take], take)
        ELSE IF crlf = 0
             THEN [at EXCEPT !.ok = left <= (IF f.phase = "BodyChunked" THEN MAX_CHUNK_LINE ELSE MAX_TRAILER_LINE)]
        ELSE IF f.phase = "BodyChunkedTrailers"
             THEN Advance([f EXCEPT !.phase = IF crlf = 1 THEN "Header" ELSE @], crlf + 1)
        ELSE IF crlf = 1 \/ input[at.pos + 1] \notin DOMAIN ChunkSizes THEN [at EXCEPT !.ok = FALSE]
        ELSE LET size == ChunkSizes[input[at.pos + 1]] IN
             Advance(IF size = 0 THEN [f EXCEPT !.phase = "BodyChunkedTrailers"]
                     ELSE [f EXCEPT !.chunk_remaining = size + 2], crlf + 1)

\* The loop itself: a turn that does not advance is the last.
Body(f, input, start) ==
    LET turns[n \in 0..Len(input)] ==
            IF n = 0 THEN [ok |-> TRUE, framer |-> f, pos |-> start]
            ELSE CHOOSE at \in {BodyTurn(input, before) : before \in {turns[n - 1]}} : TRUE
    IN  turns[Len(input)]

\* Leading empty lines belong to no message.
LeadingEmpty(input) ==
    2 * Max({n \in 0..Len(input) \div 2 : \A i \in 1..n : SubSeq(input, 2 * i - 1, 2 * i) = CRLF})

Framed(f, header, body, consumed, url) ==
    [ok |-> TRUE, framer |-> f, header |-> header, body |-> body, consumed |-> consumed, url |-> url]

\* What feed returns once the body was walked.
Walked(walk, header, input, start, url) ==
    IF ~walk.ok THEN Err
    ELSE Framed(walk.framer, header, SubSeq(input, start + 1, walk.pos), walk.pos, url)

BodyFed(f, header, input, start, url) == Walked(Body(f, input, start), header, input, start, url)

AfterHeader(scanned, input, start) ==
    IF ~scanned.ok THEN Err ELSE BodyFed(scanned.framer, scanned.header, input, start, scanned.url)

\* The Header phase of feed, after "skip" bytes of empty lines.
HeaderFed(kind, f, input, skip) ==
    LET rest == From(input, skip)
        end == find_header_end(rest)
    IN  IF end = 0 THEN (IF Len(rest) > MAX_HEADER THEN Err ELSE Framed(f, <<>>, <<>>, 0, NoUrl))
        ELSE IF end > MAX_HEADER THEN Err
        ELSE AfterHeader(scan_and_rewrite_header(kind, SubSeq(rest, 1, end)), input, skip + end)

\* HttpFraming::feed
feed(kind, f, input) ==
    IF f.phase # "Header" THEN BodyFed(f, <<>>, input, 0, NoUrl)
    ELSE HeaderFed(kind, f, input, LeadingEmpty(input))

(* --------------------------------- forward -------------------------------- *)

\* What the loop of forward does with what feed returned; it ends when nothing was consumed.
Applied(at, framed) ==
    IF ~framed.ok THEN [at EXCEPT !.state = "Failed", !.more = FALSE]
    ELSE [at EXCEPT !.recv = IF framed.consumed = 0 THEN @ ELSE consume(@, framed.consumed),
                    !.framer = framed.framer,
                    !.out = @ \o framed.header \o framed.body,
                    !.learned = IF framed.url = NoUrl THEN @ ELSE framed.url,
                    !.more = framed.consumed > 0]

ForwardTurn(kind, at) ==
    IF at.more THEN Applied(at, feed(kind, at.framer, pending(at.recv))) ELSE at

Forwarding(kind, start) ==
    LET most == Len(pending(start.recv)) + 1
        turns[n \in 0..most] ==
            IF n = 0 THEN start
            ELSE CHOOSE at \in {ForwardTurn(kind, before) : before \in {turns[n - 1]}} : TRUE
    IN  turns[most]

\* DirectionContext::forward, with a read of n bytes.
forward(n) ==
    LET b == Compacted(recv)
        start == [recv |-> commit(b, SubSeq(sent.bytes, read + 1, read + n)), framer |-> framer, out |-> out,
                  learned |-> learned, state |-> "Open", more |-> TRUE]
    IN  /\ state = "Open"
        /\ b.filled < CAPACITY
        /\ n <= CAPACITY - b.filled /\ read + n <= Len(sent.bytes)
        /\ read' = read + n
        /\ \E after \in {Forwarding(sent.kind, start)} :
              /\ recv' = after.recv /\ framer' = after.framer /\ out' = after.out
              /\ learned' = after.learned /\ state' = after.state
        /\ UNCHANGED sent

\* The buffer is full of a message that cannot be framed.
NoRoom ==
    /\ state = "Open"
    /\ Compacted(recv).filled = CAPACITY
    /\ state' = "Failed"
    /\ UNCHANGED <<sent, read, recv, framer, out, learned>>

SourceEof ==
    /\ state = "Open" /\ read = Len(sent.bytes)
    /\ Compacted(recv).filled < CAPACITY
    /\ state' = "SourceEof" /\ recv' = Compacted(recv)
    /\ UNCHANGED <<sent, read, framer, out, learned>>

(* -------------------------------- messages -------------------------------- *)

Lines(lines) == FlattenSeq([i \in DOMAIN lines |-> <<lines[i]>> \o CRLF]) \o CRLF

\* A message as it is sent, after empty lines that belong to none.
Bytes(m) == FlattenSeq([i \in 1..m.empty |-> CRLF]) \o Lines(m.lines) \o m.body

\* A message as it should be passed on.
Passed(kind, m) ==
    Lines([i \in DOMAIN m.lines |->
              IF i > 1 /\ m.lines[i] \in DOMAIN Rewrites(kind) THEN Rewrites(kind)[m.lines[i]] ELSE m.lines[i]])
        \o m.body

AllBytes(messages) == FlattenSeq([i \in DOMAIN messages |-> Bytes(messages[i])])
AllPassed(kind, messages) == FlattenSeq([i \in DOMAIN messages |-> Passed(kind, messages[i])])

StreamInit ==
    /\ \E stream \in Streams :
          sent = [kind |-> stream.kind, messages |-> stream.messages, bytes |-> AllBytes(stream.messages)]
    /\ read = 0
    /\ recv = EmptyBuffer
    /\ framer = [phase |-> "Header", body_remaining |-> 0, chunk_remaining |-> 0]
    /\ out = <<>>
    /\ learned = NoUrl
    /\ state = "Open"

StreamNext == (\E n \in 1..CAPACITY : forward(n)) \/ NoRoom \/ SourceEof

(* -------------------------------- property -------------------------------- *)

BadAt == {i \in DOMAIN sent.messages : sent.messages[i].refused}

\* However the stream is cut into reads, the other peer is sent the messages as they were with their
\* authorities rewritten, and nothing else: never a byte out of place, all of them by the end, and a
\* message that framing.rs refuses ends the connection behind every message before it.  The last
\* Application-URL, the first one of its message, is the one the proxy dials.
MessagesRelayed ==
    LET whole == AllPassed(sent.kind, sent.messages)
        good == SelectSeq(sent.messages, LAMBDA m : \E i \in DOMAIN m.lines : m.lines[i] \in {"url1", "url2"})
        before == AllPassed(sent.kind, SubSeq(sent.messages, 1, (CHOOSE i \in BadAt : \A j \in BadAt : i <= j) - 1))
    IN  /\ IsPrefix(out, whole)
        /\ state = "Failed" => BadAt # {} /\ IsPrefix(before, out)
        /\ state = "SourceEof" => BadAt = {} /\ out = whole
        /\ (state = "SourceEof" /\ sent.kind = "Response" /\ good # <<>>) =>
              LET m == good[Len(good)] IN
              learned = m.lines[CHOOSE i \in DOMAIN m.lines :
                                   /\ m.lines[i] \in {"url1", "url2"}
                                   /\ \A j \in 1..i - 1 : m.lines[j] \notin {"url1", "url2"}]

=============================================================================
