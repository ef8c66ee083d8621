---------------------------- MODULE RequestParser ----------------------------
(***************************************************************************)
(* The incremental request parser (src/http/request_parser.cpp): feed(),   *)
(* one action per iteration of its loop, and the caller of process(), who  *)
(* presents the unconsumed tail again with every read and takes finished   *)
(* requests.                                                               *)
(*                                                                         *)
(* Bytes are counted, and lines carry their meaning.  Wherever the parser  *)
(* looks for a line, the bytes up to the next CRLF are lines[at]; body and *)
(* chunk data are the bytes in between.  After the last line the stream    *)
(* goes on without a CRLF.                                                 *)
(***************************************************************************)
EXTENDS Integers, Sequences

CONSTANTS
  Streams,         \* the line sequences a peer may send
  MaxRequestLine,  \* ParserLimits: max_request_line,
  MaxHeaderBytes,  \*   max_header_bytes,
  MaxHeaderCount,  \*   max_header_count,
  MaxBodyBytes,    \*   max_body_bytes,
  MaxChunkLine,    \*   max_chunk_line
  MinBuffer,       \* the least max_in_buffer_ of a worker, 64K
  SizeMod,         \* 2^w for the width of std::size_t
  MaxBytes,        \* how many bytes arrive at most (bound)
  MaxSegment       \* how many bytes one read delivers at most (bound)

FieldKinds == {"host", "te", "te-other", "length", "expect", "expect-other", "close", "keep-alive", "field"}

\* len bytes and a CRLF; n is the number in a Content-Length or chunk-size line,
\* -1 if it is malformed.
Line ==
  [len : Nat, n : {-1} \cup 0..(SizeMod - 1),
   what : FieldKinds \cup {"http/1.1", "http/1.0", "version", "chunk", "bad"}]

ASSUME LimitsAssumption ==
  /\ MaxRequestLine \in Nat /\ MaxHeaderBytes \in Nat /\ MaxHeaderCount \in Nat
  /\ MaxBodyBytes \in Nat /\ MaxChunkLine \in Nat
  /\ MinBuffer \in Nat /\ SizeMod \in Nat /\ SizeMod > 2 * MaxBodyBytes
  /\ MaxBytes \in Nat /\ MaxSegment \in Nat

\* What the worker keeps of a connection's input at most.
max_in_buffer ==
  IF MinBuffer > MaxRequestLine + MaxHeaderBytes THEN MinBuffer ELSE MaxRequestLine + MaxHeaderBytes

\* The defaults satisfy this by far (1K against 64K, and 16K); nothing enforces it.
ASSUME BufferAssumption == MaxChunkLine + 1 < max_in_buffer /\ MaxHeaderBytes >= 2

ASSUME StreamsAssumption == \A s \in Streams : s \in Seq(Line)

VARIABLES
  lines, received,      \* the peer's stream, and how much of it has arrived
  consumed, at,         \* bytes the parser has used; the next line
  feeding,              \* inside feed()
  state, error, header_bytes, header_count, remaining,
  req,                  \* req_, as far as framing depends on it
  taken                 \* what take() has returned

input == <<lines, received>>
counters == <<header_bytes, header_count>>
vars == <<input, consumed, at, feeding, state, error, counters, remaining, req, taken>>

-----------------------------------------------------------------------------

NoRequest ==
  [minor |-> 1, host |-> FALSE, te |-> "none", lengths |-> {}, expect |-> "none",
   tokens |-> {}, expect_continue |-> FALSE, body |-> 0]

rest == received - consumed

Endless == [len |-> MaxBytes, n |-> -1, what |-> "bad"]
line == IF at <= Len(lines) THEN lines[at] ELSE Endless

\* rest.find(kCRLF) found the end of the line.
HasLine == rest >= line.len + 2

Fail(e) == state' = "Error" /\ error' = e /\ feeding' = FALSE

Wait == feeding' = FALSE /\ UNCHANGED <<state, error>>

ConsumeLine == consumed' = consumed + line.len + 2 /\ at' = at + 1

-----------------------------------------------------------------------------
(* State::RequestLine.                                                     *)

SkipEmptyLine ==
  /\ state = "RequestLine" /\ HasLine /\ line.len = 0
  /\ ConsumeLine
  /\ UNCHANGED <<feeding, state, error, counters, remaining, req>>

\* parse_request_line: the error of a request line, or none.
RequestLineError(l) ==
  IF l.len > MaxRequestLine THEN "UriTooLong"
  ELSE IF l.what = "version" THEN "VersionNotSupported"
  ELSE IF l.what \notin {"http/1.1", "http/1.0"} THEN "BadRequest"
  ELSE "None"

ParseRequestLine ==
  /\ state = "RequestLine" /\ HasLine /\ line.len > 0
  /\ \/ /\ RequestLineError(line) # "None"
        /\ Fail(RequestLineError(line))
        /\ UNCHANGED <<consumed, at, req>>
     \/ /\ RequestLineError(line) = "None"
        /\ ConsumeLine
        /\ state' = "Headers"
        /\ req' = [req EXCEPT !.minor = IF line.what = "http/1.0" THEN 0 ELSE 1]
        /\ UNCHANGED <<feeding, error>>
  /\ UNCHANGED <<counters, remaining>>

\* Faulty variant: the tail is measured like a complete line.
AwaitRequestLine_NoSlack ==
  /\ state = "RequestLine" /\ ~HasLine
  /\ IF rest > MaxRequestLine THEN Fail("UriTooLong") ELSE Wait
  /\ UNCHANGED <<consumed, at, counters, remaining, req>>

\* The unterminated tail may end in the CR of its CRLF.
AwaitRequestLine ==
  /\ state = "RequestLine" /\ ~HasLine
  /\ IF rest > MaxRequestLine + 1 THEN Fail("UriTooLong") ELSE Wait
  /\ UNCHANGED <<consumed, at, counters, remaining, req>>

-----------------------------------------------------------------------------
(* State::Headers and State::Trailers.                                     *)

\* Headers::add folds a repeated field into a list, which equals no single value.
Fold(old, new) == IF old = "none" THEN new ELSE "list"

\* parse_field_line: a well-formed field is added to the header section; trailer
\* fields do not matter.
AddField(l) ==
  IF state = "Trailers" THEN req
  ELSE [req EXCEPT
          !.host = @ \/ l.what = "host",
          !.te = CASE l.what = "te" -> Fold(@, "chunked")
                   [] l.what = "te-other" -> Fold(@, "other")
                   [] OTHER -> @,
          !.lengths = IF l.what = "length" THEN @ \cup {l.n} ELSE @,
          !.expect = CASE l.what = "expect" -> Fold(@, "100-continue")
                       [] l.what = "expect-other" -> Fold(@, "other")
                       [] OTHER -> @,
          !.tokens = IF l.what \in {"close", "keep-alive"} THEN @ \cup {l.what} ELSE @]

\* finish_headers: why the header section is rejected, or none.  Repeated
\* Content-Length values must agree.
FramingError(q) ==
  IF q.minor = 1 /\ ~q.host THEN "BadRequest"
  ELSE IF q.te # "none" /\ q.lengths # {} THEN "BadRequest"
  ELSE IF q.te # "none" /\ q.minor = 0 THEN "BadRequest"
  ELSE IF q.te \notin {"none", "chunked"} THEN "NotImplemented"
  ELSE IF -1 \in q.lengths \/ (\E m, n \in q.lengths : m # n) THEN "BadRequest"
  ELSE IF \E n \in q.lengths : n > MaxBodyBytes THEN "PayloadTooLarge"
  ELSE "None"

\* The state that follows the header section, and the length of its body.
BodyState(q) ==
  IF q.te = "chunked" THEN "ChunkSize" ELSE IF q.lengths \subseteq {0} THEN "Done" ELSE "Body"

Fits == header_bytes + line.len + 2 <= MaxHeaderBytes

RejectSection ==
  /\ state \in {"Headers", "Trailers"} /\ HasLine /\ ~Fits
  /\ Fail("HeaderFieldsTooLarge")
  /\ UNCHANGED <<consumed, at, counters, remaining, req>>

ReadFieldLine ==
  /\ state \in {"Headers", "Trailers"} /\ HasLine /\ Fits /\ line.len > 0
  /\ ConsumeLine
  /\ header_bytes' = header_bytes + line.len + 2 /\ header_count' = header_count + 1
  /\ \/ header_count >= MaxHeaderCount /\ Fail("HeaderFieldsTooLarge") /\ UNCHANGED req
     \/ /\ header_count < MaxHeaderCount
        /\ IF \/ line.what \notin FieldKinds
              \/ state = "Headers" /\ line.what = "host" /\ req.host
           THEN Fail("BadRequest") /\ UNCHANGED req
           ELSE req' = AddField(line) /\ UNCHANGED <<feeding, state, error>>
  /\ UNCHANGED remaining

EndHeaders ==
  /\ state = "Headers" /\ HasLine /\ Fits /\ line.len = 0
  /\ ConsumeLine
  /\ header_bytes' = header_bytes + 2
  /\ \/ /\ FramingError(req) # "None"
        /\ Fail(FramingError(req))
        /\ UNCHANGED <<remaining, req>>
     \/ /\ FramingError(req) = "None"
        /\ state' = BodyState(req)
        /\ remaining' = IF req.lengths = {} THEN remaining ELSE CHOOSE n \in req.lengths : TRUE
        /\ req' = [req EXCEPT !.expect_continue =
                     req.expect = "100-continue" /\ BodyState(req) # "Done"]
        /\ UNCHANGED <<feeding, error>>
  /\ UNCHANGED header_count

EndTrailers ==
  /\ state = "Trailers" /\ HasLine /\ Fits /\ line.len = 0
  /\ ConsumeLine
  /\ header_bytes' = header_bytes + 2 /\ state' = "Done"
  /\ UNCHANGED <<feeding, error, header_count, remaining, req>>

AwaitFieldLine ==
  /\ state \in {"Headers", "Trailers"} /\ ~HasLine
  /\ IF header_bytes + rest + 1 > MaxHeaderBytes THEN Fail("HeaderFieldsTooLarge") ELSE Wait
  /\ UNCHANGED <<consumed, at, counters, remaining, req>>

-----------------------------------------------------------------------------
(* State::Body, ChunkSize, ChunkData and ChunkDataEnd.                     *)

ReadBody ==
  LET n == IF rest < remaining THEN rest ELSE remaining IN
  /\ state \in {"Body", "ChunkData"} /\ rest > 0
  /\ consumed' = consumed + n /\ remaining' = remaining - n
  /\ req' = [req EXCEPT !.body = @ + n]
  /\ state' = IF n < remaining THEN state ELSE IF state = "Body" THEN "Done" ELSE "ChunkDataEnd"
  /\ UNCHANGED <<at, feeding, error, counters>>

\* Faulty variant: half a CRLF after a chunk is not waited for.
AwaitBody_WholeCrlf ==
  /\ state \in {"Body", "ChunkData"} /\ rest = 0
  /\ Wait
  /\ UNCHANGED <<consumed, at, counters, remaining, req>>

AwaitBody ==
  /\ \/ state \in {"Body", "ChunkData"} /\ rest = 0
     \/ state = "ChunkDataEnd" /\ rest < 2
  /\ Wait
  /\ UNCHANGED <<consumed, at, counters, remaining, req>>

EndChunk ==
  /\ state = "ChunkDataEnd" /\ rest >= 2
  /\ \/ /\ line.len = 0
        /\ ConsumeLine /\ state' = "ChunkSize" /\ UNCHANGED <<feeding, error>>
     \/ line.len > 0 /\ Fail("BadRequest") /\ UNCHANGED <<consumed, at>>
  /\ UNCHANGED <<counters, remaining, req>>

\* Faulty variant: only the sum is compared with the limit.
ChunkError_SumOnly(l) ==
  IF l.len > MaxChunkLine \/ l.what # "chunk" \/ l.n = -1 THEN "BadRequest"
  ELSE IF (req.body + l.n) % SizeMod > MaxBodyBytes THEN "PayloadTooLarge"
  ELSE "None"

\* parse_chunk_size: the sum is taken in std::size_t.
ChunkError(l) ==
  IF l.len > MaxChunkLine \/ l.what # "chunk" \/ l.n = -1 THEN "BadRequest"
  ELSE IF l.n > MaxBodyBytes \/ (req.body + l.n) % SizeMod > MaxBodyBytes
  THEN "PayloadTooLarge"
  ELSE "None"

ReadChunkSize ==
  /\ state = "ChunkSize" /\ HasLine
  /\ \/ /\ ChunkError(line) # "None"
        /\ Fail(ChunkError(line))
        /\ UNCHANGED <<consumed, at, remaining>>
     \/ /\ ChunkError(line) = "None"
        /\ ConsumeLine
        /\ IF line.n = 0 THEN state' = "Trailers" /\ UNCHANGED remaining
           ELSE state' = "ChunkData" /\ remaining' = line.n
        /\ UNCHANGED <<feeding, error>>
  /\ UNCHANGED <<counters, req>>

\* Faulty variant: an unterminated chunk-size line may grow without limit.
AwaitChunkSize_NoLimit ==
  /\ state = "ChunkSize" /\ ~HasLine /\ Wait
  /\ UNCHANGED <<consumed, at, counters, remaining, req>>

AwaitChunkSize ==
  /\ state = "ChunkSize" /\ ~HasLine
  /\ IF rest > MaxChunkLine + 1 THEN Fail("BadRequest") ELSE Wait
  /\ UNCHANGED <<consumed, at, counters, remaining, req>>

\* The parser stops at the end of the request.
ReturnDone ==
  /\ state = "Done" /\ Wait
  /\ UNCHANGED <<consumed, at, counters, remaining, req>>

Feed ==
  /\ feeding
  /\ \/ SkipEmptyLine \/ ParseRequestLine \/ AwaitRequestLine
     \/ RejectSection \/ ReadFieldLine \/ EndHeaders \/ EndTrailers \/ AwaitFieldLine
     \/ ReadBody \/ AwaitBody \/ EndChunk \/ ReadChunkSize \/ AwaitChunkSize \/ ReturnDone
  /\ UNCHANGED <<input, taken>>

-----------------------------------------------------------------------------
(* The caller, Worker::process().                                          *)

\* n more bytes are appended to the unconsumed tail and presented to feed().
Receive(n) ==
  /\ ~feeding /\ state \notin {"Done", "Error"} /\ received + n <= MaxBytes
  /\ received' = received + n /\ feeding' = TRUE
  /\ UNCHANGED <<lines, consumed, at, state, error, counters, remaining, req, taken>>

\* Request::keep_alive().
keep_alive(q) ==
  "close" \notin q.tokens /\ (q.minor = 0 => "keep-alive" \in q.tokens)

\* take() moves the request out and resets the parser; process() goes on with the
\* bytes that are left.
Take ==
  /\ ~feeding /\ state = "Done"
  /\ taken' = Append(taken, [body |-> req.body, minor |-> req.minor, keep |-> keep_alive(req),
                             expect_continue |-> req.expect_continue])
  /\ state' = "RequestLine" /\ error' = "None" /\ req' = NoRequest /\ remaining' = 0
  /\ header_bytes' = 0 /\ header_count' = 0
  /\ feeding' = (rest > 0)
  /\ UNCHANGED <<input, consumed, at>>

Init ==
  /\ lines \in Streams /\ received = 0 /\ consumed = 0 /\ at = 1 /\ feeding = FALSE
  /\ state = "RequestLine" /\ error = "None" /\ header_bytes = 0 /\ header_count = 0
  /\ remaining = 0 /\ req = NoRequest /\ taken = <<>>

Next == Feed \/ Take \/ \E n \in 1..MaxSegment : Receive(n)

Spec == Init /\ [][Next]_vars

FairSpec == Spec /\ WF_vars(Feed) /\ WF_vars(Take)

-----------------------------------------------------------------------------
(* Properties.                                                             *)

States ==
  {"RequestLine", "Headers", "Body", "ChunkSize", "ChunkData", "ChunkDataEnd", "Trailers",
   "Done", "Error"}

Errors ==
  {"None", "BadRequest", "UriTooLong", "HeaderFieldsTooLarge", "PayloadTooLarge",
   "NotImplemented", "VersionNotSupported"}

Request ==
  [minor : {0, 1}, host : BOOLEAN, te : {"none", "chunked", "other", "list"},
   lengths : SUBSET ({-1} \cup 0..(SizeMod - 1)),
   expect : {"none", "100-continue", "other", "list"},
   tokens : SUBSET {"close", "keep-alive"}, expect_continue : BOOLEAN, body : Nat]

\* The types, and that feed() never uses more bytes than it was given.
TypeOK ==
  /\ lines \in Streams /\ received \in Nat /\ consumed \in 0..received /\ at \in Nat \ {0}
  /\ feeding \in BOOLEAN /\ state \in States /\ error \in Errors
  /\ header_bytes \in Nat /\ header_count \in Nat /\ remaining \in Nat
  /\ req \in Request

\* What is collected of a request stays within the limits, whatever the lines say:
\* the body together with what is still announced of it (the sums of parse_chunk_size
\* are taken modulo the word size), the header section and the trailers together.
LimitsHold ==
  /\ req.body + remaining <= MaxBodyBytes
  /\ header_bytes <= MaxHeaderBytes
  /\ state # "Error" => header_count <= MaxHeaderCount

\* A parser that waits for more bytes leaves room for them: the unconsumed tail is
\* shorter than the buffer at which do_read() stops reading, so the two never wait
\* for each other.
NeverStalls == ~feeding /\ state \notin {"Done", "Error"} => rest < max_in_buffer

\* Every call of feed() returns.
FeedReturns == feeding ~> ~feeding

=============================================================================
