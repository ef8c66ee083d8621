---------------------------- MODULE RequestProofs -----------------------------
(***************************************************************************)
(* The bytes of a connection: the limits of the parser, for all limits and *)
(* all streams; the input buffer that it reads from is memory-safe and     *)
(* bounded, and implements the byte queue, for all sizes.                  *)
(***************************************************************************)
EXTENDS RequestParser, ByteBuffer, Router, SequenceTheorems, WellFoundedInduction, TLAPS

\* How far the body has got in each state: nothing is announced unless it is being
\* read, and nothing is collected before the header section ends.
BodyInv ==
  /\ state \in {"RequestLine", "Headers"} => req.body = 0
  /\ state \notin {"Body", "ChunkData", "Error"} => remaining = 0

ParserInv == TypeOK /\ LimitsHold /\ NeverStalls /\ BodyInv

USE LimitsAssumption

\* The buffer has room for every unterminated line the parser waits for.
LEMMA BufferFacts ==
  /\ max_in_buffer \in Nat /\ 1 < max_in_buffer
  /\ MaxRequestLine + 1 < max_in_buffer /\ MaxHeaderBytes <= max_in_buffer
  /\ MaxChunkLine + 1 < max_in_buffer
BY BufferAssumption DEF max_in_buffer

USE BufferFacts

\* The next line of every stream is a line.
LEMMA LineType == ASSUME TypeOK PROVE line \in Line
<1>1. lines \in Seq(Line) /\ at \in Nat \ {0}
  BY StreamsAssumption DEF TypeOK
<1>2. Endless \in Line
  BY DEF Endless, Line
<1> QED
  BY <1>1, <1>2 DEF line

\* parse_field_line keeps the header section well-formed and does not touch the body.
LEMMA AddFieldType ==
  ASSUME TypeOK, NEW l \in Line
  PROVE  AddField(l) \in Request /\ AddField(l).body = req.body
<1>1. CASE state = "Trailers"
  BY <1>1 DEF TypeOK, AddField
<1>2. CASE state # "Trailers"
  <2> DEFINE te == CASE l.what = "te" -> Fold(req.te, "chunked")
                     [] l.what = "te-other" -> Fold(req.te, "other")
                     [] OTHER -> req.te
             lengths == IF l.what = "length" THEN req.lengths \cup {l.n} ELSE req.lengths
             expect == CASE l.what = "expect" -> Fold(req.expect, "100-continue")
                         [] l.what = "expect-other" -> Fold(req.expect, "other")
                         [] OTHER -> req.expect
             tokens == IF l.what \in {"close", "keep-alive"}
                       THEN req.tokens \cup {l.what} ELSE req.tokens
             host == req.host \/ l.what = "host"
  <2>1. req \in Request
    BY DEF TypeOK
  <2>2. te \in {"none", "chunked", "other", "list"}
    BY <2>1 DEF Request, Fold
  <2>3. lengths \in SUBSET ({-1} \cup 0..(SizeMod - 1))
    BY <2>1 DEF Request, Line
  <2>4. expect \in {"none", "100-continue", "other", "list"}
    BY <2>1 DEF Request, Fold
  <2>5. tokens \in SUBSET {"close", "keep-alive"}
    BY <2>1 DEF Request
  <2>6. host \in BOOLEAN
    OBVIOUS
  <2>7. AddField(l) = [req EXCEPT !.host = host, !.te = te, !.lengths = lengths,
                                  !.expect = expect, !.tokens = tokens]
    BY <1>2, <2>1 DEF AddField, Request
  <2> HIDE DEF te, lengths, expect, tokens, host
  <2> QED
    BY <2>1, <2>2, <2>3, <2>4, <2>5, <2>6, <2>7, ZenonT(40) DEF Request
<1> QED
  BY <1>1, <1>2

\* A sum of two sizes within the limit does not wrap around.
LEMMA NoWrap ==
  ASSUME NEW a \in 0..MaxBodyBytes, NEW b \in 0..MaxBodyBytes
  PROVE  (a + b) % SizeMod = a + b
BY SMT

\* A new parser satisfies the invariant.
LEMMA InitParser == Init => ParserInv
<1> SUFFICES ASSUME Init PROVE ParserInv
  OBVIOUS
<1> USE DEF Init, NoRequest
<1>1. req \in Request /\ req.body = 0
  BY DEF Request
<1>2. TypeOK
  <2>1. feeding \in BOOLEAN
    BY ZenonT(40)
  <2> QED
    BY <1>1, <2>1 DEF TypeOK, States, Errors
<1>3. LimitsHold /\ NeverStalls /\ BodyInv
  BY <1>1 DEF LimitsHold, NeverStalls, BodyInv, rest
<1> QED
  BY <1>2, <1>3 DEF ParserInv

\* feed() returns for want of bytes.
LEMMA WaitStep ==
  ASSUME ParserInv, Wait, rest < max_in_buffer,
         UNCHANGED <<input, consumed, at, counters, remaining, req>>
  PROVE  ParserInv'
<1> USE DEF Wait, input, counters
<1>1. feeding' \in BOOLEAN
  BY ZenonT(40)
<1>2. TypeOK'
  BY <1>1 DEF ParserInv, TypeOK
<1>3. rest' = rest
  BY DEF rest
<1>4. NeverStalls'
  BY <1>3 DEF NeverStalls
<1>5. LimitsHold' /\ BodyInv'
  BY DEF ParserInv, LimitsHold, BodyInv
<1> QED
  BY <1>2, <1>4, <1>5 DEF ParserInv

\* feed() returns with an error.
LEMMA FailStep ==
  ASSUME ParserInv, NEW e \in Errors, Fail(e), UNCHANGED <<input, remaining, req>>,
         consumed' \in 0..received, at' \in Nat \ {0},
         header_bytes' \in 0..MaxHeaderBytes, header_count' \in Nat
  PROVE  ParserInv'
<1> USE DEF Fail, input
<1>1. feeding' \in BOOLEAN
  BY ZenonT(40)
<1>2. TypeOK'
  BY <1>1 DEF ParserInv, TypeOK, States
<1>3. NeverStalls'
  BY DEF NeverStalls
<1>4. LimitsHold'
  BY DEF ParserInv, LimitsHold
<1>5. BodyInv'
  <2>1. state' = "Error"
    BY Zenon
  <2> HIDE DEF Fail, input
  <2> QED
    BY <2>1, Zenon DEF BodyInv
<1> QED
  BY <1>2, <1>3, <1>4, <1>5, Zenon DEF ParserInv

\* The lines of the request line and of the sections.
LEMMA LineSteps ==
  ASSUME ParserInv, UNCHANGED input,
         \/ SkipEmptyLine \/ ParseRequestLine \/ AwaitRequestLine \/ RejectSection
         \/ ReadFieldLine \/ EndHeaders \/ EndTrailers \/ AwaitFieldLine
  PROVE  ParserInv'
<1> USE DEF ParserInv, TypeOK, LimitsHold, NeverStalls, BodyInv, States, Errors, rest, input,
            counters
<1>0. line.len \in Nat /\ line \in Line
  BY LineType DEF Line
<1>1. CASE SkipEmptyLine
  BY <1>0, <1>1 DEF SkipEmptyLine, ConsumeLine, HasLine
<1>2. CASE ParseRequestLine
  <2>1. CASE RequestLineError(line) # "None"
    BY <1>2, <2>1, ZenonT(40) DEF ParseRequestLine, RequestLineError, Fail
  <2>2. CASE RequestLineError(line) = "None"
    <3>1. req' \in Request /\ req'.body = req.body
      BY <1>2, <2>2 DEF ParseRequestLine, Request
    <3> QED
      BY <1>0, <1>2, <2>2, <3>1 DEF ParseRequestLine, ConsumeLine, HasLine
  <2> QED
    BY <2>1, <2>2
<1>3. CASE AwaitRequestLine
  <2>1. CASE rest > MaxRequestLine + 1
    BY <1>3, <2>1, ZenonT(40) DEF AwaitRequestLine, Fail
  <2>2. CASE ~(rest > MaxRequestLine + 1)
    BY <1>3, <2>2, WaitStep DEF AwaitRequestLine
  <2> QED
    BY <2>1, <2>2
<1>4. CASE RejectSection
  BY <1>4, ZenonT(40) DEF RejectSection, Fail
<1>5. CASE ReadFieldLine
  <2>1. CASE state' = "Error"
    <3>1. PICK e \in Errors : Fail(e) /\ req' = req
      BY <1>5, <2>1 DEF ReadFieldLine
    <3> QED
      BY <1>0, <1>5, <3>1, FailStep DEF ReadFieldLine, ConsumeLine, HasLine, Fits
  <2>2. CASE state' # "Error"
    <3>1. UNCHANGED <<feeding, state, error>> /\ header_count < MaxHeaderCount
      BY <1>5, <2>2 DEF ReadFieldLine, Fail
    <3>2. req' \in Request /\ req'.body = req.body
      BY <1>0, <1>5, <2>2, AddFieldType DEF ReadFieldLine, Fail
    <3> QED
      BY <1>0, <1>5, <3>1, <3>2 DEF ReadFieldLine, ConsumeLine, HasLine, Fits
  <2> QED
    BY <2>1, <2>2, ZenonT(40)
<1>6. CASE EndHeaders
  <2>1. CASE FramingError(req) # "None"
    <3>1. FramingError(req) \in Errors
      BY DEF FramingError
    <3> QED
      BY <1>0, <1>6, <2>1, <3>1, FailStep DEF EndHeaders, ConsumeLine, HasLine, Fits
  <2>2. CASE FramingError(req) = "None"
    <3>1. req' \in Request /\ req'.body = 0
      BY <1>6, <2>2, ZenonT(40) DEF EndHeaders, Request
    <3>2. state' \in {"ChunkSize", "Done", "Body"}
      BY <1>6, <2>2 DEF EndHeaders, BodyState
    <3>3. remaining' \in 0..MaxBodyBytes
      <4>1. CASE req.lengths = {}
        BY <1>6, <2>2, <4>1 DEF EndHeaders
      <4>2. CASE req.lengths # {}
        <5>1. remaining' \in req.lengths
          BY <1>6, <2>2, <4>2 DEF EndHeaders
        <5>2. -1 \notin req.lengths /\ \A n \in req.lengths : ~(n > MaxBodyBytes)
          BY <2>2 DEF FramingError
        <5> QED
          BY <5>1, <5>2 DEF Request
      <4> QED
        BY <4>1, <4>2
    <3>4. state' # "Body" => remaining' = 0
      <4>1. CASE req.lengths = {}
        BY <1>6, <2>2, <4>1 DEF EndHeaders
      <4>2. CASE req.lengths # {}
        <5>1. remaining' \in req.lengths
          BY <1>6, <2>2, <4>2 DEF EndHeaders
        <5>2. req.te = "none"
          BY <2>2, <4>2 DEF FramingError
        <5> QED
          BY <1>6, <2>2, <5>1, <5>2 DEF EndHeaders, BodyState
      <4> QED
        BY <4>1, <4>2
    <3> QED
      BY <1>0, <1>6, <2>2, <3>1, <3>2, <3>3, <3>4 DEF EndHeaders, ConsumeLine, HasLine, Fits
  <2> QED
    BY <2>1, <2>2
<1>7. CASE EndTrailers
  BY <1>0, <1>7 DEF EndTrailers, ConsumeLine, HasLine, Fits
<1>8. CASE AwaitFieldLine
  <2>1. CASE header_bytes + rest + 1 > MaxHeaderBytes
    BY <1>8, <2>1, ZenonT(40) DEF AwaitFieldLine, Fail
  <2>2. CASE ~(header_bytes + rest + 1 > MaxHeaderBytes)
    BY <1>8, <2>2, WaitStep DEF AwaitFieldLine
  <2> QED
    BY <2>1, <2>2
<1> QED
  BY <1>1, <1>2, <1>3, <1>4, <1>5, <1>6, <1>7, <1>8

\* The bytes of a body, and the lines between chunks.
LEMMA BodySteps ==
  ASSUME ParserInv, feeding, UNCHANGED input,
         \/ ReadBody \/ AwaitBody \/ EndChunk \/ ReadChunkSize \/ AwaitChunkSize \/ ReturnDone
  PROVE  ParserInv'
<1> USE DEF ParserInv, TypeOK, LimitsHold, NeverStalls, BodyInv, States, Errors, rest, input,
            counters
<1>0. line.len \in Nat /\ line \in Line
  BY LineType DEF Line
<1>1. CASE ReadBody
  <2> DEFINE n == IF rest < remaining THEN rest ELSE remaining
  <2>1. n \in 0..remaining /\ n \in 0..rest
    OBVIOUS
  <2>2. /\ consumed' = consumed + n /\ remaining' = remaining - n
        /\ req' = [req EXCEPT !.body = @ + n]
        /\ state' = IF n < remaining THEN state
                    ELSE IF state = "Body" THEN "Done" ELSE "ChunkDataEnd"
    BY <1>1 DEF ReadBody
  <2> HIDE DEF n
  <2>3. req' \in Request /\ req'.body = req.body + n
    BY <2>1, <2>2 DEF Request
  <2>4. req.body \in Nat
    BY DEF Request
  <2>5. \/ state' \in {"Body", "ChunkData"}
        \/ state' \in {"Done", "ChunkDataEnd"} /\ remaining' = 0
    <3>1. state \in {"Body", "ChunkData"}
      BY <1>1 DEF ReadBody
    <3>2. CASE n < remaining
      BY <2>2, <3>1, <3>2
    <3>3. CASE ~(n < remaining)
      <4>1. remaining' = 0
        BY <2>1, <2>2, <3>3
      <4> QED
        BY <2>2, <3>1, <3>3, <4>1
    <3> QED
      BY <3>2, <3>3
  <2>6. feeding /\ feeding'
    BY <1>1 DEF ReadBody
  <2>7. TypeOK'
    BY <1>1, <2>1, <2>2, <2>3, <2>5 DEF ReadBody
  <2>8. LimitsHold' /\ BodyInv'
    BY <1>1, <2>1, <2>2, <2>3, <2>4, <2>5 DEF ReadBody
  <2> QED
    BY <2>6, <2>7, <2>8
<1>2. CASE AwaitBody
  <2>1. rest < max_in_buffer
    BY <1>2 DEF AwaitBody
  <2> QED
    BY <1>2, <2>1, WaitStep DEF AwaitBody
<1>3. CASE EndChunk
  <2>1. CASE line.len = 0
    BY <1>0, <1>3, <2>1 DEF EndChunk, ConsumeLine
  <2>2. CASE line.len # 0
    BY <1>0, <1>3, <2>2, ZenonT(40) DEF EndChunk, Fail
  <2> QED
    BY <2>1, <2>2
<1>4. CASE ReadChunkSize
  <2>1. CASE ChunkError(line) # "None"
    <3>1. ChunkError(line) \in Errors
      BY DEF ChunkError
    <3> QED
      BY <1>4, <2>1, <3>1, ZenonT(40) DEF ReadChunkSize, Fail
  <2>2. CASE ChunkError(line) = "None"
    <3>1. line.n \in Nat /\ line.n <= MaxBodyBytes
      BY <1>0, <2>2 DEF ChunkError, Line
    <3>2. req.body + line.n <= MaxBodyBytes
      <4>1. req.body \in 0..MaxBodyBytes
        BY DEF Request
      <4>2. ~((req.body + line.n) % SizeMod > MaxBodyBytes)
        BY <2>2 DEF ChunkError
      <4> QED
        BY <3>1, <4>1, <4>2, NoWrap
    <3>3. CASE line.n = 0
      BY <1>0, <1>4, <2>2, <3>3 DEF ReadChunkSize, ConsumeLine, HasLine
    <3>4. CASE line.n # 0
      BY <1>0, <1>4, <2>2, <3>1, <3>2, <3>4 DEF ReadChunkSize, ConsumeLine, HasLine
    <3> QED
      BY <3>3, <3>4
  <2> QED
    BY <2>1, <2>2
<1>5. CASE AwaitChunkSize
  <2>1. CASE rest > MaxChunkLine + 1
    BY <1>5, <2>1, ZenonT(40) DEF AwaitChunkSize, Fail
  <2>2. CASE ~(rest > MaxChunkLine + 1)
    BY <1>5, <2>2, WaitStep DEF AwaitChunkSize
  <2> QED
    BY <2>1, <2>2
<1>6. CASE ReturnDone
  BY <1>6, ZenonT(40) DEF ReturnDone, Wait
<1> QED
  BY <1>1, <1>2, <1>3, <1>4, <1>5, <1>6

\* A read, and a finished request.
LEMMA CallerSteps ==
  ASSUME ParserInv, Take \/ \E n \in 1..MaxSegment : Receive(n)
  PROVE  ParserInv'
<1> USE DEF ParserInv, TypeOK, LimitsHold, NeverStalls, BodyInv, States, Errors, rest, input,
            counters
<1>1. CASE \E n \in 1..MaxSegment : Receive(n)
  <2>1. PICK n \in 1..MaxSegment : Receive(n)
    BY <1>1
  <2> QED
    BY <2>1 DEF Receive
<1>2. CASE Take
  <2>1. req' \in Request /\ req'.body = 0
    BY <1>2 DEF Take, NoRequest, Request
  <2>2. feeding' \in BOOLEAN
    BY <1>2 DEF Take
  <2>3. CASE rest > 0
    <3>1. feeding'
      BY <1>2, <2>3, ZenonT(40) DEF Take
    <3> QED
      BY <1>2, <2>1, <2>2, <3>1 DEF Take
  <2>4. CASE ~(rest > 0)
    <3>1. rest' < max_in_buffer
      BY <1>2, <2>4 DEF Take
    <3> QED
      BY <1>2, <2>1, <2>2, <3>1 DEF Take
  <2> QED
    BY <2>3, <2>4
<1> QED
  BY <1>1, <1>2

\* Every iteration of feed(), every read and every take() keep it.
LEMMA NextParser == ParserInv /\ [Next]_vars => ParserInv'
<1> SUFFICES ASSUME ParserInv, [Next]_vars PROVE ParserInv'
  OBVIOUS
<1>1. CASE Feed
  BY <1>1, LineSteps, BodySteps DEF Feed
<1>2. CASE Take
  BY <1>2, CallerSteps
<1>3. CASE \E n \in 1..MaxSegment : Receive(n)
  BY <1>3, CallerSteps
<1>4. CASE UNCHANGED vars
  BY <1>4 DEF ParserInv, TypeOK, LimitsHold, NeverStalls, BodyInv, rest, vars, input, counters
<1> QED
  BY <1>1, <1>2, <1>3, <1>4 DEF Next

\* Whatever lines a peer sends and however they are split, the parser uses only bytes
\* it has and keeps every limit of ParserLimits.
THEOREM ParserIsBounded == Spec => [](TypeOK /\ LimitsHold)
<1>1. ParserInv => TypeOK /\ LimitsHold
  BY DEF ParserInv
<1> QED
  BY InitParser, NextParser, <1>1, PTL DEF Spec

\* Parser and worker never wait for each other: whenever feed() asks for more bytes, the
\* unread input is below max_in_buffer_, so do_read() will read them.
THEOREM ParserDoesNotStall == Spec => []NeverStalls
<1>1. ParserInv => NeverStalls
  BY DEF ParserInv
<1> QED
  BY InitParser, NextParser, <1>1, PTL DEF Spec

HIDE LimitsAssumption

-----------------------------------------------------------------------------
(* The input buffer.                                                       *)

\* While prepare() and recv() are at work the reader is below max_in_buffer_, and the
\* capacity being tried is within the bound.
WorkInv ==
  /\ op # "idle" => size < MaxIn
  /\ op = "grow" => new_cap = FirstCap \/ new_cap < 2 * (MaxIn - 1 + ReadSize)

BufferInv == BufferTypeOK /\ InBounds /\ CapacityBounded /\ WorkInv

USE SizesAssumption

\* An empty buffer satisfies the invariant.
LEMMA InitBuffer == BufferInit => BufferInv
<1> SUFFICES ASSUME BufferInit PROVE BufferInv
  BY Zenon
<1>1. /\ data = [i \in 0..-1 |-> Junk] /\ cap = 0 /\ rpos = 0 /\ wpos = 0
      /\ op = "idle" /\ new_cap = 0 /\ next = 0
  BY Zenon DEF BufferInit
<1>2. BufferTypeOK
  BY <1>1 DEF BufferTypeOK
<1>3. InBounds
  BY <1>1 DEF InBounds
<1>4. CapacityBounded /\ WorkInv
  BY <1>1 DEF CapacityBounded, WorkInv
<1> QED
  BY <1>2, <1>3, <1>4, Zenon DEF BufferInv

\* prepare(), recv() with commit(), and consume() keep it.
LEMMA NextBuffer == BufferInv /\ [BufferNext]_bufferVars => BufferInv'
<1> SUFFICES ASSUME BufferInv, [BufferNext]_bufferVars PROVE BufferInv'
  OBVIOUS
<1> USE DEF BufferInv, BufferTypeOK, InBounds, CapacityBounded, WorkInv, size
<1>1. CASE PrepareInPlace
  BY <1>1 DEF PrepareInPlace, MayRead
<1>2. CASE PrepareCompact
  BY <1>2 DEF PrepareCompact, MayRead, MayCompact, Moved
<1>3. CASE PrepareGrow
  BY <1>3 DEF PrepareGrow, MayRead, StartCap
<1>4. CASE Double
  BY <1>4 DEF Double, Room
<1>5. CASE Grow
  BY <1>5 DEF Grow, Room, Moved
<1>6. ASSUME NEW k \in 0..ReadSize, Recv(k) PROVE BufferInv'
  BY <1>6 DEF Recv
<1>7. ASSUME NEW k \in 1..size, Consume(k) PROVE BufferInv'
  BY <1>7 DEF Consume
<1>8. CASE UNCHANGED bufferVars
  BY <1>8 DEF bufferVars
<1> QED
  BY <1>1, <1>2, <1>3, <1>4, <1>5, <1>6, <1>7, <1>8 DEF BufferNext, Prepare

\* The regions stay ordered and inside the array, and recv() is always given the room it
\* was promised.
THEOREM BufferIsSafe == BufferSpec => [](BufferTypeOK /\ InBounds)
<1>1. BufferInv => BufferTypeOK /\ InBounds
  BY DEF BufferInv
<1> QED
  BY InitBuffer, NextBuffer, <1>1, PTL DEF BufferSpec

\* However reads and parses alternate, the array stays below twice what max_in_buffer_
\* and one read ask for: a slow parser cannot make it grow.
THEOREM BufferIsBounded == BufferSpec => []CapacityBounded
<1>1. BufferInv => CapacityBounded
  BY DEF BufferInv
<1> QED
  BY InitBuffer, NextBuffer, <1>1, PTL DEF BufferSpec

-----------------------------------------------------------------------------

Bytes == (0..(Stamps - 1)) \cup {Junk}

\* The readable region is a sequence of size bytes.
LEMMA ReadableSeq ==
  ASSUME BufferInv
  PROVE  /\ readable \in Seq(Bytes) /\ Len(readable) = size
         /\ \A i \in 1..size : readable[i] = data[rpos + i - 1]
<1>1. size \in Nat
  BY DEF BufferInv, BufferTypeOK, InBounds, size
<1>2. \A i \in 1..size : data[rpos + i - 1] \in (0..(Stamps - 1)) \cup {Junk}
  BY <1>1 DEF BufferInv, BufferTypeOK, InBounds, size
<1> QED
  BY <1>1, <1>2 DEF readable, Bytes

\* Sliding, growing and waiting leave what is readable alone.
LEMMA SameReadable ==
  ASSUME BufferInv, Prepare \/ Recv(0) \/ UNCHANGED bufferVars
  PROVE  readable' = readable
<1> USE DEF BufferInv, BufferTypeOK, InBounds, size
<1>1. CASE UNCHANGED <<data, rpos, wpos>>
  BY <1>1 DEF readable
<1>2. CASE PrepareCompact \/ Grow
  <2>1. size \in Nat /\ size' = size /\ rpos' = 0
    BY <1>2 DEF PrepareCompact, Grow
  <2>2. \A i \in 1..size : data'[i - 1] = data[rpos + i - 1]
    BY <1>2 DEF PrepareCompact, Grow, Moved, MayCompact, Room
  <2> QED
    BY <2>1, <2>2 DEF readable
<1>3. CASE Recv(0)
  <2>1. size' = size /\ rpos' = rpos
    BY <1>3 DEF Recv
  <2>2. \A i \in 1..size : data'[rpos + i - 1] = data[rpos + i - 1]
    BY <1>3 DEF Recv
  <2> QED
    BY <2>1, <2>2, ZenonT(40) DEF readable
<1> QED
  BY <1>1, <1>2, <1>3 DEF Prepare, PrepareInPlace, PrepareGrow, Double, bufferVars

\* recv() and commit() append what arrived.
LEMMA RecvPuts ==
  ASSUME BufferInv, BufferInv', NEW k \in 1..ReadSize, Recv(k)
  PROVE  Queue!Put(k)
<1> DEFINE new == Queue!Arrived(k)
<1>1. new \in Seq(Bytes) /\ Len(new) = k /\ \A i \in 1..k : new[i] = (next + i) % Stamps
  <2>1. \A i \in 1..k : (next + i) % Stamps \in Bytes
    BY DEF BufferInv, BufferTypeOK, Bytes
  <2> QED
    BY <2>1 DEF Queue!Arrived
<1>2. /\ size \in Nat /\ size' = size + k /\ rpos' = rpos /\ size < MaxIn
      /\ wpos = rpos + size /\ wpos + k <= cap /\ rpos \in Nat /\ cap \in Nat
  BY DEF Recv, BufferInv, BufferTypeOK, InBounds, WorkInv, size
<1>3. /\ \A i \in 1..size : data'[rpos + i - 1] = data[rpos + i - 1]
      /\ \A i \in 1..k : data'[rpos + size + i - 1] = (next + i) % Stamps
  BY <1>2 DEF Recv, BufferInv, BufferTypeOK
<1> HIDE DEF new
<1>4. readable' = readable \o new
  <2>1. \A i \in 1..(size + k) :
          readable'[i] = IF i <= size THEN readable[i] ELSE new[i - size]
    <3> TAKE i \in 1..(size + k)
    <3>0. readable'[i] = data'[rpos + i - 1]
      BY <1>2 DEF readable
    <3>1. CASE i <= size
      BY <1>2, <1>3, <3>0, <3>1 DEF readable
    <3>2. CASE ~(i <= size)
      <4>1. i - size \in 1..k /\ rpos + size + (i - size) - 1 = rpos + i - 1
        BY <1>2, <3>2
      <4> QED
        BY <1>1, <1>3, <3>0, <3>2, <4>1
    <3> QED
      BY <3>1, <3>2
  <2>2. readable' \in Seq(Bytes) /\ Len(readable') = size + k
    <3>1. \A i \in 1..(size + k) : data'[rpos + i - 1] \in Bytes
      BY <1>2 DEF BufferInv, BufferTypeOK, InBounds, Recv, size, Bytes
    <3> QED
      BY <1>2, <3>1 DEF readable
  <2>3. /\ readable \o new \in Seq(Bytes) /\ Len(readable \o new) = size + k
        /\ \A i \in 1..(size + k) :
             (readable \o new)[i] = IF i <= size THEN readable[i] ELSE new[i - size]
    <3>1. readable \in Seq(Bytes) /\ Len(readable) = size
      BY ReadableSeq
    <3>2. /\ readable \o new \in Seq(Bytes)
          /\ Len(readable \o new) = Len(readable) + Len(new)
          /\ \A i \in 1..(Len(readable) + Len(new)) :
               (readable \o new)[i] =
                 IF i <= Len(readable) THEN readable[i] ELSE new[i - Len(readable)]
      BY <1>1, <3>1, ConcatProperties, Zenon
    <3> QED
      BY <1>1, <3>1, <3>2, Zenon
  <2>4. \A i \in 1..(size + k) : readable'[i] = (readable \o new)[i]
    BY <2>1, <2>3, Zenon
  <2> QED
    BY <1>2, <2>2, <2>3, <2>4, SeqEqual, ZenonT(40)
<1> QED
  BY <1>2, <1>4, ReadableSeq DEF Queue!Put, Recv, new

\* consume() removes what was used from the front.
LEMMA ConsumeGets ==
  ASSUME BufferInv, NEW k \in 1..size, Consume(k)
  PROVE  Queue!Get(k)
<1>1. /\ size \in Nat /\ size' = size - k /\ data' = data /\ next' = next
      /\ rpos \in Nat /\ (k # size => rpos' = rpos + k)
  BY DEF Consume, BufferInv, BufferTypeOK, InBounds, size
<1>2. \A i \in 1..(size - k) : readable'[i] = readable[k + i]
  BY <1>1 DEF readable
<1>3. readable' = [i \in 1..(size - k) |-> readable[k + i]]
  BY <1>1, <1>2 DEF readable
<1>4. readable' = SubSeq(readable, k + 1, Len(readable))
  <2> DEFINE tail == SubSeq(readable, k + 1, size)
  <2>1. \A i \in (k + 1)..size : readable[i] \in Bytes
    BY <1>1, ReadableSeq
  <2>2. /\ tail \in Seq(Bytes) /\ Len(tail) = size - k
        /\ \A i \in 1..(size - k) : tail[i] = readable[k + i]
    BY <1>1, <2>1, SubSeqProperties
  <2>3. readable' \in Seq(Bytes) /\ Len(readable') = size - k
    <3>1. \A i \in 1..(size - k) : readable[k + i] \in Bytes
      BY <1>1, <2>1
    <3> QED
      BY <1>1, <1>3, <3>1
  <2> HIDE DEF tail
  <2>4. readable' = tail
    BY <1>2, <2>2, <2>3, SeqEqual, Zenon
  <2> QED
    BY <2>4, ReadableSeq DEF tail
<1> QED
  BY <1>1, <1>4, ReadableSeq DEF Queue!Get

\* The buffer implements the queue: the parser sees the bytes of the stream in order,
\* each one once, however the array is slid, grown and reset in between.
THEOREM BufferIsQueue == BufferSpec => FirstInFirstOut
<1>1. BufferInit => Queue!Init
  BY DEF BufferInit, Queue!Init, readable, size
<1>2. ASSUME BufferInv, BufferInv', [BufferNext]_bufferVars
      PROVE  [Queue!Next]_(Queue!vars)
  <2>1. CASE Prepare \/ Recv(0) \/ UNCHANGED bufferVars
    <3>1. next' = next \/ next' = (next + 0) % Stamps
      BY <2>1 DEF Prepare, PrepareInPlace, PrepareCompact, PrepareGrow, Double, Grow, Recv, bufferVars
    <3>2. next \in 0..(Stamps - 1)
      BY <1>2 DEF BufferInv, BufferTypeOK
    <3>3. next' = next
      BY <3>1, <3>2
    <3> QED
      BY <1>2, <2>1, <3>3, SameReadable DEF Queue!vars
  <2>2. ASSUME NEW k \in 1..ReadSize, Recv(k) PROVE Queue!Next
    BY <1>2, <2>2, RecvPuts DEF Queue!Next
  <2>3. ASSUME NEW k \in 1..size, Consume(k) PROVE Queue!Next
    BY <1>2, <2>3, ConsumeGets, ReadableSeq DEF Queue!Next
  <2> QED
    BY <1>2, <2>1, <2>2, <2>3 DEF BufferNext
<1> QED
  BY <1>1, <1>2, InitBuffer, NextBuffer, PTL DEF BufferSpec, FirstInFirstOut, Queue!Spec

-----------------------------------------------------------------------------
(* The route table.                                                        *)

\* A set of natural numbers that is not empty has a least element.
LEMMA Least ==
  ASSUME NEW T \in SUBSET Nat, T # {}
  PROVE  \E m \in T : \A k \in T : m <= k
<1>1. \E x \in T : \A y \in T : ~ (<<y, x>> \in OpToRel(<,Nat))
  BY NatLessThanWellFounded, WFMin, Zenon
<1>2. OpToRel(<,Nat) = {ss \in Nat \X Nat : ss[1] < ss[2]}
  BY Zenon DEF OpToRel
<1>3. PICK x \in T : \A y \in T : ~ (<<y, x>> \in {ss \in Nat \X Nat : ss[1] < ss[2]})
  BY <1>1, <1>2, Zenon
<1>4. \A y \in T : ~(y < x)
  BY <1>3, Zenon
<1> QED
  BY <1>4

\* Induction: a set that contains 0 and every successor is Nat.
LEMMA Induct ==
  ASSUME NEW T \in SUBSET Nat, 0 \in T, \A m \in T : m + 1 \in T
  PROVE  T = Nat
<1> DEFINE U == Nat \ T
<1>1. SUFFICES ASSUME U # {} PROVE FALSE
  BY Zenon
<1>2. PICK m \in U : \A k \in U : m <= k
  BY <1>1, Least, Zenon
<1>3. m # 0 /\ m - 1 \in Nat /\ m - 1 \notin U
  BY <1>2
<1> QED
  BY <1>3

Route == [method : RouteMethods, path : Paths, prefix : BOOLEAN]

\* p holds what the loop of dispatch() knows after each route.
Turns(p, rs, rq) ==
  /\ Scan(rs, rq) = p[Len(rs)] /\ p[0] = [handler |-> 0, allow |-> <<>>]
  /\ \A i \in 1..Len(rs) : p[i] = Visit(rs, rq, p[i - 1], i)

\* The loop of dispatch() visits the routes one after the other.
LEMMA ScanTurns ==
  ASSUME NEW rs \in Seq(Route), NEW rq
  PROVE  \E p : Turns(p, rs, rq)
<1> DEFINE Pick(g, i) ==
             IF i = 0 THEN [handler |-> 0, allow |-> <<>>] ELSE Visit(rs, rq, g[i - 1], i)
           Rec(g, m) == g = [i \in 0..m |-> Pick(g, i)]
           M == {m \in Nat : \E g : Rec(g, m)}
<1>1. 0 \in M
  <2> DEFINE g == [i \in 0..0 |-> [handler |-> 0, allow |-> <<>>]]
  <2>1. Rec(g, 0)
    OBVIOUS
  <2> QED
    BY <2>1, Zenon
<1>2. ASSUME NEW m \in M PROVE m + 1 \in M
  <2>1. PICK g : Rec(g, m)
    OBVIOUS
  <2> DEFINE h == [i \in 0..(m + 1) |-> IF i <= m THEN g[i] ELSE Pick(g, m + 1)]
  <2>0. m \in Nat
    BY ZenonT(40)
  <2>2. ASSUME NEW i \in 0..(m + 1) PROVE h[i] = Pick(h, i)
    <3>1. CASE i = 0
      BY <2>0, <2>1, <3>1
    <3>2. CASE i # 0
      <4>1. i - 1 \in 0..m /\ h[i - 1] = g[i - 1]
        BY <2>0, <3>2
      <4>2. CASE i <= m
        <5>1. i \in 0..m /\ h[i] = g[i]
          BY <2>0, <4>2
        <5>2. g[i] = Pick(g, i)
          BY <2>1, <5>1, Zenon
        <5> QED
          BY <4>1, <5>1, <5>2, Zenon
      <4>3. CASE ~(i <= m)
        <5>1. i = m + 1 /\ h[i] = Pick(g, m + 1)
          BY <2>0, <4>3
        <5> QED
          BY <4>1, <5>1, Zenon
      <4> QED
        BY <4>2, <4>3, Zenon
    <3> QED
      BY <3>1, <3>2
  <2>3. Rec(h, m + 1)
    BY <2>2, Zenon
  <2>4. \E k : Rec(k, m + 1)
    <3> HIDE DEF h, Rec
    <3> QED
      BY <2>3
  <2> HIDE DEF Rec
  <2> QED
    BY <2>0, <2>4
<1>3. M = Nat
  <2>1. M \in SUBSET Nat
    OBVIOUS
  <2> HIDE DEF M
  <2> QED
    BY <1>1, <1>2, <2>1, Induct
<1> DEFINE p == CHOOSE g : Rec(g, Len(rs))
<1>4. Rec(p, Len(rs))
  <2>1. Len(rs) \in M
    BY <1>3
  <2>2. \E g : Rec(g, Len(rs))
    BY <2>1
  <2> HIDE DEF Rec
  <2> QED
    BY <2>2
<1>5. Scan(rs, rq) = p[Len(rs)]
  BY DEF Scan
<1>6. \A i \in 0..Len(rs) : p[i] = Pick(p, i)
  BY <1>4, Zenon
<1> HIDE DEF p, Rec
<1>7. p[0] = [handler |-> 0, allow |-> <<>>] /\ \A i \in 1..Len(rs) : p[i] = Visit(rs, rq, p[i - 1], i)
  BY <1>6
<1> QED
  BY <1>5, <1>7 DEF Turns

\* Some of the first k routes answers the path for this method.
Answers(rs, path, k, method) ==
  \E j \in 1..k : Matches(rs[j], path) /\ rs[j].method = Served(method)

\* Allow names each method once.
Once(allow) == \A k, l \in 1..Len(allow) : allow[k] = allow[l] => k = l

Names(allow, method) == \E k \in 1..Len(allow) : allow[k] = method

\* Allow fits the first k routes: it names what they answer, HEAD along with GET, and what
\* they answer is found in it.
Covers(allow, rs, path, k) ==
  /\ Once(allow)
  /\ \A m \in RequestMethods : Names(allow, m) => Answers(rs, path, k, m)
  /\ \A m, n \in RequestMethods : n = Served(m) => (Names(allow, m) <=> Names(allow, n))
  /\ \A m \in RequestMethods : Answers(rs, path, k, m) => Found(allow, Served(m))

\* What dispatch() knows after k routes.
Known(acc, rs, rq, k) ==
  /\ acc \in [handler : 0..k, allow : Seq(RequestMethods)]
  /\ acc.handler = 0 <=> ~Answers(rs, rq.path, k, rq.method)
  /\ acc.handler = 0 => Covers(acc.allow, rs, rq.path, k)

\* One more route: who answers.
LEMMA AnswersNext ==
  ASSUME NEW rs \in Seq(Route), NEW path, NEW k \in Nat, k + 1 <= Len(rs), NEW m
  PROVE  Answers(rs, path, k + 1, m) <=>
           Answers(rs, path, k, m) \/ (Matches(rs[k + 1], path) /\ rs[k + 1].method = Served(m))
<1>1. 1..(k + 1) = 1..k \cup {k + 1}
  OBVIOUS
<1> QED
  BY <1>1, Zenon DEF Answers

\* What is listed is the method of the route, and HEAD with GET.
LEMMA ListedFacts ==
  ASSUME NEW r \in Route
  PROVE  /\ Listed(r) \in Seq(RequestMethods) /\ Once(Listed(r))
         /\ \A m \in RequestMethods : Names(Listed(r), m) <=> r.method = Served(m)
<1>0. r.method \in RouteMethods /\ r.method # "HEAD" /\ r.method \in RequestMethods /\ "HEAD" \in RequestMethods
  BY RouterAssumption DEF Route, RequestMethods
<1>1. CASE r.method = "GET"
  <2>1. Listed(r) = <<"GET", "HEAD">> /\ Len(Listed(r)) = 2 /\ Listed(r)[1] = "GET" /\ Listed(r)[2] = "HEAD"
    BY <1>1 DEF Listed
  <2>2. Listed(r) \in Seq(RequestMethods)
    BY <1>0, <1>1, <2>1
  <2>3. 1..2 = {1, 2}
    OBVIOUS
  <2>4. "GET" # "HEAD"
    OBVIOUS
  <2>5. Once(Listed(r))
    BY <2>1, <2>3, <2>4 DEF Once
  <2>6. \A m \in RequestMethods : Names(Listed(r), m) <=> m = "GET" \/ m = "HEAD"
    BY <2>1, <2>3, Zenon DEF Names
  <2> QED
    BY <1>1, <2>2, <2>5, <2>6 DEF Served
<1>2. CASE r.method # "GET"
  <2>1. Listed(r) = <<r.method>> /\ Len(Listed(r)) = 1 /\ Listed(r)[1] = r.method
    BY <1>2 DEF Listed
  <2>2. Listed(r) \in Seq(RequestMethods)
    BY <1>0, <2>1
  <2>3. 1..1 = {1}
    OBVIOUS
  <2>5. Once(Listed(r))
    BY <2>1, <2>3 DEF Once
  <2>6. \A m \in RequestMethods : Names(Listed(r), m) <=> m = r.method
    BY <2>1, <2>3, Zenon DEF Names
  <2> QED
    BY <1>0, <1>2, <2>2, <2>5, <2>6 DEF Served
<1> QED
  BY <1>1, <1>2

\* Concatenation names what its parts name, and once if they share nothing.
LEMMA NamesConcat ==
  ASSUME NEW s \in Seq(RequestMethods), NEW t \in Seq(RequestMethods)
  PROVE  /\ s \o t \in Seq(RequestMethods)
         /\ \A m \in RequestMethods : Names(s \o t, m) <=> Names(s, m) \/ Names(t, m)
         /\ Once(s) /\ Once(t) /\ (\A m \in RequestMethods : ~(Names(s, m) /\ Names(t, m)))
              => Once(s \o t)
<1>1. /\ s \o t \in Seq(RequestMethods) /\ Len(s \o t) = Len(s) + Len(t) /\ Len(s) \in Nat /\ Len(t) \in Nat
      /\ \A k \in 1..Len(s \o t) : (s \o t)[k] = IF k <= Len(s) THEN s[k] ELSE t[k - Len(s)]
  OBVIOUS
<1>2. ASSUME NEW m \in RequestMethods PROVE Names(s \o t, m) <=> Names(s, m) \/ Names(t, m)
  <2>1. ASSUME Names(s \o t, m) PROVE Names(s, m) \/ Names(t, m)
    <3>1. PICK k \in 1..Len(s \o t) : (s \o t)[k] = m
      BY <2>1 DEF Names
    <3>2. CASE k <= Len(s)
      <4>1. k \in 1..Len(s) /\ s[k] = m
        BY <1>1, <3>1, <3>2
      <4> QED
        BY <4>1, Zenon DEF Names
    <3>3. CASE ~(k <= Len(s))
      <4>1. k - Len(s) \in 1..Len(t) /\ t[k - Len(s)] = m
        BY <1>1, <3>1, <3>3
      <4> QED
        BY <4>1, Zenon DEF Names
    <3> QED
      BY <3>2, <3>3
  <2>2. ASSUME Names(s, m) PROVE Names(s \o t, m)
    <3>1. PICK k \in 1..Len(s) : s[k] = m
      BY <2>2 DEF Names
    <3>2. k \in 1..Len(s \o t) /\ (s \o t)[k] = m
      BY <1>1, <3>1
    <3> QED
      BY <3>2, Zenon DEF Names
  <2>3. ASSUME Names(t, m) PROVE Names(s \o t, m)
    <3>1. PICK k \in 1..Len(t) : t[k] = m
      BY <2>3 DEF Names
    <3>2. k + Len(s) \in 1..Len(s \o t) /\ ~(k + Len(s) <= Len(s)) /\ k + Len(s) - Len(s) = k
      BY <1>1
    <3>3. (s \o t)[k + Len(s)] = m
      BY <1>1, <3>1, <3>2
    <3> QED
      BY <3>2, <3>3, Zenon DEF Names
  <2> QED
    BY <2>1, <2>2, <2>3
<1>3. ASSUME Once(s), Once(t), \A m \in RequestMethods : ~(Names(s, m) /\ Names(t, m)),
             NEW k \in 1..Len(s \o t), NEW l \in 1..Len(s \o t), (s \o t)[k] = (s \o t)[l], k <= l
      PROVE  k = l
  <2>1. CASE l <= Len(s)
    <3>1. k \in 1..Len(s) /\ l \in 1..Len(s) /\ s[k] = s[l]
      BY <1>1, <1>3, <2>1
    <3> QED
      BY <1>3, <3>1, Zenon DEF Once
  <2>2. CASE ~(l <= Len(s)) /\ k <= Len(s)
    <3>1. k \in 1..Len(s) /\ l - Len(s) \in 1..Len(t) /\ s[k] = t[l - Len(s)] /\ s[k] \in RequestMethods
      BY <1>1, <1>3, <2>2
    <3>2. Names(s, s[k]) /\ Names(t, s[k])
      BY <3>1, Zenon DEF Names
    <3> QED
      BY <1>3, <3>1, <3>2, Zenon
  <2>3. CASE ~(l <= Len(s)) /\ ~(k <= Len(s))
    <3>1. k - Len(s) \in 1..Len(t) /\ l - Len(s) \in 1..Len(t) /\ t[k - Len(s)] = t[l - Len(s)]
      BY <1>1, <1>3, <2>3
    <3>2. k - Len(s) = l - Len(s)
      BY <1>3, <3>1, Zenon DEF Once
    <3> QED
      BY <1>1, <3>2
  <2> QED
    BY <2>1, <2>2, <2>3
<1>4. ASSUME Once(s), Once(t), \A m \in RequestMethods : ~(Names(s, m) /\ Names(t, m))
      PROVE  Once(s \o t)
  <2> SUFFICES ASSUME NEW k \in 1..Len(s \o t), NEW l \in 1..Len(s \o t), (s \o t)[k] = (s \o t)[l]
               PROVE  k = l
    BY Zenon DEF Once
  <2>1. k <= l \/ l <= k
    BY <1>1
  <2> QED
    BY <1>3, <1>4, <2>1, Zenon
<1> QED
  BY <1>1, <1>2, <1>4

\* A name is found in Allow if it lies within one that is listed.
LEMMA FoundNames ==
  ASSUME NEW s \in Seq(RequestMethods), NEW m
  PROVE  Found(s, m) <=> \E n \in RequestMethods : Names(s, n) /\ <<m, n>> \in Within
<1>1. DOMAIN s = 1..Len(s) /\ \A k \in 1..Len(s) : s[k] \in RequestMethods
  OBVIOUS
<1> QED
  BY <1>1, Zenon DEF Found, Names

\* One turn of the loop keeps what is known right.
LEMMA VisitFacts ==
  ASSUME NEW rs \in Seq(Route), NEW rq, rq.method \in RequestMethods, NEW k \in Nat,
         k + 1 <= Len(rs), NEW acc, Known(acc, rs, rq, k)
  PROVE  Known(Visit(rs, rq, acc, k + 1), rs, rq, k + 1)
<1>0. PICK r : r = rs[k + 1]
  OBVIOUS
<1>1. r \in Route /\ r.method \in RouteMethods /\ r.method \in RequestMethods /\ Served(r.method) = r.method
  <2>1. r \in Route
    BY <1>0
  <2>2. r.method \in RouteMethods
    BY <2>1 DEF Route
  <2>3. r.method # "HEAD"
    BY <2>2, RouterAssumption
  <2> QED
    BY <2>1, <2>2, <2>3 DEF RequestMethods, Served
<1>2. \A m : Answers(rs, rq.path, k + 1, m) <=>
               Answers(rs, rq.path, k, m) \/ (Matches(r, rq.path) /\ r.method = Served(m))
  BY <1>0, AnswersNext, Zenon
<1>k. /\ acc \in [handler : 0..k, allow : Seq(RequestMethods)]
      /\ acc.handler = 0 <=> ~Answers(rs, rq.path, k, rq.method)
      /\ acc.handler = 0 => Covers(acc.allow, rs, rq.path, k)
  BY DEF Known
<1>t. acc.handler \in 0..k /\ acc.allow \in Seq(RequestMethods) /\ acc.handler \in 0..(k + 1)
  BY <1>k
<1>u. acc \in [handler : 0..(k + 1), allow : Seq(RequestMethods)]
  BY <1>k, <1>t
<1>3. CASE acc.handler # 0
  <2>1. Visit(rs, rq, acc, k + 1) = acc
    BY <1>3 DEF Visit
  <2>2. Answers(rs, rq.path, k + 1, rq.method)
    BY <1>2, <1>3, <1>k, Zenon
  <2> QED
    BY <1>3, <1>u, <2>1, <2>2, Zenon DEF Known
<1>4. CASE acc.handler = 0 /\ ~Matches(r, rq.path)
  <2>1. Visit(rs, rq, acc, k + 1) = acc
    BY <1>0, <1>4 DEF Visit
  <2>2. \A m : Answers(rs, rq.path, k + 1, m) <=> Answers(rs, rq.path, k, m)
    BY <1>2, <1>4, Zenon
  <2> QED
    BY <1>u, <1>k, <2>1, <2>2, Zenon DEF Known, Covers
<1>5. CASE acc.handler = 0 /\ Matches(r, rq.path) /\ r.method = Served(rq.method)
  <2>1. Visit(rs, rq, acc, k + 1) = [acc EXCEPT !.handler = k + 1]
    BY <1>0, <1>5 DEF Visit
  <2>2. Answers(rs, rq.path, k + 1, rq.method)
    BY <1>2, <1>5, Zenon
  <2>3. PICK b : b = Visit(rs, rq, acc, k + 1)
    OBVIOUS
  <2>4. b \in [handler : 0..(k + 1), allow : Seq(RequestMethods)] /\ b.handler # 0
    <3>1. k + 1 \in 0..(k + 1) /\ k + 1 # 0
      OBVIOUS
    <3>2. PICK h, H, A : h = k + 1 /\ H = 0..(k + 1) /\ A = Seq(RequestMethods)
      BY Zenon
    <3>3. acc \in [handler : H, allow : A] /\ h \in H
      BY <1>u, <3>1, <3>2, Zenon
    <3>4. b = [acc EXCEPT !.handler = h]
      BY <2>1, <2>3, <3>2, Zenon
    <3>5. b \in [handler : H, allow : A] /\ b.handler = h
      BY <3>3, <3>4
    <3> QED
      BY <3>1, <3>2, <3>5, Zenon
  <2> QED
    BY <2>2, <2>3, <2>4, Zenon DEF Known
<1>6. CASE acc.handler = 0 /\ Matches(r, rq.path) /\ r.method # Served(rq.method)
  <2>0. ~Answers(rs, rq.path, k + 1, rq.method)
    BY <1>2, <1>6, <1>k, Zenon
  <2>1. CASE Found(acc.allow, r.method)
    <3>1. Visit(rs, rq, acc, k + 1) = acc
      BY <1>0, <1>6, <2>1, Zenon DEF Visit
    <3>2. Covers(acc.allow, rs, rq.path, k + 1)
      BY <1>2, <1>6, <1>k, <2>1, Zenon DEF Covers
    <3> QED
      BY <1>6, <1>u, <2>0, <3>1, <3>2, Zenon DEF Known
  <2>2. CASE ~Found(acc.allow, r.method)
    <3>1. Visit(rs, rq, acc, k + 1) = [acc EXCEPT !.allow = @ \o Listed(r)]
      BY <1>0, <1>6, <2>2, Zenon DEF Visit
    <3>2. PICK a, t, b : a = acc.allow /\ t = Listed(r) /\ b = Visit(rs, rq, acc, k + 1)
      BY Zenon
    <3>3. /\ a \in Seq(RequestMethods) /\ t \in Seq(RequestMethods) /\ Once(a) /\ Once(t)
          /\ Covers(a, rs, rq.path, k)
          /\ \A m \in RequestMethods : Names(t, m) <=> r.method = Served(m)
      BY <1>1, <1>6, <1>k, <1>t, <3>2, ListedFacts, Zenon DEF Covers
    <3>4. ASSUME NEW m \in RequestMethods, Names(a, m), Names(t, m) PROVE FALSE
      <4>1. Names(a, r.method)
        BY <1>1, <3>3, <3>4, Zenon DEF Covers
      <4> QED
        BY <1>1, <2>2, <3>2, <3>3, <4>1, FoundNames, RouterAssumption, Zenon
    <3>5. /\ a \o t \in Seq(RequestMethods) /\ Once(a \o t)
          /\ \A m \in RequestMethods : Names(a \o t, m) <=> Names(a, m) \/ Names(t, m)
      BY <3>3, <3>4, NamesConcat, Zenon
    <3>6. Covers(a \o t, rs, rq.path, k + 1)
      <4>1. ASSUME NEW m \in RequestMethods, Names(a \o t, m) PROVE Answers(rs, rq.path, k + 1, m)
        BY <1>2, <1>6, <3>3, <3>5, <4>1, Zenon DEF Covers
      <4>2. ASSUME NEW m \in RequestMethods, NEW n \in RequestMethods, n = Served(m)
            PROVE  Names(a \o t, m) <=> Names(a \o t, n)
        <5>1. Served(n) = Served(m)
          BY <4>2 DEF Served
        <5> QED
          BY <3>3, <3>5, <4>2, <5>1, Zenon DEF Covers
      <4>3. ASSUME NEW m \in RequestMethods, Answers(rs, rq.path, k + 1, m)
            PROVE  Found(a \o t, Served(m))
        <5>1. CASE Found(a, Served(m))
          BY <3>3, <3>5, <5>1, FoundNames, Zenon
        <5>2. CASE r.method = Served(m)
          <6>1. Names(a \o t, r.method)
            BY <1>1, <3>3, <3>5, Zenon
          <6> QED
            BY <1>1, <3>5, <5>2, <6>1, FoundNames, RouterAssumption, Zenon
        <5> QED
          BY <1>2, <3>3, <4>3, <5>1, <5>2, Zenon DEF Covers
      <4> QED
        BY <3>5, <4>1, <4>2, <4>3, Zenon DEF Covers
    <3>7. b \in [handler : 0..(k + 1), allow : Seq(RequestMethods)] /\ b.handler = 0 /\ b.allow = a \o t
      BY <1>6, <1>u, <3>1, <3>2, <3>5, ZenonT(40)
    <3> QED
      BY <2>0, <3>2, <3>6, <3>7, Zenon DEF Known
  <2> QED
    BY <2>1, <2>2
<1> QED
  BY <1>3, <1>4, <1>5, <1>6

\* What dispatch() knows after all routes.
LEMMA ScanFacts ==
  ASSUME NEW rs \in Seq(Route), NEW rq, rq.method \in RequestMethods
  PROVE  Known(Scan(rs, rq), rs, rq, Len(rs))
<1>1. PICK p : Turns(p, rs, rq)
  BY ScanTurns, Zenon
<1>2. /\ Scan(rs, rq) = p[Len(rs)] /\ p[0] = [handler |-> 0, allow |-> <<>>]
      /\ \A i \in 1..Len(rs) : p[i] = Visit(rs, rq, p[i - 1], i)
  BY <1>1 DEF Turns
<1> DEFINE Good == {m \in Nat : m <= Len(rs) => Known(p[m], rs, rq, m)}
<1>3. 0 \in Good
  <2>1. 1..0 = {} /\ \A m : ~Answers(rs, rq.path, 0, m)
    BY DEF Answers
  <2>2. p[0] \in [handler : 0..0, allow : Seq(RequestMethods)] /\ p[0].handler = 0 /\ p[0].allow = <<>>
    BY <1>2
  <2>3. Once(p[0].allow) /\ \A m : ~Names(p[0].allow, m)
    BY <2>2 DEF Once, Names
  <2>4. Known(p[0], rs, rq, 0)
    BY <2>1, <2>2, <2>3, Zenon DEF Known, Covers
  <2> QED
    BY <2>4
<1>4. ASSUME NEW m \in Good PROVE m + 1 \in Good
  <2>1. m \in Nat /\ (m <= Len(rs) => Known(p[m], rs, rq, m))
    OBVIOUS
  <2>2. ASSUME m + 1 <= Len(rs) PROVE Known(p[m + 1], rs, rq, m + 1)
    <3>1. m <= Len(rs) /\ m + 1 \in 1..Len(rs) /\ m + 1 - 1 = m
      BY <2>1, <2>2
    <3>2. p[m + 1] = Visit(rs, rq, p[m], m + 1)
      BY <1>2, <3>1
    <3> QED
      BY <2>1, <2>2, <3>1, <3>2, VisitFacts
  <2> QED
    BY <2>1, <2>2
<1>5. Good = Nat
  <2>1. Good \in SUBSET Nat
    BY ZenonT(40)
  <2> HIDE DEF Good
  <2> QED
    BY <1>3, <1>4, <2>1, Induct
<1> QED
  BY <1>2, <1>5

\* A table with one route more: dispatch() looks at it last.
LEMMA ScanAppend ==
  ASSUME NEW rs \in Seq(Route), NEW r \in Route, NEW rq
  PROVE  Scan(Append(rs, r), rq) =
           Visit(Append(rs, r), rq, Scan(rs, rq), Len(rs) + 1)
<1>0. PICK q : q = Append(rs, r)
  BY ZenonT(40)
<1>1. /\ q \in Seq(Route) /\ Len(q) = Len(rs) + 1 /\ Len(rs) \in Nat
      /\ \A i \in 1..Len(rs) : q[i] = rs[i]
  BY <1>0
<1>2. PICK p : Turns(p, rs, rq)
  BY ScanTurns
<1>3. PICK g : Turns(g, q, rq)
  BY <1>1, ScanTurns, Zenon
<1>4. /\ Scan(rs, rq) = p[Len(rs)] /\ p[0] = [handler |-> 0, allow |-> <<>>]
      /\ \A i \in 1..Len(rs) : p[i] = Visit(rs, rq, p[i - 1], i)
  BY <1>2, Zenon DEF Turns
<1>5. /\ Scan(q, rq) = g[Len(q)] /\ g[0] = [handler |-> 0, allow |-> <<>>]
      /\ \A i \in 1..Len(q) : g[i] = Visit(q, rq, g[i - 1], i)
  BY <1>3, Zenon DEF Turns
<1> DEFINE Same == {m \in Nat : m <= Len(rs) => g[m] = p[m]}
<1>6. 0 \in Same
  BY <1>4, <1>5
<1>7. ASSUME NEW m \in Same PROVE m + 1 \in Same
  <2>1. m \in Nat /\ (m <= Len(rs) => g[m] = p[m])
    OBVIOUS
  <2>2. ASSUME m + 1 <= Len(rs) PROVE g[m + 1] = p[m + 1]
    <3> DEFINE j == m + 1
    <3>0. PICK l \in Nat : l = Len(rs) /\ Len(q) = l + 1
      BY <1>1, Zenon
    <3>a. m <= l /\ j \in 1..l /\ j \in 1..(l + 1) /\ j - 1 = m
      BY <2>1, <2>2, <3>0
    <3>1. j \in 1..Len(rs) /\ j \in 1..Len(q) /\ j - 1 = m /\ g[m] = p[m]
      BY <2>1, <3>0, <3>a, Zenon
    <3> HIDE DEF j
    <3>b. g[j] = Visit(q, rq, g[m], j) /\ p[j] = Visit(rs, rq, p[m], j)
      <4>1. g[j] = Visit(q, rq, g[j - 1], j) /\ p[j] = Visit(rs, rq, p[j - 1], j)
        BY <1>4, <1>5, <3>1, Zenon
      <4> QED
        BY <3>1, <4>1, Zenon
    <3>2. g[m + 1] = Visit(q, rq, g[m], m + 1) /\ p[m + 1] = Visit(rs, rq, p[m], m + 1)
      BY <3>b, Zenon DEF j
    <3>3. q[m + 1] = rs[m + 1]
      BY <1>1, <3>1, Zenon DEF j
    <3> QED
      BY <3>1, <3>2, <3>3, Zenon DEF Visit
  <2> QED
    BY <2>1, <2>2
<1>8. Same = Nat
  <2>1. Same \in SUBSET Nat
    OBVIOUS
  <2> HIDE DEF Same
  <2> QED
    BY <1>6, <1>7, <2>1, Induct
<1>9. g[Len(rs)] = p[Len(rs)]
  <2>1. PICK l \in Nat : l = Len(rs)
    BY <1>1, Zenon
  <2>2. l \in Same /\ l <= l
    <3>1. l \in Same
      BY <1>8, <2>1, Zenon
    <3>2. l <= l
      BY <2>1
    <3> QED
      BY <3>1, <3>2, Zenon
  <2> QED
    BY <2>1, <2>2, Zenon
<1>10. g[Len(rs) + 1] = Visit(q, rq, g[Len(rs)], Len(rs) + 1)
  BY <1>1, <1>5
<1> QED
  BY <1>0, <1>1, <1>4, <1>5, <1>9, <1>10

RouterInv == routes_ \in Seq(Route)

\* The table holds routes.
LEMMA RouterInvariant == RouterSpec => []RouterInv
<1>1. RouterInit => RouterInv
  BY DEF RouterInit, RouterInv
<1>2. RouterInv /\ [RouterNext]_routes_ => RouterInv'
  <2> SUFFICES ASSUME RouterInv, [RouterNext]_routes_ PROVE RouterInv'
    OBVIOUS
  <2>1. CASE RouterNext
    <3>1. PICK m \in RouteMethods, p \in Paths : add(m, p) \/ add_prefix(m, p)
      BY <2>1 DEF RouterNext
    <3>2. PICK r \in Route : routes_' = Append(routes_, r)
      <4>1. ASSUME NEW b \in BOOLEAN PROVE [method |-> m, path |-> p, prefix |-> b] \in Route
        BY DEF Route
      <4> QED
        BY <3>1, <4>1, Zenon DEF add, add_prefix
    <3> QED
      BY <3>2 DEF RouterInv
  <2>2. CASE UNCHANGED routes_
    BY <2>2 DEF RouterInv
  <2> QED
    BY <2>1, <2>2
<1> QED
  BY <1>1, <1>2, PTL DEF RouterSpec

\* d is the answer for a method and a path, allow what dispatch() has collected for it.
Replies(d, allow, path, m) ==
  /\ d = dispatch([path |-> path, method |-> m], FALSE)
  /\ allow = Scan(routes_, [path |-> path, method |-> m]).allow

\* The answer is right: a handler if some route has one, otherwise an Allow that fits.
Right(d, allow, path, m) ==
  /\ d.handler # 0 <=> Answers(routes_, path, Len(routes_), m)
  /\ d.handler # 0 => d.status = 200
  /\ d.handler = 0 => /\ allow \in Seq(RequestMethods) /\ Covers(allow, routes_, path, Len(routes_))
                      /\ d.status = (IF allow = <<>> THEN 404 ELSE 405)
                      /\ d.allow = allow

\* Whether dispatch() finds a handler, and what it answers if it does not.
LEMMA DispatchFacts ==
  ASSUME RouterInv, NEW path, NEW m \in RequestMethods, NEW d, NEW allow, Replies(d, allow, path, m)
  PROVE  Right(d, allow, path, m)
<1>1. PICK rq : rq = [path |-> path, method |-> m]
  BY Zenon
<1>2. rq.path = path /\ rq.method = m
  BY <1>1
<1>3. PICK s : s = Scan(routes_, rq)
  OBVIOUS
<1>4. routes_ \in Seq(Route)
  BY DEF RouterInv
<1>5. Known(s, routes_, rq, Len(routes_))
  BY <1>2, <1>3, <1>4, ScanFacts, Zenon
<1>6. /\ s \in [handler : 0..Len(routes_), allow : Seq(RequestMethods)]
      /\ s.handler = 0 <=> ~Answers(routes_, path, Len(routes_), m)
      /\ s.handler = 0 => Covers(s.allow, routes_, path, Len(routes_))
  BY <1>2, <1>5, Zenon DEF Known
<1>7. s.allow = allow
  BY <1>1, <1>3 DEF Replies
<1>8. CASE s.handler # 0
  <2>1. d = [status |-> 200, handler |-> s.handler, allow |-> <<>>]
    BY <1>1, <1>3, <1>8, Zenon DEF dispatch, Replies
  <2>2. d.status = 200 /\ d.handler = s.handler
    BY <2>1
  <2> QED
    BY <1>6, <1>8, <2>2, Zenon DEF Right
<1>9. CASE s.handler = 0
  <2>1. d = [status |-> IF allow = <<>> THEN 404 ELSE 405, handler |-> 0, allow |-> allow]
    BY <1>1, <1>3, <1>7, <1>9 DEF dispatch, Replies
  <2>2. d.status = (IF allow = <<>> THEN 404 ELSE 405) /\ d.handler = 0 /\ d.allow = allow
    BY <2>1
  <2>3. allow \in Seq(RequestMethods)
    BY <1>6, <1>7
  <2>4. Covers(allow, routes_, path, Len(routes_))
    BY <1>6, <1>7, <1>9, Zenon
  <2>5. ~Answers(routes_, path, Len(routes_), m)
    BY <1>6, <1>9, Zenon
  <2> QED
    BY <2>2, <2>3, <2>4, <2>5, ZenonT(40) DEF Right
<1> QED
  BY <1>8, <1>9

\* The answer to one request, given the methods that are handled.
Accurate(res, handled) ==
  /\ res.status = 404 <=> handled = {}
  /\ res.status = 405 =>
       /\ IsInjective(res.allow) /\ Range(res.allow) \subseteq handled
       /\ \A m \in handled \ Range(res.allow) :
            \E n \in Range(res.allow) \ {Served(m)} : <<Served(m), n>> \in Within

\* For every table, and whatever names lie within others: 404 is the answer exactly where no
\* method is handled, and Allow names, once each, methods the path does answer, leaving out
\* only those whose name is found within another that it lists (router.hpp).
THEOREM AllowIsAccurate == RouterSpec => []AllowAccurate
<1>1. RouterInv => AllowAccurate
  <2> SUFFICES ASSUME RouterInv, NEW path \in Paths, NEW method \in RequestMethods
               PROVE  Accurate(dispatch([path |-> path, method |-> method], FALSE),
                               {m \in RequestMethods :
                                  dispatch([path |-> path, method |-> m], FALSE).handler # 0})
    BY Zenon DEF AllowAccurate, Accurate
  <2> DEFINE Some(m) == Answers(routes_, path, Len(routes_), m)
  <2>0. PICK handled : handled = {m \in RequestMethods :
                                    dispatch([path |-> path, method |-> m], FALSE).handler # 0}
    BY Zenon
  <2>1. ASSUME NEW m \in RequestMethods
        PROVE  \E d, allow : Replies(d, allow, path, m) /\ Right(d, allow, path, m)
    <3>1. PICK d : d = dispatch([path |-> path, method |-> m], FALSE)
      BY Zenon
    <3>2. PICK allow : allow = Scan(routes_, [path |-> path, method |-> m]).allow
      OBVIOUS
    <3>3. Replies(d, allow, path, m)
      BY <3>1, <3>2, Zenon DEF Replies
    <3> QED
      BY <3>3, DispatchFacts, Zenon
  <2>2. \A m \in RequestMethods : m \in handled <=> Some(m)
    <3> TAKE m \in RequestMethods
    <3>1. PICK d, allow : Replies(d, allow, path, m) /\ Right(d, allow, path, m)
      BY <2>1, Zenon
    <3> QED
      BY <2>0, <3>1, Zenon DEF Replies, Right
  <2>3. PICK res, allow : Replies(res, allow, path, method) /\ Right(res, allow, path, method)
    BY <2>1, Zenon
  <2>e. /\ res.handler # 0 <=> Some(method)
        /\ res.handler # 0 => res.status = 200
        /\ res.handler = 0 => /\ allow \in Seq(RequestMethods)
                              /\ Covers(allow, routes_, path, Len(routes_))
                              /\ res.status = (IF allow = <<>> THEN 404 ELSE 405)
                              /\ res.allow = allow
    BY <2>3, Zenon DEF Right
  <2>r. res = dispatch([path |-> path, method |-> method], FALSE)
    BY <2>3, Zenon DEF Replies
  <2> HIDE DEF Some
  <2>4. CASE res.handler # 0
    <3>0. Some(method)
      BY <2>4, <2>e, ZenonT(40)
    <3>1. res.status = 200 /\ method \in handled
      BY <2>2, <2>4, <2>e, <3>0
    <3>2. res.status # 404 /\ res.status # 405
      BY <3>1
    <3>3. handled # {}
      BY <3>1, Zenon
    <3>4. Accurate(res, handled)
      BY <3>2, <3>3, Zenon DEF Accurate
    <3> QED
      BY <2>0, <2>r, <3>4, Zenon
  <2>5. CASE res.handler = 0
    <3>1. /\ allow \in Seq(RequestMethods) /\ res.allow = allow
          /\ res.status = (IF allow = <<>> THEN 404 ELSE 405)
      BY <2>5, <2>e, Zenon
    <3>2. /\ Once(allow)
          /\ \A m \in RequestMethods : Names(allow, m) => m \in handled
          /\ \A m, n \in RequestMethods : n = Served(m) => (Names(allow, m) <=> Names(allow, n))
          /\ \A m \in RequestMethods : m \in handled => Found(allow, Served(m))
      <4>1. Covers(allow, routes_, path, Len(routes_))
        BY <2>5, <2>e, Zenon
      <4>2. \A m \in RequestMethods : Names(allow, m) => m \in handled
        BY <2>2, <4>1, Zenon DEF Covers, Some
      <4>3. \A m \in RequestMethods : m \in handled => Found(allow, Served(m))
        BY <2>2, <4>1, Zenon DEF Covers, Some
      <4> QED
        BY <4>1, <4>2, <4>3, Zenon DEF Covers
    <3>3. DOMAIN allow = 1..Len(allow) /\ (allow = <<>> <=> Len(allow) = 0) /\ Len(allow) \in Nat
          /\ \A k \in 1..Len(allow) : allow[k] \in RequestMethods
      BY <3>1
    <3>4. \A m : m \in Range(allow) <=> m \in RequestMethods /\ Names(allow, m)
      BY <3>3, Zenon DEF Names, Range
    <3>5. Range(allow) \subseteq handled
      BY <3>2, <3>4, Zenon
    <3>6. ASSUME NEW m \in handled PROVE m \in RequestMethods /\ Served(m) \in RequestMethods
      <4>1. m \in RequestMethods /\ Some(m)
        BY <2>0, <2>2, Zenon
      <4>2. PICK j \in 1..Len(routes_) : routes_[j].method = Served(m)
        BY <4>1, Zenon DEF Some, Answers
      <4>3. routes_[j].method \in RouteMethods
        <5>1. routes_[j] \in Route
          BY <4>2 DEF RouterInv
        <5> QED
          BY <5>1 DEF Route
      <4> QED
        BY <4>1, <4>2, <4>3 DEF RequestMethods
    <3>7. ASSUME NEW m \in handled PROVE \E n \in Range(allow) : <<Served(m), n>> \in Within
      <4>1. Found(allow, Served(m))
        BY <3>2, <3>6, Zenon
      <4>2. PICK x : x = Served(m)
        BY Zenon
      <4>3. Found(allow, x)
        BY <4>1, <4>2, Zenon
      <4>4. PICK k \in DOMAIN allow : <<x, allow[k]>> \in Within
        BY <4>3, Zenon DEF Found
      <4>5. allow[k] \in Range(allow)
        BY <4>4, Zenon DEF Range
      <4> QED
        BY <4>2, <4>4, <4>5, Zenon
    <3>8. ASSUME NEW m \in handled, m \notin Range(allow) PROVE Served(m) \notin Range(allow)
      BY <3>2, <3>4, <3>6, <3>8, Zenon
    <3>9. \A m \in handled \ Range(allow) : \E n \in Range(allow) \ {Served(m)} : <<Served(m), n>> \in Within
      BY <3>7, <3>8, Zenon
    <3>10. IsInjective(allow)
      <4>1. Once(allow)
        BY <3>2, Zenon
      <4> QED
        BY <3>3, <4>1 DEF Once, IsInjective
    <3>11. allow = <<>> <=> handled = {}
      <4>1. ASSUME allow = <<>>, NEW m \in handled PROVE FALSE
        <5>1. \A n : n \notin Range(allow)
          BY <3>3, <4>1 DEF Range
        <5> QED
          BY <3>7, <5>1, Zenon
      <4>2. ASSUME allow # <<>> PROVE handled # {}
        <5>1. 1 \in 1..Len(allow)
          BY <3>3, <4>2
        <5>2. allow[1] \in Range(allow)
          BY <3>3, <5>1, Zenon DEF Range
        <5> QED
          BY <3>5, <5>2, Zenon
      <4> QED
        BY <4>1, <4>2, Zenon
    <3>12. (res.status = 404 <=> allow = <<>>) /\ res.allow = allow
      BY <3>1
    <3>13. Accurate(res, handled)
      <4>1. res.status = 404 <=> handled = {}
        BY <3>11, <3>12, Zenon
      <4>2. IsInjective(res.allow) /\ Range(res.allow) \subseteq handled
        BY <3>5, <3>10, <3>12, Zenon
      <4>3. \A m \in handled \ Range(res.allow) :
              \E n \in Range(res.allow) \ {Served(m)} : <<Served(m), n>> \in Within
        BY <3>9, <3>12, Zenon
      <4> QED
        BY <4>1, <4>2, <4>3, Zenon DEF Accurate
    <3> QED
      BY <2>0, <2>r, <3>13, Zenon
  <2> QED
    BY <2>4, <2>5, Zenon
<1> QED
  BY <1>1, RouterInvariant, PTL

\* For every table: registering a route never changes who answers a request that already
\* had a handler ("routes in registration order", router.hpp).
THEOREM EarlierRoutesWin == RouterSpec => FirstRegistered
<1>1. ASSUME RouterInv, RouterNext, NEW path \in Paths, NEW method \in RequestMethods, NEW rq,
             rq = [path |-> path, method |-> method], dispatch(rq, FALSE).handler # 0
      PROVE  dispatch(rq, FALSE)' = dispatch(rq, FALSE)
  <2>1. PICK r \in Route : routes_' = Append(routes_, r)
    <3>1. PICK m \in RouteMethods, p \in Paths : add(m, p) \/ add_prefix(m, p)
      BY <1>1 DEF RouterNext
    <3>2. ASSUME NEW b \in BOOLEAN PROVE [method |-> m, path |-> p, prefix |-> b] \in Route
      BY DEF Route
    <3> QED
      BY <3>1, <3>2, Zenon DEF add, add_prefix
  <2>2. PICK s : s = Scan(routes_, rq)
    OBVIOUS
  <2>3. s.handler # 0
    <3>1. ASSUME s.handler = 0 PROVE dispatch(rq, FALSE).handler = 0
      BY <2>2, <3>1 DEF dispatch
    <3> QED
      BY <1>1, <3>1, ZenonT(40)
  <2>4. Scan(routes_', rq) = Visit(routes_', rq, s, Len(routes_) + 1)
    BY <1>1, <2>1, <2>2, ScanAppend, Zenon DEF RouterInv
  <2>5. Scan(routes_', rq) = s
    BY <2>3, <2>4, Zenon DEF Visit
  <2>6. dispatch(rq, FALSE) = [status |-> 200, handler |-> s.handler, allow |-> <<>>]
    BY <2>2, <2>3, Zenon DEF dispatch
  <2>7. dispatch(rq, FALSE)' = [status |-> 200, handler |-> s.handler, allow |-> <<>>]
    BY <2>5, <2>3, Zenon DEF dispatch
  <2> QED
    BY <2>6, <2>7, Zenon
<1>2. RouterInv /\ [RouterNext]_routes_ =>
        [\A path \in Paths, method \in RequestMethods :
           LET rq == [path |-> path, method |-> method] IN
           dispatch(rq, FALSE).handler # 0 => dispatch(rq, FALSE)' = dispatch(rq, FALSE)]_routes_
  BY <1>1, Zenon
<1> QED
  BY <1>2, RouterInvariant, PTL DEF RouterSpec, FirstRegistered

=============================================================================
