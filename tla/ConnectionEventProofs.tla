----------------------- MODULE ConnectionEventProofs ------------------------
(***************************************************************************)
(* Proofs about the event loop's side of Connection: bounded buffers, no   *)
(* lost wake-up, and an orderly end, for every value of the constants.     *)
(***************************************************************************)
EXTENDS ConnectionProofs

-----------------------------------------------------------------------------
(* Bounded buffers.                                                        *)

OutBounded(x) ==
  \/ x <= LowWater + 1
  \/ x <= HighWater + 1
  \/ \E i \in 1..Len(script) : script[i].kind = "inline" /\ x <= HighWater + script[i].n

\* Less queued output is still bounded output.
LEMMA OutBoundedDown ==
  ASSUME script \in Scripts, script' = script, NEW x \in Int, NEW y \in Int,
         y <= x, OutBounded(x)
  PROVE  OutBounded(y)'
<1>1. CASE x <= LowWater + 1 \/ x <= HighWater + 1
  BY <1>1, ConstantsAssumption DEF OutBounded
<1>2. ASSUME NEW i \in 1..Len(script), script[i].kind = "inline", x <= HighWater + script[i].n
      PROVE  OutBounded(y)'
  <2>1. script[i].n \in Nat
    <3>1. script \in Seq(Request)
      BY ScriptsAssumption
    <3>2. script[i] \in Request
      BY <3>1
    <3>. QED
      BY <3>2 DEF Request
  <2>2. y <= HighWater + script'[i].n
    BY <2>1, <1>2, ConstantsAssumption
  <2>. QED
    BY <1>2, <2>2 DEF OutBounded
<1>. QED
  BY <1>1, <1>2 DEF OutBounded

\* The response to a request is inline for some request of the script.
LEMMA InlineBounded ==
  ASSUME script \in Scripts, script' = script, NEW i \in Nat \ {0},
         Req(i).kind = "inline", NEW x \in Int, x <= HighWater + Req(i).n
  PROVE  OutBounded(x)'
<1>1. script \in Seq(Request) /\ Len(script) \in Nat \ {0}
  BY ScriptsAssumption
<1>2. ((i - 1) % Len(script)) + 1 \in 1..Len(script)
  BY <1>1
<1>. QED
  BY <1>2, Zenon DEF OutBounded, Req

Longer(s, t, m) == Len(t) = Len(s) + m

\* Emit adds m units.
LEMMA EmitLength ==
  ASSUME NEW s \in Seq(Unit), NEW id \in Nat, NEW k \in Nat, NEW m \in Nat,
         NEW conn \in {"close", "keep-alive"}
  PROVE  Longer(s, Emit(s, id, k, m, conn), m)
<1> DEFINE e == [i \in 1..m |-> [id |-> id, k |-> k + i - 1, conn |-> conn]]
<1>1. e \in [1..m -> Unit]
  BY DEF Unit
<1>2. Emit(s, id, k, m, conn) = s \o e
  BY Zenon DEF Emit
<1> HIDE DEF e
<1>. QED
  BY <1>1, <1>2, ConcatFacts DEF Longer

BoundInv == in_len < MaxIn + ReadSize /\ OutBounded(out_pending)

\* Every step keeps the input buffer and the output queue within their bounds.
LEMMA NextBounded ==
  ASSUME FramingInv, BoundInv, Next
  PROVE  BoundInv'
<1>0. DataOK /\ ParserInv /\ script \in Scripts
  BY DEF FramingInv, TypeOK, DataOK
<1>1. script' = script
  BY ZenonT(40) DEF Next, Worker, Environment, ClientSend, ClientRead, ClientFin, ClientReset,
         FileTruncate, BeginDrain, Sweep, Wake, DoRead, ProcessLoop, Feed, NeedInput,
         QueueError, Dispatch, DoWrite, DriveTurn, Linger, CloseConnection, CloseSocket,
         outside, clientVars
<1>2. DataOK' /\ out_pending' \in Int /\ out_pending \in Int
  <2>1. DataOK'
    BY NextFraming DEF FramingInv, TypeOK
  <2>2. sent \in Nat /\ sent' \in Nat /\ hist \in Seq(Unit) /\ hist' \in Seq(Unit)
    BY <1>0, <2>1 DEF DataOK
  <2>3. Len(hist) \in Nat /\ Len(hist') \in Nat
    BY <2>2
  <2>. QED
    BY <2>1, <2>2, <2>3 DEF out_pending
<1>3. in_len' < MaxIn + ReadSize
  <2> USE <1>0, ConstantsAssumption DEF DataOK
  <2>1. CASE DoRead
    <3>1. CASE RecvData
      BY <3>1 DEF RecvData, ReadAllowed, Smaller
    <3>2. CASE ~RecvData
      BY <2>1, <3>2 DEF DoRead, RecvEof, RecvAgain, RecvError, ReadDone, BoundInv
    <3>. QED
      BY <3>1, <3>2
  <2>2. CASE Feed
    <3>0. Req(cur) \in Request
      BY ReqType
    <3>1. Req(cur).line \in Nat /\ Req(cur).fields \in Nat
      BY <3>0 DEF Request
    <3>2. CASE FeedBlankLine \/ FeedRequestLine
      BY <3>1, <3>2 DEF FeedBlankLine, FeedRequestLine, BoundInv
    <3>3. CASE FeedHeaders
      BY <3>1, <3>3 DEF FeedHeaders, BoundInv
    <3>4. CASE FeedBody
      BY <3>4 DEF FeedBody, Smaller, BoundInv
    <3>. QED
      BY <2>2, <3>2, <3>3, <3>4 DEF Feed
  <2>3. CASE ~DoRead /\ ~Feed
    <3>1. UNCHANGED in_len
      BY <2>3, ZenonT(40)
         DEF Next, Worker, Environment, ClientSend, ClientRead, ClientFin, ClientReset,
             FileTruncate, BeginDrain, Sweep, Wake, ProcessLoop, NeedInput, QueueError,
             Dispatch, DoWrite, DriveTurn, Linger, CloseConnection, CloseSocket, server,
             parserVars
    <3>. QED
      BY <3>1 DEF BoundInv
  <2>. QED
    BY <2>1, <2>2, <2>3
<1>4. OutBounded(out_pending)'
  <2>0. /\ sent \in Nat /\ hist \in Seq(Unit) /\ Len(hist) \in Nat /\ cur \in Nat \ {0}
        /\ OutBounded(out_pending)
        /\ HighWater \in Nat \ {0} /\ LowWater \in Nat \ {0} /\ left \in Nat
    BY <1>0, ConstantsAssumption DEF DataOK, BoundInv
  <2>1. CASE out_pending' <= out_pending
    BY <1>0, <1>1, <1>2, <2>0, <2>1, OutBoundedDown DEF out_pending
  <2>2. CASE NeedInput
    <3>1. hist' = hist \/ Longer(hist, hist', 1)
      BY <2>0, <2>2, EmitLength DEF NeedInput
    <3>2. out_pending' <= HighWater + 1
      BY <1>0, <2>0, <2>2, <3>1 DEF ParserInv, NeedInput, Longer, out_pending
    <3>. QED
      BY <3>2 DEF OutBounded
  <2>3. CASE QueueError
    <3>1. Longer(hist, hist', 2)
      BY <2>0, <2>3, EmitLength DEF QueueError
    <3>2. out_pending' <= HighWater + 1
      BY <1>0, <2>0, <2>3, <3>1 DEF ParserInv, QueueError, Longer, out_pending
    <3>. QED
      BY <3>2 DEF OutBounded
  <2>4. CASE Dispatch
    <3> DEFINE inline == IF HasBody(Req(cur)) /\ Req(cur).kind = "inline" THEN Req(cur).n ELSE 0
               conn == ConnectionHeader(~KeepAlive(Req(cur)) \/ Framing(Req(cur)) = "CloseDelimited")
    <3>0. /\ hist' = Emit(hist, cur, 1, 1 + inline, conn) /\ conn \in {"close", "keep-alive"}
          /\ pc = "feed" /\ sent' = sent
      BY <2>4 DEF Dispatch, ConnectionHeader
    <3>1. Req(cur) \in Request
      BY <1>0, <2>0, ReqType
    <3>2. inline \in Nat
      BY <3>1 DEF Request
    <3>3. inline = 0 \/ (Req(cur).kind = "inline" /\ inline = Req(cur).n)
      OBVIOUS
    <3> HIDE DEF inline, conn
    <3>4. Longer(hist, hist', 1 + inline)
      BY <2>0, <3>0, <3>2, EmitLength
    <3>5. out_pending' <= HighWater + inline
      BY <1>0, <2>0, <3>0, <3>2, <3>4 DEF ParserInv, Longer, out_pending
    <3>6. CASE inline = 0
      BY <3>5, <3>6, <1>2, <2>0 DEF OutBounded
    <3>7. CASE Req(cur).kind = "inline" /\ inline = Req(cur).n
      BY <1>0, <1>1, <1>2, <2>0, <3>5, <3>7, InlineBounded DEF out_pending
    <3>. QED
      BY <3>3, <3>6, <3>7
  <2>5. CASE DoWrite
    <3> DEFINE conn == ConnectionHeader(close_after_write)
    <3>0. conn \in {"close", "keep-alive"}
      BY DEF ConnectionHeader
    <3>1. CASE Send
      <4>1. /\ sent' = sent + Smaller(out_pending, Free) /\ hist' = hist
            /\ out_pending \in Nat /\ Free \in Nat
        BY <1>0, <3>1, ConstantsAssumption DEF Send, DataOK, out_pending, Free
      <4>2. sent' >= sent /\ sent' \in Nat
        BY <2>0, <4>1 DEF Smaller
      <4>. QED
        BY <2>0, <2>1, <4>1, <4>2 DEF out_pending
    <3>2. CASE WriteError \/ RefillFails
      <4>1. out_pending' = out_pending
        BY <3>2 DEF WriteError, RefillFails, out_pending, outVars
      <4>. QED
        BY <1>2, <2>1, <4>1
    <3>3. CASE SendFile \/ Refill \/ RefillShort
      <4>1. body_source_active /\ out_pending = 0 /\ sent = Len(hist)
        BY <1>0, <3>3
           DEF SendFile, Refill, RefillShort, RefillAllowed, body_source_active, out_pending,
               DataOK
      <4>2. Req(cur - 1) \in Request /\ cur - 1 \in Nat /\ left <= Req(cur - 1).n
        BY <1>0, <4>1, ReqType DEF FramingInv, SourceInv, DataOK
      <4>3. NextK \in Nat
        BY <2>0, <4>2 DEF NextK, Request
      <4>4. CASE SendFile
        <5> DEFINE n == Smaller(Smaller(Smaller(left, SendfileMax), avail), Free)
        <5>1. hist' = Emit(hist, cur - 1, NextK, n, conn) /\ sent' = sent + n
          BY <4>4 DEF SendFile
        <5>2. n \in Nat
          BY <1>0, ConstantsAssumption DEF DataOK, Smaller, Free
        <5> HIDE DEF n, conn
        <5>3. Longer(hist, hist', n)
          BY <2>0, <3>0, <4>2, <4>3, <5>1, <5>2, EmitLength
        <5>. QED
          BY <1>2, <2>0, <2>1, <5>1, <5>2, <5>3 DEF Longer, out_pending
      <4>5. CASE Refill \/ RefillShort
        <5>1. PICK m \in 0..(LowWater + 1) :
                hist' = Emit(hist, cur - 1, NextK, m, conn) /\ sent' = sent
          <6>1. CASE Refill
            <7> DEFINE m == Smaller(LowWater, left)
            <7>1. m \in 0..LowWater
              BY <2>0 DEF Smaller
            <7>2. PICK a \in {0, 1} : hist' = Emit(hist, cur - 1, NextK, m + a, conn)
              BY <6>1 DEF Refill
            <7>3. m + a \in 0..(LowWater + 1) /\ sent' = sent
              BY <2>0, <6>1, <7>1, <7>2 DEF Refill
            <7>. QED
              BY <7>2, <7>3
          <6>2. CASE RefillShort
            <7>1. PICK m \in 0..Smaller(LowWater, left - 1) :
                    hist' = Emit(hist, cur - 1, NextK, m, conn) /\ sent' = sent
              BY <6>2 DEF RefillShort
            <7>2. m \in 0..(LowWater + 1)
              BY <2>0, <7>1 DEF Smaller
            <7>. QED
              BY <7>1, <7>2
          <6>. QED
            BY <4>5, <6>1, <6>2
        <5> HIDE DEF conn
        <5>2. Longer(hist, hist', m)
          BY <2>0, <3>0, <4>2, <4>3, <5>1, EmitLength
        <5>3. out_pending' <= LowWater + 1
          BY <2>0, <4>1, <5>1, <5>2 DEF Longer, out_pending
        <5>. QED
          BY <5>3 DEF OutBounded
      <4>. QED
        BY <3>3, <4>4, <4>5
    <3>. QED
      BY <2>5, <3>1, <3>2, <3>3 DEF DoWrite
  <2>6. CASE ~NeedInput /\ ~QueueError /\ ~Dispatch /\ ~DoWrite
    <3>1. UNCHANGED <<hist, sent>>
      BY <2>6, ZenonT(40)
         DEF Next, Worker, Environment, ClientSend, ClientRead, ClientFin, ClientReset,
             FileTruncate, BeginDrain, Sweep, Wake, DoRead, ProcessLoop, Feed, DriveTurn,
             Linger, CloseConnection, CloseSocket, server, outVars
    <3>. QED
      BY <1>2, <2>1, <3>1 DEF out_pending
  <2>. QED
    BY <2>2, <2>3, <2>4, <2>5, <2>6
<1>. QED
  BY <1>3, <1>4 DEF BoundInv

\* Whatever the client sends and however slowly it reads, the input buffer holds
\* less than max_in_buffer_ plus one read, and the output queue no more than the
\* high-water mark and the largest inline response.
THEOREM BuffersAreBounded == Spec => []BuffersBounded
<1>1. Init => BoundInv
  BY ConstantsAssumption DEF Init, BoundInv, OutBounded, out_pending
<1>2. FramingInv /\ BoundInv /\ [Next]_vars => BoundInv'
  <2> SUFFICES ASSUME FramingInv, BoundInv, UNCHANGED vars PROVE BoundInv'
    BY NextBounded
  <2>. QED
    BY DEF BoundInv, OutBounded, out_pending, vars, outside, clientVars, server, parserVars,
           outVars
<1>3. BoundInv => BuffersBounded
  BY DEF BoundInv, OutBounded, BuffersBounded
<1>. QED
  BY <1>1, <1>2, <1>3, InitFraming, NextFraming, PTL DEF Spec

\* What the kernel remembers and what the worker believes about the socket: a
\* direction believed blocked is blocked, or an event for it is queued, or a
\* truncated file was taken for a full socket.
KernelInv ==
  pc # "closed" =>
    /\ nospace => ~Writable
    /\ ~can_write => nospace \/ armed \/ Truncated
    /\ ~can_read => ~Readable \/ armed
    /\ rst => can_write \/ armed

\* A turn of drive() that made no progress so far found nothing to do in the
\* phases that it has finished; the worker leaves after such a turn.
TurnInv ==
  /\ pc \in {"process", "feed", "write"} /\ ~progress => ~ReadAllowed
  /\ pc = "write" /\ ~progress => ~(ProcessAllowed /\ FeedReady)
  /\ pc = "wait" =>
       IF has_output THEN ~can_write
       ELSE /\ ~close_after_write /\ ~FeedReady
            /\ ~can_read \/ (armed /\ sent = 0)

\* A connection that ends in an orderly way has nothing left to send.
EndInv ==
  /\ why # "open" => pc \in {"linger", "close", "closed"}
  /\ OrderlyClose

-----------------------------------------------------------------------------
(* The orderly end.                                                        *)

\* Output and body source change only while the connection is open, and it ends
\* in an orderly way only when both are empty.
LEMMA NextEnd ==
  ASSUME TypeOK, EndInv, Next
  PROVE  EndInv'
<1>0. /\ why # "open" => pc \in {"linger", "close", "closed"}
      /\ why \in {"finished", "eof", "drained"} => ~has_output
      /\ out_pending \in Nat
  BY DEF EndInv, OrderlyClose, has_output, TypeOK, DataOK, out_pending
<1>1. CASE pc \in {"linger", "close", "closed"}
  <2>1. UNCHANGED <<why, hist, sent, body_src>> /\ pc' \in {"linger", "close", "closed"}
    BY <1>1, ZenonT(40)
       DEF Next, Worker, Environment, ClientSend, ClientRead, ClientFin, ClientReset,
           FileTruncate, BeginDrain, Sweep, Wake, DoRead, ProcessLoop, Feed, NeedInput,
           QueueError, Dispatch, DoWrite, DriveTurn, Linger, CloseConnection, CloseSocket,
           server, outVars, srcVars
  <2>. QED
    BY <2>1 DEF EndInv, OrderlyClose, out_pending, body_source_active
<1>2. CASE pc \notin {"linger", "close", "closed"}
  <2>0. why = "open"
    BY <1>0, <1>2
  <2>1. CASE DriveTurn \/ Sweep
    <3>1. UNCHANGED <<hist, sent, body_src>>
      BY <2>1 DEF DriveTurn, Sweep, CloseSocket, outVars, srcVars
    <3>2. /\ why' # "open" => pc' \in {"linger", "close", "closed"}
          /\ why' \in {"finished", "eof", "drained"} => ~has_output
      BY <2>0, <2>1 DEF DriveTurn, Sweep, CloseSocket, Idle
    <3>. QED
      BY <1>0, <3>1, <3>2
         DEF EndInv, OrderlyClose, out_pending, body_source_active, has_output
  <2>2. CASE ~DriveTurn /\ ~Sweep
    <3>1. why' = "open" \/ (why' \in {"error", "aborted"} /\ pc' = "close")
      BY <2>0, <2>2, <1>2, ZenonT(40)
         DEF Next, Worker, Environment, ClientSend, ClientRead, ClientFin, ClientReset,
             FileTruncate, BeginDrain, Wake, DoRead, RecvData, RecvEof, RecvAgain, RecvError,
             ReadDone, ProcessLoop, Feed, NeedInput, QueueError, Dispatch, DoWrite, Send,
             SendFile, WriteError, Refill, RefillShort, RefillFails, Linger, CloseConnection,
             server
    <3>. QED
      BY <3>1 DEF EndInv, OrderlyClose
  <2>. QED
    BY <2>1, <2>2
<1>. QED
  BY <1>1, <1>2

\* A connection that ends because it was idle during a drain, because its last
\* response was written, or because the client half-closed, has handed every unit
\* to the kernel: sweep() and drive() drop no output on these paths.
THEOREM EndIsOrderly == Spec => []OrderlyClose
<1>1. Init => EndInv
  BY DEF Init, EndInv, OrderlyClose
<1>2. TypeOK /\ EndInv /\ [Next]_vars => EndInv'
  <2> SUFFICES ASSUME EndInv, UNCHANGED vars PROVE EndInv'
    BY NextEnd
  <2>. QED
    BY DEF EndInv, OrderlyClose, out_pending, body_source_active, vars, server, outVars, srcVars
<1>3. EndInv => OrderlyClose
  BY DEF EndInv
<1>. QED
  BY <1>1, <1>2, <1>3, FramingCorrect, PTL DEF Spec

-----------------------------------------------------------------------------
(* No lost wake-up.                                                        *)

\* What the worker believes about the socket stays true, or an event is queued.
LEMMA NextKernel ==
  ASSUME TypeOK, ParserInv, KernelInv, Next
  PROVE  KernelInv'
<1>0. /\ klen \in Nat /\ acked \in Nat /\ sent \in Nat /\ acked <= sent
      /\ sent - acked <= SndBuf /\ SndBuf \in Nat /\ LowWat \in 1..SndBuf
      /\ Free \in Nat /\ avail \in Nat /\ left \in Nat /\ out_pending \in Nat
  BY ConstantsAssumption DEF TypeOK, DataOK, Free, out_pending
<1>1. CASE ClientSend \/ ClientFin \/ ClientReset
  BY <1>1
     DEF ClientSend, ClientFin, ClientReset, server, flagVars, outVars, srcVars, KernelInv,
         Writable, Readable, Free, Truncated
<1>2. CASE ClientRead
  <2>1. /\ UNCHANGED <<pc, can_read, can_write, klen, fin, rst, sent>>
        /\ Free' = Free + 1 /\ Writable' = (Free + 1 >= LowWat) /\ Truncated' = Truncated
    BY <1>0, <1>2
       DEF ClientRead, server, flagVars, outVars, srcVars, clientVars, Free, Writable, Truncated
  <2>2. \/ nospace /\ Free + 1 >= LowWat /\ armed' /\ ~nospace'
        \/ ~(nospace /\ Free + 1 >= LowWat) /\ UNCHANGED <<armed, nospace>>
    BY <1>2 DEF ClientRead
  <2>. QED
    BY <2>1, <2>2, ZenonT(40) DEF KernelInv, Readable
<1>3. CASE Wake
  <2>1. /\ UNCHANGED <<klen, fin, rst, sent, acked>> /\ ~armed' /\ pc = "wait"
        /\ nospace' = (nospace \/ ~(Writable \/ rst))
        /\ \/ /\ can_read' = (can_read \/ Readable)
              /\ can_write' = (can_write \/ Writable \/ rst)
           \/ ~Readable /\ ~Writable /\ UNCHANGED <<can_read, can_write>>
    BY <1>3 DEF Wake, outside, clientVars, outVars
  <2>2. Writable' = Writable /\ Readable' = Readable
    BY <2>1 DEF Writable, Readable, Free
  <2>3. Truncated' = Truncated
    BY <1>3 DEF Wake, srcVars, Truncated
  <2>. QED
    BY <2>1, <2>2, <2>3, ZenonT(40) DEF KernelInv, Readable
<1>4. CASE DoRead
  <2>1. /\ UNCHANGED <<fin, rst, sent, acked, nospace, armed, can_write>> /\ pc = "read"
    BY <1>4 DEF DoRead, outside, clientVars, outVars
  <2>2. klen' \in 0..klen
    <3>1. CASE RecvData
      BY <1>0, <3>1, ConstantsAssumption DEF RecvData, Smaller
    <3>2. CASE RecvEof \/ RecvAgain \/ RecvError \/ ReadDone
      BY <1>0, <3>2 DEF RecvEof, RecvAgain, RecvError, ReadDone
    <3>. QED
      BY <1>4, <3>1, <3>2 DEF DoRead
  <2>3. UNCHANGED can_read \/ (~Readable /\ UNCHANGED klen)
    BY <1>4 DEF DoRead, RecvData, RecvEof, RecvAgain, RecvError, ReadDone
  <2>4. Writable' = Writable /\ (~Readable => ~Readable')
    BY <1>0, <2>1, <2>2 DEF Writable, Readable, Free
  <2>5. Truncated' = Truncated
    BY <1>4 DEF DoRead, srcVars, Truncated
  <2>. QED
    BY <2>1, <2>3, <2>4, <2>5 DEF KernelInv
<1>5. CASE DoWrite
  <2>0. /\ UNCHANGED <<klen, fin, rst, acked, armed, can_read>> /\ pc = "write"
        /\ Readable' = Readable
    BY <1>5 DEF DoWrite, outside, clientVars, Readable
  <2>1. CASE Send
    <3>0. Truncated' = Truncated
      BY <2>1 DEF Send, Truncated
    <3>1. CASE Free < out_pending
      <4>1. sent' = sent + Free /\ ~can_write' /\ nospace' /\ ~rst
        BY <1>0, <2>1, <3>1 DEF Send, Smaller
      <4>2. ~Writable'
        BY <1>0, <2>0, <4>1 DEF Writable, Free
      <4>. QED
        BY <2>0, <3>0, <4>1, <4>2 DEF KernelInv
    <3>2. CASE Free >= out_pending
      <4>1. /\ sent' = sent + out_pending /\ UNCHANGED <<can_write, nospace>>
        BY <1>0, <2>1, <3>2 DEF Send, Smaller
      <4>2. Writable' => Writable
        BY <1>0, <2>0, <4>1 DEF Writable, Free
      <4>. QED
        BY <2>0, <3>0, <4>1, <4>2 DEF KernelInv
    <3>. QED
      BY <1>0, <3>1, <3>2
  <2>2. CASE SendFile
    <3> DEFINE want == Smaller(left, SendfileMax)
               m == Smaller(want, avail)
               n == Smaller(m, Free)
    <3>1. /\ sent' = sent + n /\ can_write' = (n = left \/ n = want) /\ ~rst
          /\ nospace' = (nospace \/ Free < m)
          /\ left' = left - n /\ avail' = avail - n
          /\ body_src' = IF n = left THEN "none" ELSE "file"
      BY <2>2 DEF SendFile
    <3>2. want \in Nat /\ want <= left
      BY <1>0, ConstantsAssumption DEF Smaller
    <3>3. m \in Nat /\ m <= want /\ m <= avail /\ (m = want \/ m = avail)
      <4> HIDE DEF want
      <4>. QED
        BY <1>0, <3>2 DEF Smaller
    <3>4. n \in Nat /\ (Free < m => n = Free) /\ (~(Free < m) => n = m)
      <4> HIDE DEF m
      <4>. QED
        BY <1>0, <3>3 DEF Smaller
    <3> HIDE DEF n, m, want
    <3>5. Writable' => Writable /\ ~(Free < m)
      BY <1>0, <2>0, <3>1, <3>4 DEF Writable, Free
    <3>6. CASE Free < m
      <4>1. nospace' /\ ~Writable'
        BY <3>1, <3>5, <3>6, ZenonT(40)
      <4>. QED
        BY <2>0, <3>1, <4>1 DEF KernelInv
    <3>7. CASE ~(Free < m) /\ m = want
      <4>1. can_write' /\ (nospace' => nospace)
        BY <3>1, <3>4, <3>7, ZenonT(40)
      <4>. QED
        BY <2>0, <3>1, <3>5, <4>1 DEF KernelInv
    <3>8. CASE ~(Free < m) /\ m # want
      <4>1. n = avail /\ n < left
        BY <1>0, <3>2, <3>3, <3>4, <3>8
      <4>2. Truncated'
        BY <1>0, <3>1, <4>1 DEF Truncated
      <4>3. nospace' => nospace
        BY <3>1, <3>8, ZenonT(40)
      <4>. QED
        BY <2>0, <3>1, <3>5, <4>2, <4>3 DEF KernelInv
    <3>. QED
      BY <3>6, <3>7, <3>8
  <2>3. CASE WriteError \/ Refill \/ RefillShort \/ RefillFails
    <3>1. UNCHANGED <<sent, nospace, can_write>> /\ can_write
      BY <2>3 DEF WriteError, Refill, RefillShort, RefillFails, RefillAllowed, WriteAllowed, outVars
    <3>. QED
      BY <2>0, <3>1 DEF KernelInv, Writable, Free
  <2>. QED
    BY <1>5, <2>1, <2>2, <2>3 DEF DoWrite
<1>6. CASE Linger
  <2>1. /\ UNCHANGED <<fin, rst, sent, acked, nospace, armed, can_read, can_write>>
        /\ pc = "linger" /\ klen' \in {klen, 0}
    BY <1>6 DEF Linger, outside, clientVars, outVars, flagVars
  <2>2. Writable' = Writable /\ (~Readable => ~Readable')
    BY <1>0, <2>1 DEF Writable, Readable, Free
  <2>3. Truncated' = Truncated
    BY <1>6 DEF Linger, srcVars, Truncated
  <2>. QED
    BY <2>1, <2>2, <2>3 DEF KernelInv
<1>7. CASE CloseConnection \/ Sweep
  BY <1>7 DEF CloseConnection, Sweep, CloseSocket, KernelInv
<1>8. CASE \/ ProcessLoop \/ Feed \/ NeedInput \/ QueueError \/ Dispatch \/ DriveTurn
           \/ FileTruncate \/ BeginDrain
  <2>1. UNCHANGED <<klen, fin, rst, sent, acked, nospace, armed, can_read, can_write>>
    BY <1>8, ZenonT(40)
       DEF ProcessLoop, Feed, NeedInput, QueueError, Dispatch, DriveTurn, FileTruncate,
           BeginDrain, outside, clientVars, outVars, flagVars, server
  <2>2. pc' # "closed" => pc # "closed"
    BY <1>8, ZenonT(40)
       DEF ProcessLoop, Feed, NeedInput, QueueError, Dispatch, DriveTurn, FileTruncate,
           BeginDrain, server
  <2>3. Truncated => Truncated'
    <3>1. CASE Dispatch
      BY <3>1 DEF Dispatch, ParserInv, body_source_active, Truncated
    <3>2. CASE FileTruncate
      BY <1>0, <3>2, SMTT(30) DEF FileTruncate, Truncated
    <3>3. CASE ProcessLoop \/ Feed \/ NeedInput \/ QueueError \/ DriveTurn \/ BeginDrain
      BY <3>3
         DEF ProcessLoop, Feed, NeedInput, QueueError, DriveTurn, BeginDrain, server, srcVars,
             Truncated
    <3>. QED
      BY <1>8, <3>1, <3>2, <3>3, SMTT(30)
  <2>. QED
    BY <2>1, <2>2, <2>3 DEF KernelInv, Writable, Readable, Free
<1>. QED
  BY <1>1, <1>2, <1>3, <1>4, <1>5, <1>6, <1>7, <1>8 DEF Next, Worker, Environment

\* A full input buffer holds a complete line, or body bytes; and feed() never acts
\* on an empty buffer.
LEMMA BufferReady ==
  ASSUME DataOK
  PROVE  /\ in_len >= MaxIn /\ state \notin {"Done", "Error"} => FeedReady
         /\ FeedReady => in_len > 0
<1>1. Req(cur) \in Request /\ in_len \in Nat /\ MaxIn \in Nat \ {0}
  BY ReqType, ConstantsAssumption DEF DataOK
<1>2. Req(cur).line \in 1..MaxIn /\ Req(cur).fields \in 1..MaxIn
  BY <1>1 DEF Request
<1>3. state \in {"RequestLine", "Headers", "Body", "Done", "Error"} /\ blank \in Nat
  BY DEF DataOK
<1>4. in_len >= MaxIn /\ state \notin {"Done", "Error"} => FeedReady
  BY <1>1, <1>2, <1>3 DEF FeedReady
<1>5. FeedReady => in_len > 0
  BY <1>1, <1>2, <1>3 DEF FeedReady
<1>. QED
  BY <1>4, <1>5

\* A turn without progress leaves nothing to read, to parse or to write.
LEMMA NextTurn ==
  ASSUME FramingInv, TurnInv, Next
  PROVE  TurnInv'
<1>0. DataOK /\ FlagsOK /\ ParserInv /\ SourceInv
  BY DEF FramingInv, TypeOK
<1>1. /\ sent \in Nat /\ acked \in Nat /\ acked <= sent /\ SndBuf \in Nat
      /\ LowWat \in 1..SndBuf /\ Free \in Nat /\ out_pending \in Nat
      /\ HighWater \in Nat \ {0}
  BY <1>0, ConstantsAssumption DEF DataOK, Free, out_pending
<1>2. CASE \/ ClientSend \/ ClientRead \/ ClientFin \/ ClientReset \/ FileTruncate
           \/ BeginDrain
  <2>1. /\ UNCHANGED <<script, pc, progress, parserVars, hist, sent, body_src, can_read,
                       can_write, peer_closed, close_after_write>>
        /\ armed => armed'
    <3>1. CASE ClientSend \/ ClientRead \/ ClientReset
      BY <3>1 DEF ClientSend, ClientRead, ClientReset, clientVars, server, outVars, srcVars, flagVars
    <3>2. CASE ClientFin \/ BeginDrain
      BY <3>2 DEF ClientFin, BeginDrain, clientVars, server, outVars, srcVars, flagVars
    <3>3. CASE FileTruncate
      BY <3>3 DEF FileTruncate, outside, clientVars, outVars, flagVars
    <3>. QED
      BY <1>2, <3>1, <3>2, <3>3, SMTT(30)
  <2>2. /\ FeedReady' = FeedReady /\ has_output' = has_output /\ ReadAllowed' = ReadAllowed
        /\ ProcessAllowed' = ProcessAllowed
    BY <2>1, Zenon
       DEF FeedReady, Req, has_output, out_pending, body_source_active, ReadAllowed,
           ProcessAllowed, parserVars
  <2>. QED
    BY <2>1, <2>2 DEF TurnInv
<1>3. CASE Wake
  <2>1. /\ pc = "wait" /\ armed
        /\ \/ pc' = "read"
           \/ ~Writable /\ UNCHANGED <<can_read, can_write, pc>>
        /\ UNCHANGED <<script, parserVars, hist, sent, body_src, close_after_write>>
    BY <1>3 DEF Wake, outside, clientVars, outVars, srcVars
  <2>2. CASE pc' = "read"
    BY <2>2 DEF TurnInv
  <2>3. CASE ~Writable /\ UNCHANGED <<can_read, can_write, pc>>
    <3>1. sent # 0
      BY <1>1, <2>3 DEF Writable, Free
    <3>2. FeedReady' = FeedReady /\ has_output' = has_output
      BY <2>1, Zenon
         DEF FeedReady, Req, has_output, out_pending, body_source_active, parserVars
    <3>. QED
      BY <2>1, <2>3, <3>1, <3>2 DEF TurnInv
  <2>. QED
    BY <2>1, <2>2, <2>3
<1>4. CASE DoRead
  <2>1. pc' \in {"read", "close"} \/ (pc' = "process" /\ (progress' \/ ~ReadAllowed'))
    BY <1>4
       DEF DoRead, RecvData, RecvEof, RecvAgain, RecvError, ReadDone, ReadAllowed
  <2>. QED
    BY <2>1 DEF TurnInv
<1>5. CASE ProcessLoop
  <2>1. /\ UNCHANGED <<script, progress, parserVars, hist, sent, body_src, can_read,
                       peer_closed, close_after_write>>
        /\ pc = "process"
        /\ pc' = "feed" \/ (pc' = "write" /\ ~(ProcessAllowed /\ in_len > 0))
    BY <1>5 DEF ProcessLoop, outside, clientVars, outVars, srcVars
  <2>2. /\ FeedReady' = FeedReady /\ ReadAllowed' = ReadAllowed
        /\ ProcessAllowed' = ProcessAllowed
    BY <2>1, ZenonT(40)
       DEF FeedReady, Req, out_pending, body_source_active, ReadAllowed, ProcessAllowed,
           parserVars
  <2>. QED
    BY <1>0, <2>1, <2>2, BufferReady DEF TurnInv
<1>6. CASE Feed
  <2>1. /\ UNCHANGED <<can_read, peer_closed, close_after_write>> /\ pc = "feed" /\ pc' = "feed"
        /\ progress' \/ UNCHANGED <<in_len, progress>>
    BY <1>6
       DEF Feed, FeedBlankLine, FeedRequestLine, FeedHeaders, FeedBody, flagVars
  <2>. QED
    BY <2>1 DEF TurnInv, ReadAllowed
<1>7. CASE NeedInput
  <2>1. /\ UNCHANGED <<script, parserVars, can_read, peer_closed, close_after_write>>
        /\ pc = "feed" /\ pc' = "write" /\ ~FeedReady /\ (progress => progress')
    BY <1>7, ZenonT(40) DEF NeedInput, outside, clientVars
  <2>2. FeedReady' = FeedReady /\ ReadAllowed' = ReadAllowed
    BY <2>1, ZenonT(40) DEF FeedReady, Req, ReadAllowed, parserVars
  <2>. QED
    BY <2>1, <2>2 DEF TurnInv
<1>8. CASE QueueError \/ Dispatch
  BY <1>8 DEF QueueError, Dispatch, TurnInv
<1>9. CASE DoWrite
  <2>1. /\ UNCHANGED <<script, parserVars, can_read, peer_closed>>
        /\ pc = "write"
    BY <1>9 DEF DoWrite, outside, clientVars
  <2>2. FeedReady' = FeedReady
    BY <2>1, ZenonT(40) DEF FeedReady, Req, parserVars
  <2>3. CASE WriteError \/ RefillFails \/ Refill \/ RefillShort
    BY <2>1, <2>3, ZenonT(40) DEF WriteError, RefillFails, Refill, RefillShort, TurnInv
  <2>4. CASE Send
    <3>1. /\ UNCHANGED <<pc, hist, body_src, close_after_write>>
          /\ progress' = (progress \/ Free > 0) /\ sent' = sent + Smaller(out_pending, Free)
      BY <2>4 DEF Send
    <3>2. CASE Free > 0
      BY <2>1, <3>1, <3>2, ZenonT(40) DEF TurnInv
    <3>3. CASE Free = 0
      <4>1. sent' = sent
        BY <1>1, <3>1, <3>3 DEF Smaller
      <4>2. ReadAllowed' = ReadAllowed /\ ProcessAllowed' = ProcessAllowed
        BY <2>1, <3>1, <4>1, ZenonT(40)
           DEF ReadAllowed, ProcessAllowed, out_pending, body_source_active, parserVars
      <4>. QED
        BY <2>1, <2>2, <3>1, <4>2, ZenonT(40) DEF TurnInv
    <3>. QED
      BY <1>1, <3>2, <3>3
  <2>5. CASE SendFile
    <3> DEFINE n == Smaller(Smaller(Smaller(left, SendfileMax), avail), Free)
    <3>1. /\ UNCHANGED <<pc, close_after_write>> /\ progress' = (progress \/ n > 0)
          /\ body_src' = IF n = left THEN "none" ELSE "file"
          /\ body_src = "file"
      BY <2>5, SMTT(30) DEF SendFile
    <3>2. n \in Nat /\ left > 0
      BY <1>0, <1>1, <3>1, ConstantsAssumption DEF DataOK, Smaller, SourceInv, body_source_active
    <3> HIDE DEF n
    <3>3. progress' \/ (body_src' = "file" /\ (progress' \/ ~progress))
      BY <3>1, <3>2, ZenonT(40)
    <3>4. ~progress' => ~ReadAllowed' /\ ~ProcessAllowed'
      BY <2>1, <3>1, <3>3
         DEF TurnInv, ReadAllowed, ProcessAllowed, body_source_active, parserVars
    <3>. QED
      BY <2>1, <3>1, <3>4 DEF TurnInv
  <2>. QED
    BY <1>9, <2>3, <2>4, <2>5 DEF DoWrite
<1>10. CASE DriveTurn
  <2>1. /\ UNCHANGED <<script, parserVars, hist, sent, body_src, can_read, can_write,
                       close_after_write>>
        /\ pc = "write" /\ ~WriteAllowed
        /\ pc' = IF progress THEN "read"
                 ELSE IF has_output THEN "wait"
                 ELSE IF close_after_write THEN "linger"
                 ELSE IF peer_closed THEN "close" ELSE "wait"
    BY <1>10 DEF DriveTurn, outside, clientVars, outVars, srcVars, flagVars
  <2>2. FeedReady' = FeedReady /\ has_output' = has_output
    BY <2>1, ZenonT(40)
       DEF FeedReady, Req, has_output, out_pending, body_source_active, parserVars
  <2>3. CASE has_output
    BY <2>1, <2>2, <2>3 DEF TurnInv, WriteAllowed
  <2>4. CASE ~has_output /\ ~progress /\ ~close_after_write /\ ~peer_closed
    <3>1. ProcessAllowed
      BY <1>1, <2>4 DEF ProcessAllowed, has_output
    <3>2. ~FeedReady /\ ~ReadAllowed
      BY <2>1, <2>4, <3>1 DEF TurnInv
    <3>3. state \notin {"Done", "Error"}
      BY <1>0, <2>1, <2>4 DEF ParserInv
    <3>4. ~(in_len >= MaxIn)
      BY <1>0, <3>2, <3>3, BufferReady
    <3>5. ~can_read
      BY <1>0, <2>4, <3>2, <3>4, ConstantsAssumption DEF ReadAllowed, DataOK
    <3>. QED
      BY <2>1, <2>2, <2>4, <3>2, <3>5 DEF TurnInv
  <2>5. CASE ~has_output /\ (progress \/ close_after_write \/ peer_closed)
    BY <2>1, <2>5 DEF TurnInv
  <2>. QED
    BY <2>3, <2>4, <2>5
<1>11. CASE Linger \/ CloseConnection \/ Sweep
  BY <1>11 DEF Linger, CloseConnection, Sweep, CloseSocket, TurnInv
<1>. QED
  BY <1>2, <1>3, <1>4, <1>5, <1>6, <1>7, <1>8, <1>9, <1>10, <1>11 DEF Next, Worker, Environment

\* drive() never leaves a connection with work that no future event announces:
\* edge-triggered epoll, which reports each change once, loses no wake-up, for every
\* buffer size, read size, low-water mark and interleaving of the client with the
\* system calls, unless the file being sent has been truncated.
THEOREM WakeupsAreNotLost == Spec => []NoLostWakeup
<1>1. Init => KernelInv /\ TurnInv
  <2> SUFFICES ASSUME Init PROVE KernelInv /\ TurnInv
    OBVIOUS
  <2>1. KernelInv
    BY DEF Init, KernelInv
  <2>2. ~has_output
    BY DEF Init, has_output, out_pending, body_source_active
  <2>3. ~FeedReady
    <3>1. DataOK /\ in_len = 0
      BY InitFraming DEF Init, FramingInv, TypeOK
    <3>. QED
      BY <3>1, BufferReady
  <2>4. TurnInv
    BY <2>2, <2>3 DEF Init, TurnInv
  <2>. QED
    BY <2>1, <2>4
<1>2. FramingInv /\ KernelInv /\ TurnInv /\ [Next]_vars => KernelInv' /\ TurnInv'
  <2> SUFFICES ASSUME FramingInv, KernelInv, TurnInv, UNCHANGED vars
               PROVE  KernelInv' /\ TurnInv'
    BY NextKernel, NextTurn DEF FramingInv
  <2>. QED
    BY ZenonT(40)
       DEF KernelInv, TurnInv, Truncated, Writable, Readable, Free, FeedReady, Req, has_output,
           out_pending, body_source_active, ReadAllowed, ProcessAllowed, vars, outside,
           clientVars, server, parserVars, outVars, srcVars, flagVars
<1>3. FramingInv /\ KernelInv /\ TurnInv => NoLostWakeup
  <2> SUFFICES ASSUME FramingInv, KernelInv, TurnInv, pc = "wait", ~armed
               PROVE  ~rst /\ IF has_output THEN Truncated \/ ~Writable
                              ELSE klen = 0 /\ ~fin /\ ~close_after_write /\ ~FeedReady
    BY DEF NoLostWakeup
  <2>1. klen \in Nat
    BY DEF FramingInv, TypeOK, DataOK
  <2>2. CASE has_output
    BY <2>2 DEF KernelInv, TurnInv
  <2>3. CASE ~has_output
    BY <2>1, <2>3 DEF KernelInv, TurnInv, Readable
  <2>. QED
    BY <2>2, <2>3
<1>. QED
  BY <1>1, <1>2, <1>3, InitFraming, NextFraming, PTL DEF Spec

=============================================================================
