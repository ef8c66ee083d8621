-------------------------- MODULE ConnectionProofs --------------------------
(***************************************************************************)
(* The steps of do_write() preserve the framing invariant of               *)
(* ConnectionLemmas, so the responses of a connection are well framed, for *)
(* every value of the constants.                                           *)
(***************************************************************************)
EXTENDS ConnectionLemmas

-----------------------------------------------------------------------------
(* The steps of do_write().                                                *)

\* The steps of do_write() that add no output.
LEMMA WriteQuietFraming ==
  ASSUME FramingInv, DoWrite, Send \/ WriteError \/ RefillFails
  PROVE  FramingInv'
<1>0. FlagsOK /\ DataOK /\ ParserInv
  BY SMTT(30) DEF FramingInv, TypeOK
<1>1. /\ UNCHANGED <<outside, klen, armed, parserVars, srcVars, hist, can_read, peer_closed,
                     continue_sent, request_start, close_after_write>>
      /\ pc' \in {"write", "close"} /\ why' \in {why, "error", "aborted"}
  BY DEF DoWrite, Send, WriteError, RefillFails, srcVars, outVars
<1>2. FlagsOK'
  <2> USE <1>0 DEF FlagsOK, Send, WriteError, RefillFails
  <2>1. nospace' \in BOOLEAN
    BY ZenonT(40)
  <2>2. progress' \in BOOLEAN
    BY ZenonT(40)
  <2>3. can_write' \in BOOLEAN
    BY ZenonT(40)
  <2> HIDE DEF Send, WriteError, RefillFails
  <2>. QED
    BY <1>1, <2>1, <2>2, <2>3, SMTT(30) DEF outside, clientVars, srcVars
<1>3. sent' \in Nat /\ acked <= sent' /\ sent' <= Len(hist) /\ sent' - acked <= SndBuf
  <2>1. Smaller(out_pending, Free) \in Nat /\ Smaller(out_pending, Free) <= out_pending
        /\ Smaller(out_pending, Free) <= Free
    BY <1>0, ConstantsAssumption DEF DataOK, Smaller, out_pending, Free
  <2>2. CASE Send
    BY <1>0, <2>1, <2>2, ConstantsAssumption, SMTT(30) DEF DataOK, Send, out_pending, Free
  <2>3. CASE WriteError \/ RefillFails
    BY <1>0, <2>3, SMTT(30) DEF DataOK, WriteError, RefillFails, outVars
  <2>. QED
    BY <2>2, <2>3
<1>4. DataOK'
  BY <1>0, <1>1, <1>3, SMTT(30) DEF DataOK, outside, clientVars, parserVars, srcVars
<1>5. ParserInv'
  BY <1>0, <1>1, SameScript, SMTT(30)
     DEF ParserInv, DoWrite, parserVars, outside, clientVars
<1>. QED
  BY <1>1, <1>2, <1>4, <1>5, QuietStep DEF TypeOK, outside, clientVars, parserVars

\* m more units of the body in flight reach the output: what is left to show of a
\* step that emits them.
LEMMA SourceStep ==
  ASSUME FramingInv, DoWrite, body_source_active, pc' = pc, why' = why,
         NEW m \in Nat, NextK + m - 1 <= LastK(Req(cur - 1)),
         hist' = Emit(hist, cur - 1, NextK, m, ConnectionHeader(close_after_write)),
         close_after_write => close_after_write',
         FlagsOK', left' \in 0..left, avail' \in Nat, body_src' \in {"none", body_src},
         sent' \in Nat, acked <= sent', sent' <= Len(hist) + m, sent' - acked <= SndBuf,
         body_src' # "none" =>
           /\ left' = left - m
           /\ body_src = "file" => /\ left' > 0 /\ avail' <= left'
           /\ body_src = "producer" /\ stream_sized => left' > 0,
         body_src' = "none" =>
           \/ close_after_write'
           \/ Req(cur - 1).n - left + 1 + m = LastK(Req(cur - 1))
  PROVE  FramingInv'
<1>0. DataOK /\ ParserInv /\ SourceInv
  BY SMTT(30) DEF FramingInv, TypeOK
<1>1. /\ UNCHANGED <<outside, klen, armed, parserVars, chunked, stream_sized, can_read,
                     peer_closed, continue_sent, request_start>>
      /\ pc = "write"
  BY SMTT(30) DEF DoWrite
<1> DEFINE conn == ConnectionHeader(close_after_write)
<1>2. conn \in {"close", "keep-alive"} /\ (conn = "close" => close_after_write)
  BY SMTT(30) DEF ConnectionHeader
<1>3. /\ NextK + m - 1 = Req(cur - 1).n - left + 1 + m
      /\ Extended(hist, hist', cur - 1, NextK, m, conn)
  BY <1>2, SourceEmit, SMTT(30)
<1>4. /\ Req(cur - 1) \in Request /\ Req(cur - 1).n \in Nat /\ Req(cur - 1)' = Req(cur - 1)
      /\ \A i : Req(i)' = Req(i)
  <2>1. \A i : Req(i)' = Req(i)
    BY <1>1, SameScript DEF outside, clientVars
  <2>2. Req(cur - 1)' = Req(cur - 1)
    BY <1>1, ZenonT(40) DEF Req, outside, clientVars, parserVars
  <2>3. Req(cur - 1) \in Request
    BY <1>0, ReqType, SMTT(30) DEF DataOK, SourceInv
  <2>. QED
    BY <2>1, <2>2, <2>3, SMTT(30) DEF Request
<1>5. DataOK'
  <2>1. UNCHANGED <<script, c_req, c_pos, klen, acked, in_len, state, cur, blank, remaining>>
    BY <1>1 DEF outside, clientVars, parserVars
  <2>2. hist' \in Seq(Unit) /\ Len(hist') = Len(hist) + m
    BY <1>3 DEF Extended
  <2>3. left' \in Nat /\ body_src' \in {"none", "file", "producer"}
    BY <1>0 DEF DataOK
  <2>4. acked' <= sent' /\ sent' <= Len(hist') /\ sent' - acked' <= SndBuf
    BY <2>1, <2>2, ZenonT(40)
  <2>. QED
    BY <1>0, <2>1, <2>2, <2>3, <2>4, ZenonT(40) DEF DataOK
<1>6. ParserInv'
  BY <1>0, <1>1, <1>4 DEF ParserInv, parserVars
<1>7. /\ hist' # <<>> /\ LastUnit'.id = cur - 1
      /\ LastUnit'.k = Req(cur - 1).n - left + 1 + m
      /\ LastUnit'.conn = "close" => close_after_write'
  <2>1. cur - 1 \in Nat /\ left \in Nat /\ left <= Req(cur - 1).n /\ Req(cur - 1).n \in Nat
    BY <1>0, <1>4, SMTT(30) DEF SourceInv, DataOK
  <2>2. CASE m = 0
    <3>1. hist' = hist /\ LastUnit' = LastUnit
      BY <1>3, <2>2, SMTT(30) DEF Extended, LastUnit
    <3>2. /\ hist # <<>> /\ LastUnit.id = cur - 1 /\ LastUnit.k = Req(cur - 1).n - left + 1
          /\ LastUnit.conn = "close" => close_after_write
      BY <1>0 DEF SourceInv, FramingInv, ClosingInv
    <3>. QED
      BY <1>4, <2>1, <2>2, <3>1, <3>2, SMTT(30)
  <2>3. CASE m > 0
    <3>1. /\ hist' # <<>> /\ LastUnit'.id = cur - 1 /\ LastUnit'.k = NextK + m - 1
          /\ LastUnit'.conn = conn
      BY <1>3, <2>3, ZenonT(40) DEF Extended, LastUnit
    <3>. QED
      BY <1>2, <1>3, <3>1, ZenonT(40)
  <2>. QED
    BY <2>2, <2>3, SMTT(30)
<1>8. SourceInv'
  <2> SUFFICES ASSUME body_source_active' PROVE SourceInv'
    BY SMTT(30) DEF SourceInv
  <2>1. body_src' = body_src /\ left' = left - m /\ left' \in Nat
    BY <1>0, SMTT(30) DEF body_source_active, DataOK
  <2>2. left' <= Req(cur - 1).n /\ LastUnit'.k = Req(cur - 1).n - left' + 1
    <3>1. left \in Nat /\ left <= Req(cur - 1).n
      BY <1>0, SMTT(30) DEF SourceInv, DataOK
    <3>2. LastUnit'.k = Req(cur - 1).n - left + 1 + m
      BY <1>7
    <3>. QED
      BY <1>4, <2>1, <3>1, <3>2, SMTT(30)
  <2>3. cur' = cur /\ UNCHANGED <<chunked, stream_sized, continue_sent>>
    BY <1>1 DEF parserVars
  <2>4. /\ body_src' = "file" => /\ left' > 0 /\ avail' <= left'
        /\ body_src' = "producer" /\ stream_sized' => left' > 0
    BY <2>1, <2>3 DEF body_source_active
  <2>. QED
    BY <1>0, <1>4, <1>7, <2>1, <2>2, <2>3, <2>4, ZenonT(40) DEF SourceInv, body_source_active
<1>9. ClosingInv'
  BY <1>7, SMTT(30) DEF ClosingInv
<1>10. BetweenInv'
  BY <1>0, <1>1, <1>4, <1>7, SMTT(30) DEF BetweenInv, SourceInv, body_source_active, parserVars
<1>11. Framed'
  BY <1>1, <1>3, SameScript, ZenonT(40) DEF Extended, Framed, outside, clientVars
<1>. QED
  BY <1>5, <1>6, <1>8, <1>9, <1>10, <1>11, SMTT(30) DEF FramingInv, TypeOK

\* sendfile() appends to the stream and hands over in one step.
LEMMA SendFileFraming ==
  ASSUME FramingInv, DoWrite, SendFile
  PROVE  FramingInv'
<1>0. FlagsOK /\ DataOK /\ SourceInv
  BY SMTT(30) DEF FramingInv, TypeOK
<1> DEFINE want == Smaller(left, SendfileMax)
           n == Smaller(Smaller(want, avail), Free)
<1>1. /\ body_src = "file" /\ body_source_active
      /\ hist' = Emit(hist, cur - 1, NextK, n, ConnectionHeader(close_after_write))
      /\ sent' = sent + n /\ left' = left - n /\ avail' = avail - n
      /\ body_src' = IF n = left THEN "none" ELSE "file"
      /\ progress' = (progress \/ n > 0) /\ can_write' = (n = left \/ n = want)
      /\ nospace' = (nospace \/ Free < Smaller(want, avail))
      /\ UNCHANGED <<pc, why, close_after_write>>
      /\ out_pending = 0
  BY SMTT(30) DEF SendFile, body_source_active
<1>2. Free \in Nat /\ sent = Len(hist)
  BY <1>0, <1>1, ConstantsAssumption, SMTT(30) DEF DataOK, Free, out_pending
<1>3. n \in Nat /\ n <= left /\ n <= avail /\ n <= Free
  BY <1>0, <1>2, ConstantsAssumption, SMTT(30) DEF DataOK, Smaller
<1>4. FlagsOK'
  <2>1. progress' \in BOOLEAN /\ can_write' \in BOOLEAN /\ nospace' \in BOOLEAN
    BY <1>1, ZenonT(40)
  <2>. QED
    BY <1>0, <1>1, <2>1 DEF FlagsOK, DoWrite, outside, clientVars
<1> HIDE DEF n, want
<1>5. /\ Req(cur - 1) \in Request /\ HasBody(Req(cur - 1)) /\ Req(cur - 1).kind = "file"
      /\ Req(cur - 1).bad = "no" /\ left <= Req(cur - 1).n
  BY <1>0, <1>1, ReqType DEF SourceInv, DataOK
<1>6. /\ Req(cur - 1).n \in Nat /\ LastK(Req(cur - 1)) = Req(cur - 1).n + 1
      /\ NextK = Req(cur - 1).n - left + 2
  BY <1>5 DEF LastK, Framing, Request, NextK
<1>7. /\ NextK + n - 1 <= LastK(Req(cur - 1)) /\ left' \in 0..left /\ avail' \in Nat
      /\ sent' \in Nat /\ acked <= sent' /\ sent' <= Len(hist) + n /\ sent' - acked <= SndBuf
  <2>1. left \in Nat /\ avail \in Nat /\ sent \in Nat /\ acked \in Nat /\ acked <= sent
    BY <1>0, SMTT(30) DEF DataOK
  <2>2. NextK + n - 1 <= LastK(Req(cur - 1)) /\ left' \in 0..left /\ avail' \in Nat
    BY <1>1, <1>3, <1>5, <1>6, <2>1, SMTT(30)
  <2>3. /\ sent' \in Nat /\ acked <= sent' /\ sent' <= Len(hist) + n
        /\ sent' - acked <= SndBuf
    BY <1>1, <1>2, <1>3, <2>1, ConstantsAssumption, SMTT(30) DEF Free
  <2>. QED
    BY <2>2, <2>3
<1>8. body_src' = "none" => Req(cur - 1).n - left + 1 + n = LastK(Req(cur - 1))
  BY <1>0, <1>1, <1>3, <1>5, <1>6, SMTT(30) DEF DataOK
<1>9. body_src' # "none" => /\ left' > 0 /\ avail' <= left'
  BY <1>0, <1>1, <1>3, SMTT(30) DEF DataOK, SourceInv
<1>. QED
  BY <1>1, <1>3, <1>4, <1>7, <1>8, <1>9, SourceStep

\* A producer appends what it gives, and the last-chunk when it ends.
LEMMA RefillFraming ==
  ASSUME FramingInv, DoWrite, Refill
  PROVE  FramingInv'
<1>0. FlagsOK /\ DataOK /\ SourceInv
  BY Zenon DEF FramingInv, TypeOK
<1> DEFINE m == Smaller(LowWater, left)
<1>1. PICK atEnd \in BOOLEAN :
        LET done == left = m /\ (stream_sized \/ m < LowWater \/ atEnd) IN
        /\ RefillAllowed
        /\ hist' = Emit(hist, cur - 1, NextK, m + (IF done /\ chunked THEN 1 ELSE 0),
                        ConnectionHeader(close_after_write))
        /\ left' = left - m
        /\ body_src' = IF done THEN "none" ELSE "producer"
        /\ progress' = TRUE
        /\ UNCHANGED <<pc, why, sent, avail, nospace, can_write, close_after_write>>
  BY ZenonT(40) DEF Refill
<1> DEFINE done == left = m /\ (stream_sized \/ m < LowWater \/ atEnd)
           all == m + (IF done /\ chunked THEN 1 ELSE 0)
<1>2. /\ body_src = "producer" /\ body_source_active
      /\ hist' = Emit(hist, cur - 1, NextK, all, ConnectionHeader(close_after_write))
      /\ left' = left - m /\ progress' = TRUE
      /\ body_src' = IF done THEN "none" ELSE "producer"
      /\ UNCHANGED <<pc, why, sent, avail, nospace, can_write, close_after_write>>
  BY <1>1, SMTT(30) DEF RefillAllowed, body_source_active
<1>3. /\ m \in Nat /\ m <= left /\ (m = 0 => left = 0 /\ m < LowWater)
  BY <1>0, ConstantsAssumption, SMTT(30) DEF DataOK, Smaller
<1>4. /\ done => left = m
      /\ ~done /\ stream_sized => left # m
      /\ ~done => all = m
      /\ done /\ chunked => all = m + 1
      /\ done /\ ~chunked => all = m
      /\ all \in Nat /\ all >= m
  BY <1>3, SMTT(30)
<1> HIDE DEF m, done, all
<1>5. FlagsOK'
  BY <1>0, <1>2, SMTT(30) DEF FlagsOK, DoWrite, outside, clientVars
<1>6. /\ Req(cur - 1) \in Request /\ HasBody(Req(cur - 1)) /\ Req(cur - 1).bad = "no"
      /\ Req(cur - 1).kind \in {"sized", "stream"}
      /\ left <= Req(cur - 1).n /\ left \in Nat
      /\ chunked = (Framing(Req(cur - 1)) = "Chunked")
      /\ stream_sized => left > 0
  BY <1>0, <1>2, ReqType DEF SourceInv, DataOK
<1>7. /\ Req(cur - 1).n \in Nat
      /\ LastK(Req(cur - 1)) = IF chunked THEN Req(cur - 1).n + 2 ELSE Req(cur - 1).n + 1
      /\ NextK = Req(cur - 1).n - left + 2
  BY <1>6, ZenonT(40) DEF LastK, Request, NextK
<1>8. NextK + all - 1 <= LastK(Req(cur - 1))
  BY <1>3, <1>4, <1>6, <1>7, SMTT(30)
<1>9. body_src' = "none" => Req(cur - 1).n - left + 1 + all = LastK(Req(cur - 1))
  BY <1>2, <1>3, <1>4, <1>6, <1>7, SMTT(30)
<1>10. body_src' # "none" => left' = left - all /\ (stream_sized => left' > 0)
  BY <1>2, <1>3, <1>4, <1>6, SMTT(30)
<1>11. /\ left' \in 0..left /\ avail' \in Nat /\ sent' \in Nat
       /\ acked <= sent' /\ sent' <= Len(hist) + all /\ sent' - acked <= SndBuf
  BY <1>0, <1>2, <1>3, <1>4, SMTT(30) DEF DataOK
<1>. QED
  BY <1>2, <1>4, <1>5, <1>8, <1>9, <1>10, <1>11, SourceStep

\* A sized producer that ends early is cut off there, and the connection ends.
LEMMA RefillShortFraming ==
  ASSUME FramingInv, DoWrite, RefillShort
  PROVE  FramingInv'
<1>0. FlagsOK /\ DataOK /\ SourceInv
  BY Zenon DEF FramingInv, TypeOK
<1>1. PICK m \in 0..Smaller(LowWater, left - 1) :
        /\ stream_sized /\ RefillAllowed
        /\ hist' = Emit(hist, cur - 1, NextK, m, ConnectionHeader(close_after_write))
        /\ left' = left - m /\ body_src' = "none"
        /\ close_after_write' = TRUE /\ progress' = TRUE
        /\ UNCHANGED <<pc, why, sent, avail, nospace, can_write>>
  BY DEF RefillShort
<1>2. body_src = "producer" /\ body_source_active
  BY <1>1, SMTT(30) DEF RefillAllowed, body_source_active
<1>3. /\ Req(cur - 1) \in Request /\ HasBody(Req(cur - 1)) /\ Req(cur - 1).bad = "no"
      /\ left <= Req(cur - 1).n /\ left \in Nat /\ left > 0
  BY <1>0, <1>1, <1>2, ReqType, SMTT(30) DEF SourceInv, DataOK
<1>4. m \in Nat /\ m < left
  BY <1>1, <1>3, ConstantsAssumption, SMTT(30) DEF Smaller
<1>5. FlagsOK'
  BY <1>0, <1>1, SMTT(30) DEF FlagsOK, DoWrite, outside, clientVars
<1>6. /\ Req(cur - 1).n \in Nat /\ LastK(Req(cur - 1)) >= Req(cur - 1).n + 1
      /\ NextK = Req(cur - 1).n - left + 2
  BY <1>3, SMTT(30) DEF LastK, Request, NextK
<1>7. NextK + m - 1 <= LastK(Req(cur - 1))
  <2>1. LastK(Req(cur - 1)) \in Nat
    BY <1>3, LastKType, SMTT(30)
  <2>. QED
    BY <1>3, <1>4, <1>6, <2>1
<1>8. /\ left' \in 0..left /\ avail' \in Nat /\ sent' \in Nat
      /\ acked <= sent' /\ sent' <= Len(hist) + m /\ sent' - acked <= SndBuf
  BY <1>0, <1>1, <1>3, <1>4 DEF DataOK
<1>. QED
  BY <1>1, <1>2, <1>4, <1>5, <1>7, <1>8, SourceStep, SMTT(30)

\* Truncation of the file only reduces what sendfile() will find.
LEMMA TruncateFraming ==
  ASSUME FramingInv, FileTruncate
  PROVE  FramingInv'
<1>0. FlagsOK /\ DataOK /\ SourceInv /\ ParserInv
  BY DEF FramingInv, TypeOK
<1>1. /\ UNCHANGED <<outside, klen, nospace, armed, pc, progress, why, parserVars, outVars,
                     body_src, left, chunked, stream_sized, flagVars>>
      /\ "truncate" \in Faults /\ body_src = "file" /\ avail' \in Nat /\ avail' <= avail
  BY <1>0, SMTT(30) DEF FileTruncate, DataOK
<1>2. FlagsOK' /\ DataOK'
  BY <1>0, <1>1, SMTT(30) DEF FlagsOK, DataOK, outside, clientVars, parserVars, outVars, flagVars
<1>3. LastUnit' = LastUnit /\ Req(cur - 1)' = Req(cur - 1) /\ \A i : Req(i)' = Req(i)
  BY <1>1, SameScript, SMTT(30) DEF LastUnit, Req, outside, clientVars, parserVars, outVars
<1>4. SourceInv'
  <2>1. avail' <= left
    BY <1>0, <1>1, SMTT(30) DEF SourceInv, DataOK, body_source_active
  <2>. QED
    BY <1>0, <1>1, <1>3, <2>1, SMTT(30)
       DEF SourceInv, body_source_active, parserVars, outVars, flagVars
<1>5. ParserInv'
  BY <1>0, <1>1, <1>3, SMTT(30)
     DEF ParserInv, body_source_active, out_pending, parserVars, outVars, flagVars
<1>6. ClosingInv' /\ BetweenInv'
  BY <1>1, <1>3
     DEF FramingInv, ClosingInv, BetweenInv, body_source_active, outVars, flagVars
<1>7. Framed'
  BY <1>1, SameScript, Zenon DEF FramingInv, Framed, outside, clientVars, outVars
<1>. QED
  BY <1>2, <1>4, <1>5, <1>6, <1>7 DEF FramingInv, TypeOK

-----------------------------------------------------------------------------
(* Typing and framing for every instance.                                  *)

\* A new connection satisfies the framing invariant.
LEMMA InitFraming == Init => FramingInv
<1> SUFFICES ASSUME Init PROVE FramingInv
  OBVIOUS
<1>1. Req(1) \in Request
  BY ReqType DEF Init
<1>2. FlagsOK
  BY ZenonT(40) DEF Init, FlagsOK
<1>3. DataOK
  BY <1>1, ConstantsAssumption DEF Init, DataOK, Request
<1>4. SourceInv /\ ClosingInv /\ BetweenInv /\ ParserInv
  BY DEF Init, SourceInv, ClosingInv, BetweenInv, ParserInv, body_source_active
<1>5. Framed
  BY DEF Init, Framed, WellFramed
<1>. QED
  BY <1>2, <1>3, <1>4, <1>5 DEF FramingInv, TypeOK

\* The framing invariant is inductive.
LEMMA NextFraming == FramingInv /\ [Next]_vars => FramingInv'
<1> SUFFICES ASSUME FramingInv, [Next]_vars PROVE FramingInv'
  OBVIOUS
<1>1. CASE ClientSend \/ ClientRead \/ ClientFin \/ ClientReset \/ BeginDrain
  BY <1>1, ClientFraming
<1>2. CASE Wake \/ DoRead \/ ProcessLoop \/ DriveTurn \/ Linger \/ CloseConnection \/ Sweep
  BY <1>2, WorkerFraming
<1>3. CASE Feed
  BY <1>3, FeedFraming
<1>4. CASE NeedInput
  BY <1>4, NeedInputFraming, SMTT(30)
<1>5. CASE QueueError
  BY <1>5, QueueErrorFraming
<1>6. CASE Dispatch
  BY <1>6, DispatchFraming
<1>7. CASE DoWrite
  BY <1>7, WriteQuietFraming, SendFileFraming, RefillFraming, RefillShortFraming, SMTT(30)
     DEF DoWrite
<1>8. CASE FileTruncate
  BY <1>8, TruncateFraming
<1>9. CASE UNCHANGED vars
  <2>1. UNCHANGED <<outside, klen, nospace, armed, server>>
    BY <1>9, SMTT(30) DEF vars
  <2>2. FlagsOK' /\ DataOK'
    <3>1. UNCHANGED <<draining, fin, rst, nospace, armed, reset, progress, chunked, stream_sized,
                      can_read, can_write, peer_closed, close_after_write, continue_sent,
                      request_start>>
      BY <2>1 DEF outside, clientVars, server, srcVars, flagVars
    <3>2. UNCHANGED <<script, c_req, c_pos, klen, acked, sent, hist, pc, why, in_len, state, cur,
                      blank, remaining, body_src, left, avail>>
      BY <2>1 DEF outside, clientVars, server, parserVars, outVars, srcVars
    <3>3. FlagsOK'
      BY <3>1 DEF FramingInv, TypeOK, FlagsOK
    <3>. QED
      BY <3>2, <3>3 DEF FramingInv, TypeOK, DataOK
  <2>3. ParserInv'
    BY <2>1, ZenonT(40)
       DEF FramingInv, ParserInv, Req, body_source_active, out_pending, outside, clientVars,
           server, parserVars, outVars, srcVars, flagVars
  <2>. QED
    BY <2>1, <2>2, <2>3, QuietStep
       DEF TypeOK, outside, clientVars, server, parserVars, outVars, srcVars, flagVars
<1>. QED
  BY <1>1, <1>2, <1>3, <1>4, <1>5, <1>6, <1>7, <1>8, <1>9 DEF Next, Worker, Environment

\* In every run of every instance the connection keeps its types, responses leave
\* in request order, whole, delimited as announced, and none follows a response
\* that announced the close.
THEOREM FramingCorrect == Spec => [](TypeOK /\ Framed)
<1>1. FramingInv => TypeOK /\ Framed
  BY DEF FramingInv
<1>. QED
  BY <1>1, InitFraming, NextFraming, PTL DEF Spec

-----------------------------------------------------------------------------
(* The lingering close.                                                    *)

Burst == \A i \in 1..Len(script) : script[i].client = "burst"
Lingered == why \in {"finished", "eof"}

\* Why close() finds nothing unread that could make it raise an RST: after end of
\* file nothing arrives any more, and a burst client sends nothing after the first
\* response unit, so what the drain of the lingering close emptied stays empty.
LingerInv ==
  /\ peer_closed => fin /\ klen = 0
  /\ reset => pc = "closed"
  /\ Lingered => pc \in {"linger", "close", "closed"}
  /\ Burst /\ Lingered /\ pc = "close" => klen = 0 \/ sent = 0
  /\ LingerSurvives

\* A request of a burst script is sent only while no response unit has left.
LEMMA BurstSends ==
  ASSUME TypeOK, Burst, ClientSend
  PROVE  sent = 0 /\ acked = 0
<1>1. script \in Seq(Request) /\ Len(script) \in Nat \ {0} /\ c_req \in Nat \ {0}
  BY ScriptsAssumption DEF TypeOK, DataOK
<1>2. ((c_req - 1) % Len(script)) + 1 \in 1..Len(script)
  BY <1>1
<1>3. Req(c_req).client = "burst"
  BY <1>2, Zenon DEF Burst, Req
<1>4. sent = 0
  BY <1>3, Zenon DEF ClientSend, MaySend
<1>. QED
  BY <1>4 DEF TypeOK, DataOK

\* Every step keeps the invariant of the lingering close.
LEMMA NextLinger ==
  ASSUME TypeOK, LingerInv, Next
  PROVE  LingerInv'
<1> USE DEF outside, clientVars, server, outVars, flagVars
<1>0. script' = script /\ Burst' = Burst
  <2>1. script' = script
    BY ZenonT(40)
       DEF Next, Worker, Environment, ClientSend, ClientRead, ClientFin, ClientReset,
           FileTruncate, BeginDrain, Sweep, Wake, DoRead, ProcessLoop, Feed, NeedInput,
           QueueError, Dispatch, DoWrite, DriveTurn, Linger, CloseConnection, CloseSocket
  <2>. QED
    BY <2>1, Zenon DEF Burst
<1>1. CASE ClientSend
  <2>1. UNCHANGED <<fin, peer_closed, pc, why, sent, acked>> /\ ~fin
        /\ (pc = "closed" \/ UNCHANGED reset)
    BY <1>1, ZenonT(40) DEF ClientSend, MaySend
  <2>2. Burst => sent = 0 /\ acked = 0
    BY <1>1, BurstSends
  <2>3. LingerSurvives'
    BY <1>0, <2>1, <2>2, Zenon DEF LingerInv, Lingered, LingerSurvives, ResponseSurvives, Burst
  <2>4. Lingered' => pc' \in {"linger", "close", "closed"}
    BY <2>1, Zenon DEF LingerInv, Lingered
  <2>5. Burst' => sent' = 0
    BY <1>0, <2>1, <2>2, Zenon
  <2>6. (peer_closed' => fin' /\ klen' = 0) /\ (reset' => pc' = "closed")
    BY <2>1 DEF LingerInv
  <2>. QED
    BY <2>3, <2>4, <2>5, <2>6, Zenon DEF LingerInv
<1>2. CASE ClientRead \/ ClientFin \/ ClientReset \/ FileTruncate \/ BeginDrain
  <2>1. UNCHANGED <<peer_closed, pc, why, sent, klen, reset>> /\ (fin => fin')
        /\ (reset => acked' = acked)
    <3>1. CASE ClientRead
      BY <3>1, ZenonT(40) DEF ClientRead
    <3>2. CASE ClientFin
      BY <3>2, ZenonT(40) DEF ClientFin
    <3>3. CASE ClientReset
      BY <3>3, ZenonT(40) DEF ClientReset
    <3>4. CASE FileTruncate
      BY <3>4, ZenonT(40) DEF FileTruncate
    <3>5. CASE BeginDrain
      BY <3>5, ZenonT(40) DEF BeginDrain
    <3>. QED
      BY <1>2, <3>1, <3>2, <3>3, <3>4, <3>5, Zenon
  <2>. QED
    BY <1>0, <2>1, ZenonT(40) DEF LingerInv, Lingered, LingerSurvives, ResponseSurvives, Burst
<1>3. CASE Wake \/ DoRead \/ ProcessLoop \/ Feed \/ NeedInput \/ QueueError \/ Dispatch \/ DoWrite
  <2>1. /\ pc \in {"wait", "read", "process", "feed", "write"} /\ UNCHANGED <<fin, reset>>
        /\ why' = why \/ why' \in {"error", "aborted"}
    BY <1>3, ZenonT(40)
       DEF Wake, DoRead, ProcessLoop, Feed, NeedInput, QueueError, Dispatch, DoWrite,
           RecvData, RecvEof, RecvAgain, RecvError, ReadDone, Send, SendFile, WriteError,
           Refill, RefillShort, RefillFails
  <2>2. peer_closed' => fin /\ klen' = 0
    BY <1>3, ZenonT(40)
       DEF LingerInv, Wake, DoRead, ProcessLoop, Feed, NeedInput, QueueError, Dispatch, DoWrite,
           RecvData, RecvEof, RecvAgain, RecvError, ReadDone, ReadAllowed
  <2>. QED
    BY <2>1, <2>2, ZenonT(40) DEF LingerInv, Lingered, LingerSurvives, ResponseSurvives
<1>4. CASE DriveTurn
  <2>1. /\ pc = "write" /\ UNCHANGED <<fin, reset, klen, peer_closed>>
        /\ Lingered' => Lingered \/ pc' \in {"linger", "close"}
        /\ pc' = "close" => peer_closed
    BY <1>4, ZenonT(40) DEF DriveTurn, Lingered
  <2>. QED
    BY <2>1, ZenonT(40) DEF LingerInv, Lingered, LingerSurvives, ResponseSurvives
<1>5. CASE Linger
  <2>1. /\ UNCHANGED <<fin, reset, peer_closed, why, sent, acked>>
        /\ klen' = 0 \/ klen' = klen
        /\ pc = "linger" /\ pc' \in {"linger", "close"}
        /\ pc' = "close" => ~(klen > 0) /\ klen' = klen
    BY <1>5, ZenonT(40) DEF Linger
  <2>2. ~(klen > 0) => klen = 0
    BY DEF TypeOK, DataOK
  <2>. QED
    BY <2>1, <2>2, ZenonT(40) DEF LingerInv, Lingered, LingerSurvives, ResponseSurvives
<1>6. CASE CloseConnection
  <2>1. /\ UNCHANGED <<fin, peer_closed, why, sent, acked>> /\ klen' = 0 /\ pc = "close"
        /\ pc' = "closed" /\ (reset' => reset \/ klen > 0)
    BY <1>6, ZenonT(40) DEF CloseConnection, CloseSocket
  <2>2. (klen > 0 => klen # 0) /\ (sent = 0 => acked = 0)
    BY DEF TypeOK, DataOK
  <2>. QED
    BY <1>0, <2>1, <2>2, ZenonT(40) DEF LingerInv, Lingered, LingerSurvives, ResponseSurvives, Burst
<1>7. CASE Sweep
  <2>1. /\ UNCHANGED <<fin, peer_closed>> /\ klen' = 0 /\ pc' = "closed" /\ ~Lingered'
    BY <1>7, ZenonT(40) DEF Sweep, CloseSocket, Lingered
  <2>. QED
    BY <2>1, ZenonT(40) DEF LingerInv, Lingered, LingerSurvives
<1>. QED
  BY <1>1, <1>2, <1>3, <1>4, <1>5, <1>6, <1>7 DEF Next, Worker, Environment

\* A burst client never loses a response to an RST of a connection that ends after
\* its last response or after the client's half-close: shutdown(), then the drain of
\* what arrived, then close(), in drive().
THEOREM LingerKeepsResponses == Spec => []LingerSurvives
<1>1. Init => LingerInv
  BY ZenonT(40) DEF Init, LingerInv, Lingered, LingerSurvives, ResponseSurvives
<1>2. TypeOK /\ LingerInv /\ [Next]_vars => LingerInv'
  <2> SUFFICES ASSUME LingerInv, UNCHANGED vars PROVE LingerInv'
    BY NextLinger
  <2>. QED
    BY ZenonT(40)
       DEF LingerInv, Lingered, LingerSurvives, ResponseSurvives, Burst, vars, outside, clientVars,
           server, outVars, flagVars
<1>3. LingerInv => LingerSurvives
  BY DEF LingerInv
<1>. QED
  BY <1>1, <1>2, <1>3, FramingCorrect, PTL DEF Spec

=============================================================================
