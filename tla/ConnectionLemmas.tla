-------------------------- MODULE ConnectionLemmas --------------------------
(***************************************************************************)
(* The framing invariant of Connection, the facts about its operators, and *)
(* the steps outside do_write() that preserve it, for every value of the   *)
(* constants.                                                              *)
(***************************************************************************)
EXTENDS Connection, TLAPS

-----------------------------------------------------------------------------
(* The inductive invariant, in named parts.                                *)

LastUnit == hist[Len(hist)]

\* A response whose body is still being sent: `left` accounts for exactly the
\* units that its head announced and that have not been emitted.
SourceInv ==
  body_source_active =>
    /\ cur > 1 /\ hist # <<>> /\ ~continue_sent
    /\ Req(cur - 1).bad = "no" /\ HasBody(Req(cur - 1)) /\ left <= Req(cur - 1).n
    /\ LastUnit.id = cur - 1 /\ LastUnit.k = Req(cur - 1).n - left + 1
    /\ body_src = "file" => /\ Req(cur - 1).kind = "file" /\ left > 0 /\ avail <= left
    /\ body_src = "producer" =>
         /\ Req(cur - 1).kind \in {"sized", "stream"}
         /\ chunked = (Framing(Req(cur - 1)) = "Chunked")
         /\ stream_sized = (Req(cur - 1).kind = "sized")
         /\ stream_sized => left > 0

\* A response whose head said "Connection: close" is the last one.
ClosingInv == hist # <<>> /\ LastUnit.conn = "close" => close_after_write

\* No body in flight and no close decided: the output ends with the last unit of
\* the previous response, or with the interim response to the current request.
BetweenInv ==
  ~body_source_active /\ ~close_after_write =>
    \/ hist = <<>> /\ cur = 1 /\ ~continue_sent
    \/ hist # <<>> /\ LastUnit.id = cur /\ LastUnit.k = 0 /\ continue_sent
    \/ /\ hist # <<>> /\ cur > 1 /\ ~continue_sent
       /\ LastUnit.id = cur - 1 /\ LastUnit.k = LastK(Req(cur - 1))

\* The parser accepts what is well-formed, and its outcome is handled before
\* anything else happens.
ParserInv ==
  /\ pc = "feed" => ~close_after_write /\ ~body_source_active /\ out_pending < HighWater
  /\ state = "Headers" => Req(cur).bad # "line"
  /\ state = "Body" => Req(cur).bad \in {"no", "body"} /\ remaining > 0
  /\ state = "Done" => Req(cur).bad = "no" /\ pc = "feed"
  /\ state = "Error" => Req(cur).bad # "no" /\ (pc = "feed" \/ close_after_write)

FramingInv == TypeOK /\ SourceInv /\ ClosingInv /\ BetweenInv /\ ParserInv /\ Framed

-----------------------------------------------------------------------------
(* Operators.                                                              *)

\* A position of the cyclic script holds a request.
LEMMA ReqType ==
  ASSUME script \in Scripts, NEW i \in Nat \ {0}
  PROVE  /\ Req(i) \in Request
         /\ Req(i).bad = "body" => Req(i).body > 0
<1>1. script \in Seq(Request) /\ Len(script) \in Nat \ {0}
  BY ScriptsAssumption
<1>2. ((i - 1) % Len(script)) + 1 \in 1..Len(script)
  BY <1>1
<1>. QED
  BY <1>1, <1>2, ScriptsAssumption DEF Req

\* The last index of a response is a natural number.
LEMMA LastKType ==
  ASSUME NEW r \in Request
  PROVE  LastK(r) \in Nat
BY DEF LastK, Request

\* A sequence followed by m more elements.
LEMMA ConcatFacts ==
  ASSUME NEW S, NEW s \in Seq(S), NEW m \in Nat, NEW e \in [1..m -> S]
  PROVE  /\ s \o e \in Seq(S) /\ Len(s) \in Nat /\ Len(s \o e) = Len(s) + m
         /\ \A i \in 1..Len(s) : (s \o e)[i] = s[i]
         /\ \A i \in (Len(s) + 1)..(Len(s) + m) : (s \o e)[i] = e[i - Len(s)]
         /\ m = 0 => s \o e = s
<1>1. e \in Seq(S)
  OBVIOUS
<1>2. Len(e) = m
  OBVIOUS
<1>3. s \o e \in Seq(S) /\ Len(s) \in Nat /\ Len(s \o e) = Len(s) + m
  BY <1>1, <1>2
<1>4. \A i \in 1..Len(s) : (s \o e)[i] = s[i]
  BY <1>1, <1>2
<1>5. \A i \in (Len(s) + 1)..(Len(s) + m) : (s \o e)[i] = e[i - Len(s)]
  BY <1>1, <1>2
<1>6. m = 0 => s \o e = s
  BY <1>1, <1>2
<1>. QED
  BY <1>1, <1>2, <1>3, <1>4, <1>5, <1>6

\* What Emit returns: t is s, well framed, with m more units of which the last is
\* described by its fields.
Extended(s, t, id, k, m, conn) ==
  /\ t \in Seq(Unit) /\ Len(t) = Len(s) + m
  /\ WellFramed(t)
  /\ m = 0 => t = s
  /\ m > 0 => /\ t # <<>> /\ t[Len(t)].id = id /\ t[Len(t)].k = k + m - 1
              /\ t[Len(t)].conn = conn

\* Units that continue the output correctly keep it well framed.
LEMMA EmitExtends ==
  ASSUME script \in Scripts,
         NEW s \in Seq(Unit), NEW id \in Nat \ {0}, NEW k \in Nat,
         NEW m \in Nat, NEW conn \in {"close", "keep-alive"},
         WellFramed(s),
         m > 0 => /\ s = <<>> => id = 1 /\ k \in {0, 1}
                  /\ s # <<>> =>
                       Follows(s[Len(s)], [id |-> id, k |-> k, conn |-> conn])
                  /\ k + m - 1 <= LastK(Req(id))
  PROVE  Extended(s, Emit(s, id, k, m, conn), id, k, m, conn)
<1> DEFINE e == [i \in 1..m |-> [id |-> id, k |-> k + i - 1, conn |-> conn]]
           t == s \o e
<1>1. e \in [1..m -> Unit]
  BY DEF Unit
<1>2. \A i \in 1..m : e[i] = [id |-> id, k |-> k + i - 1, conn |-> conn]
  OBVIOUS
<1>3. Emit(s, id, k, m, conn) = t
  BY Zenon DEF Emit
<1> HIDE DEF e
<1>4. /\ t \in Seq(Unit) /\ Len(s) \in Nat /\ Len(t) = Len(s) + m
      /\ \A i \in 1..Len(s) : t[i] = s[i]
      /\ \A i \in (Len(s) + 1)..(Len(s) + m) : t[i] = e[i - Len(s)]
      /\ m = 0 => t = s
  BY <1>1, ConcatFacts, SMTT(30)
<1> HIDE DEF t
<1>5. \A i \in (Len(s) + 1)..(Len(s) + m) :
        t[i].id = id /\ t[i].k = k + (i - Len(s)) - 1 /\ t[i].conn = conn
  <2> TAKE i \in (Len(s) + 1)..(Len(s) + m)
  <2>1. i - Len(s) \in 1..m
    BY <1>4
  <2>2. e[i - Len(s)] = [id |-> id, k |-> k + (i - Len(s)) - 1, conn |-> conn]
    BY <1>2, <2>1, Zenon
  <2>3. t[i] = e[i - Len(s)]
    BY <1>4
  <2>. QED
    BY <2>2, <2>3
<1>6. LastK(Req(id)) \in Nat
  BY ReqType, LastKType
<1>7. t # <<>> => t[1].id = 1 /\ t[1].k \in {0, 1}
  <2>1. CASE s # <<>>
    <3>1. Len(s) # 0 /\ 1 \in 1..Len(s)
      BY <2>1, <1>4
    <3>. QED
      BY <2>1, <3>1, <1>4 DEF WellFramed
  <2>2. CASE s = <<>> /\ m > 0
    <3>1. Len(s) = 0 /\ 1 \in (Len(s) + 1)..(Len(s) + m)
      BY <2>2
    <3>. QED
      BY <2>2, <3>1, <1>5
  <2>3. CASE s = <<>> /\ m = 0
    BY <2>3, <1>4
  <2>. QED
    BY <2>1, <2>2, <2>3
<1>8. ASSUME NEW i \in 1..(Len(t) - 1)
      PROVE  Follows(t[i], t[i + 1])
  <2>1. CASE i < Len(s)
    <3>1. i \in 1..(Len(s) - 1) /\ i \in 1..Len(s) /\ i + 1 \in 1..Len(s)
      BY <2>1, <1>4
    <3>. QED
      BY <3>1, <1>4 DEF WellFramed
  <2>2. CASE i = Len(s)
    <3>1. i + 1 \in (Len(s) + 1)..(Len(s) + m) /\ i \in 1..Len(s) /\ m > 0
      BY <2>2, <1>4
    <3>2. t[i + 1].id = id /\ t[i + 1].k = k /\ t[i + 1].conn = conn
      <4>1. PICK n \in Nat : n = Len(s)
        BY <1>4, Zenon
      <4>2. k + ((i + 1) - n) - 1 = k
        BY <2>2, <4>1
      <4>3. /\ t[i + 1].id = id /\ t[i + 1].k = k + ((i + 1) - Len(s)) - 1
            /\ t[i + 1].conn = conn
        BY <1>5, <3>1, Zenon
      <4>. QED
        BY <4>1, <4>2, <4>3, Zenon
    <3>3. t[i] = s[Len(s)] /\ s # <<>>
      BY <2>2, <3>1, <1>4
    <3>. QED
      BY <3>1, <3>2, <3>3 DEF Follows
  <2>3. CASE i > Len(s)
    <3>1. /\ i \in (Len(s) + 1)..(Len(s) + m) /\ i + 1 \in (Len(s) + 1)..(Len(s) + m)
          /\ m > 0 /\ i + 1 <= Len(s) + m
      BY <2>3, <1>4
    <3>2. /\ t[i].id = id /\ t[i].k = k + (i - Len(s)) - 1
          /\ t[i + 1].id = id /\ t[i + 1].k = k + (i + 1 - Len(s)) - 1
      BY <3>1, <1>5, SMTT(30)
    <3>. QED
      BY <3>1, <3>2, <1>4, <1>6 DEF Follows
  <2>. QED
    BY <2>1, <2>2, <2>3, <1>4
<1>9. m > 0 => /\ t # <<>> /\ t[Len(t)].id = id /\ t[Len(t)].k = k + m - 1
               /\ t[Len(t)].conn = conn
  <2> HAVE m > 0
  <2>1. Len(t) \in (Len(s) + 1)..(Len(s) + m) /\ t # <<>>
    BY <1>4
  <2>. QED
    BY <2>1, <1>4, <1>5
<1>10. WellFramed(t)
  BY <1>7, <1>8, Zenon DEF WellFramed
<1>. QED
  BY <1>3, <1>4, <1>9, <1>10 DEF Extended

-----------------------------------------------------------------------------
(* The steps of the connection preserve the framing invariant.             *)

\* While the script is the same, requests and well-framedness are the same.
LEMMA SameScript ==
  ASSUME script' = script
  PROVE  /\ \A i : Req(i)' = Req(i)
         /\ \A s : WellFramed(s)' = WellFramed(s)
<1>1. \A i : Req(i)' = Req(i)
  BY Zenon DEF Req
<1>2. \A u, v : Follows(u, v)' <=> Follows(u, v)
  BY <1>1, ZenonT(40) DEF Follows
<1>3. \A s : WellFramed(s)' = WellFramed(s)
  BY <1>2, ZenonT(40) DEF WellFramed
<1>. QED
  BY <1>1, <1>3

\* Steps that neither add output nor touch the body source.
LEMMA QuietStep ==
  ASSUME FramingInv, TypeOK', ParserInv',
         UNCHANGED <<script, cur, hist, srcVars, close_after_write, continue_sent>>
  PROVE  FramingInv'
<1>1. \A i : Req(i)' = Req(i)
  BY SameScript
<1>2. LastUnit' = LastUnit
  BY DEF LastUnit
<1>3. SourceInv'
  BY <1>1, <1>2 DEF FramingInv, SourceInv, body_source_active, srcVars
<1>4. ClosingInv' /\ BetweenInv'
  BY <1>1, <1>2 DEF FramingInv, ClosingInv, BetweenInv, body_source_active, srcVars
<1>5. Framed'
  BY Zenon, SameScript DEF FramingInv, Framed
<1>. QED
  BY <1>3, <1>4, <1>5 DEF FramingInv

\* The client and the kernel add no output.
LEMMA ClientFraming ==
  ASSUME FramingInv,
         ClientSend \/ ClientRead \/ ClientFin \/ ClientReset \/ BeginDrain
  PROVE  FramingInv'
<1>0. FlagsOK /\ DataOK /\ ParserInv
  BY DEF FramingInv, TypeOK
<1>1. UNCHANGED <<script, server>>
  BY DEF ClientSend, ClientRead, ClientFin, ClientReset, BeginDrain, clientVars
<1>2. FlagsOK'
  <2> USE <1>0
      DEF FlagsOK, ClientSend, ClientRead, ClientFin, ClientReset, BeginDrain, clientVars
  <2>1. armed' \in BOOLEAN
    BY ZenonT(40)
  <2>2. reset' \in BOOLEAN
    BY ZenonT(40)
  <2>3. nospace' \in BOOLEAN
    BY ZenonT(40)
  <2>4. fin' \in BOOLEAN
    BY ZenonT(40)
  <2>5. rst' \in BOOLEAN
    BY ZenonT(40)
  <2>6. draining' \in BOOLEAN
    BY ZenonT(40)
  <2> HIDE DEF ClientSend, ClientRead, ClientFin, ClientReset, BeginDrain
  <2>. QED
    BY <1>1, <2>1, <2>2, <2>3, <2>4, <2>5, <2>6 DEF server, srcVars, flagVars
<1>3. /\ c_req' \in Nat \ {0} /\ c_pos' \in Nat /\ klen' \in Nat
      /\ acked' \in Nat /\ acked' <= sent /\ sent - acked' <= SndBuf
  <2> USE <1>0, ConstantsAssumption DEF DataOK, clientVars
  <2>1. CASE ClientSend
    BY <2>1 DEF ClientSend
  <2>2. CASE ClientRead
    BY <2>2 DEF ClientRead
  <2>3. CASE ClientFin \/ ClientReset \/ BeginDrain
    BY <2>3 DEF ClientFin, ClientReset, BeginDrain
  <2>. QED
    BY <2>1, <2>2, <2>3
<1>4. DataOK'
  BY <1>0, <1>1, <1>3 DEF DataOK, server, parserVars, outVars, srcVars
<1>5. ParserInv'
  BY <1>0, <1>1, SameScript
     DEF ParserInv, body_source_active, out_pending, server, parserVars, outVars, srcVars,
         flagVars
<1>. QED
  BY <1>1, <1>2, <1>4, <1>5, QuietStep DEF TypeOK, server, parserVars, outVars, srcVars, flagVars

\* Neither do the worker's steps outside feed() and do_write().
LEMMA WorkerFraming ==
  ASSUME FramingInv,
         Wake \/ DoRead \/ ProcessLoop \/ DriveTurn \/ Linger \/ CloseConnection \/ Sweep
  PROVE  FramingInv'
<1>0. FlagsOK /\ DataOK /\ ParserInv
  BY SMTT(30) DEF FramingInv, TypeOK
<1> USE DEF outside, clientVars, parserVars, outVars, srcVars, flagVars
<1>1. /\ UNCHANGED <<clientVars, draining, acked, state, cur, blank, remaining, outVars,
                     srcVars, close_after_write, continue_sent>>
      /\ pc' = "feed" => ProcessAllowed
      /\ pc # "feed"
  BY ZenonT(40) DEF Wake, DoRead, RecvData, RecvEof, RecvAgain, RecvError, ReadDone, ProcessLoop,
         DriveTurn, Linger, CloseConnection, Sweep, CloseSocket
<1>2. FlagsOK'
  <2> USE <1>0
      DEF FlagsOK, Wake, DoRead, RecvData, RecvEof, RecvAgain, RecvError, ReadDone,
          ProcessLoop, DriveTurn, Linger, CloseConnection, Sweep, CloseSocket
  <2>1. armed' \in BOOLEAN
    BY ZenonT(40)
  <2>2. reset' \in BOOLEAN
    BY ZenonT(40)
  <2>3. nospace' \in BOOLEAN
    BY ZenonT(40)
  <2>4. progress' \in BOOLEAN
    BY ZenonT(40)
  <2>5. can_read' \in BOOLEAN
    BY ZenonT(40)
  <2>6. can_write' \in BOOLEAN
    BY ZenonT(40)
  <2>7. peer_closed' \in BOOLEAN
    BY ZenonT(40)
  <2>8. request_start' \in BOOLEAN
    BY ZenonT(40)
  <2> HIDE DEF Wake, DoRead, ProcessLoop, DriveTurn, Linger, CloseConnection, Sweep
  <2>. QED
    BY <1>1, <2>1, <2>2, <2>3, <2>4, <2>5, <2>6, <2>7, <2>8, SMTT(30)
<1>3. DataOK'
  <2> DEFINE Places == {"wait", "read", "process", "feed", "write", "linger", "close", "closed"}
             Reasons == {"open", "error", "aborted", "finished", "eof", "drained",
                         "header_timeout", "idle_timeout", "deadline"}
  <2> SUFFICES klen' \in Nat /\ in_len' \in Nat /\ pc' \in Places /\ why' \in Reasons
    BY <1>0, <1>1, ZenonT(40) DEF DataOK
  <2>0. klen \in Nat /\ in_len \in Nat /\ pc \in Places /\ why \in Reasons
    BY <1>0, ZenonT(40) DEF DataOK
  <2>z. 0 \in Nat
    OBVIOUS
  <2>1. CASE Wake
    BY <2>0, <2>1, ZenonT(40) DEF Wake
  <2>2. CASE DoRead
    <3>1. PICK n : n = Smaller(klen, ReadSize)
      BY Zenon
    <3>2. n \in 0..klen
      BY <2>0, <3>1, ConstantsAssumption DEF Smaller
    <3>3. klen - n \in Nat /\ in_len + n \in Nat
      BY <2>0, <3>2
    <3>. QED
      BY <2>0, <2>2, <3>1, <3>3, ZenonT(40)
         DEF DoRead, RecvData, RecvEof, RecvAgain, RecvError, ReadDone
  <2>3. CASE ProcessLoop
    BY <2>0, <2>3, ZenonT(40) DEF ProcessLoop
  <2>4. CASE DriveTurn
    BY <2>0, <2>4, ZenonT(40) DEF DriveTurn
  <2>5. CASE Linger
    BY <2>0, <2>z, <2>5, ZenonT(40) DEF Linger
  <2>6. CASE CloseConnection \/ Sweep
    BY <2>0, <2>z, <2>6, ZenonT(40) DEF CloseConnection, Sweep, CloseSocket
  <2>. QED
    BY <2>1, <2>2, <2>3, <2>4, <2>5, <2>6, ZenonT(40)
<1>4. ParserInv'
  BY <1>0, <1>1, SameScript
     DEF ParserInv, body_source_active, out_pending, ProcessAllowed
<1>. QED
  BY <1>1, <1>2, <1>3, <1>4, QuietStep DEF TypeOK

\* feed() consumes input and moves the parser.
LEMMA FeedFraming ==
  ASSUME FramingInv, Feed
  PROVE  FramingInv'
<1>0. FlagsOK /\ DataOK /\ ParserInv
  BY DEF FramingInv, TypeOK
<1>1. /\ UNCHANGED <<outside, klen, nospace, armed, pc, why, cur, outVars, srcVars, flagVars>>
      /\ pc = "feed"
  BY DEF Feed
<1>2. Req(cur) \in Request /\ (Req(cur).bad = "body" => Req(cur).body > 0) /\ Req(cur)' = Req(cur)
  BY <1>0, <1>1, ReqType, SameScript DEF DataOK, outside, clientVars
<1>3. FlagsOK'
  <2>1. progress' \in BOOLEAN
    BY <1>0, ZenonT(40)
       DEF FlagsOK, Feed, FeedBlankLine, FeedRequestLine, FeedHeaders, FeedBody
  <2>. QED
    BY <1>0, <1>1, <2>1 DEF FlagsOK, outside, clientVars, srcVars, flagVars
<1>4. /\ in_len' \in Nat /\ blank' \in Nat /\ remaining' \in Nat
      /\ state' = "Headers" => Req(cur).bad # "line"
      /\ state' = "Body" => Req(cur).bad \in {"no", "body"} /\ remaining' > 0
      /\ state' = "Done" => Req(cur).bad = "no"
      /\ state' = "Error" => Req(cur).bad # "no"
      /\ state' \in {"RequestLine", "Headers", "Body", "Done", "Error"}
  <2> USE <1>0, <1>2 DEF DataOK, ParserInv, Request
  <2>1. CASE FeedBlankLine
    BY <2>1 DEF FeedBlankLine
  <2>2. CASE FeedRequestLine
    BY <2>2 DEF FeedRequestLine
  <2>3. CASE FeedHeaders
    BY <2>3, SMTT(30) DEF FeedHeaders
  <2>4. CASE FeedBody
    BY <2>4 DEF FeedBody, Smaller
  <2>. QED
    BY <2>1, <2>2, <2>3, <2>4, SMTT(30) DEF Feed
<1>5. DataOK'
  BY <1>0, <1>1, <1>4 DEF DataOK, outside, clientVars, outVars, srcVars, flagVars
<1>6. ParserInv'
  BY <1>0, <1>1, <1>2, <1>4
     DEF ParserInv, body_source_active, out_pending, outVars, srcVars, flagVars
<1>. QED
  BY <1>1, <1>3, <1>5, <1>6, QuietStep DEF TypeOK, outside, clientVars, outVars, flagVars

\* Between two responses the output may continue with the response to `cur`.
LEMMA NextResponse ==
  ASSUME FramingInv, pc = "feed",
         NEW k \in {0, 1}, NEW m \in Nat, NEW conn \in {"close", "keep-alive"},
         k = 0 => ~continue_sent, k + m - 1 <= LastK(Req(cur))
  PROVE  Extended(hist, Emit(hist, cur, k, m, conn), cur, k, m, conn)
<1>1. /\ script \in Scripts /\ hist \in Seq(Unit) /\ cur \in Nat \ {0} /\ k \in Nat
      /\ WellFramed(hist)
  BY DEF FramingInv, TypeOK, DataOK, Framed
<1>2. ~close_after_write /\ ~body_source_active
  BY DEF FramingInv, ParserInv
<1>3. hist = <<>> => cur = 1
  BY <1>2 DEF FramingInv, BetweenInv
<1>4. ASSUME hist # <<>>
      PROVE  Follows(hist[Len(hist)], [id |-> cur, k |-> k, conn |-> conn])
  <2>1. LastK(Req(cur)) >= 1
    <3>1. Req(cur) \in Request
      BY <1>1, ReqType
    <3>. QED
      BY <3>1, LastKType DEF LastK, Request
  <2>2. LastUnit.conn # "close"
    BY <1>2, <1>4, SMTT(30) DEF FramingInv, ClosingInv
  <2>3. CASE LastUnit.id = cur /\ LastUnit.k = 0 /\ continue_sent
    BY <2>1, <2>3, SMTT(30) DEF Follows, LastUnit
  <2>4. CASE cur > 1 /\ LastUnit.id = cur - 1 /\ LastUnit.k = LastK(Req(cur - 1))
    BY <1>1, <2>2, <2>4 DEF Follows, LastUnit
  <2>. QED
    BY <1>2, <1>4, <2>3, <2>4 DEF FramingInv, BetweenInv
<1>. QED
  BY <1>1, <1>3, <1>4, EmitExtends, ZenonT(40)

\* The body in flight continues where its file or producer left off.
LEMMA SourceEmit ==
  ASSUME FramingInv, body_source_active,
         NEW m \in Nat, NEW conn \in {"close", "keep-alive"},
         NextK + m - 1 <= LastK(Req(cur - 1))
  PROVE  /\ NextK \in Nat /\ NextK + m - 1 = Req(cur - 1).n - left + 1 + m
         /\ Extended(hist, Emit(hist, cur - 1, NextK, m, conn), cur - 1, NextK, m, conn)
<1>1. /\ script \in Scripts /\ hist \in Seq(Unit) /\ cur - 1 \in Nat \ {0}
      /\ WellFramed(hist)
  BY DEF FramingInv, TypeOK, DataOK, Framed, SourceInv
<1>2. Req(cur - 1) \in Request
  BY <1>1, ReqType, ZenonT(40)
<1>3. /\ NextK \in Nat /\ NextK + m - 1 = Req(cur - 1).n - left + 1 + m
      /\ LastUnit.id = cur - 1 /\ NextK = LastUnit.k + 1 /\ hist # <<>>
  <2>1. Req(cur - 1).n \in Nat /\ left \in Nat
    BY <1>2 DEF FramingInv, TypeOK, DataOK, Request
  <2>2. /\ left <= Req(cur - 1).n /\ LastUnit.id = cur - 1 /\ hist # <<>>
        /\ LastUnit.k = Req(cur - 1).n - left + 1
    BY DEF FramingInv, SourceInv
  <2>. QED
    <3>1. PICK a \in Nat, b \in Nat : a = Req(cur - 1).n /\ b = left
      BY <2>1, Zenon
    <3>2. b <= a /\ LastUnit.k = a - b + 1 /\ NextK = a - b + 2
      BY <2>2, <3>1, ZenonT(40) DEF NextK
    <3>3. a - b + 2 \in Nat /\ a - b + 2 + m - 1 = a - b + 1 + m /\ a - b + 2 = a - b + 1 + 1
      BY <3>2
    <3>. QED
      BY <2>2, <3>1, <3>2, <3>3, ZenonT(40)
<1>4. LastK(Req(cur - 1)) \in Nat
  BY <1>2, LastKType
<1>5. m > 0 => Follows(hist[Len(hist)], [id |-> cur - 1, k |-> NextK, conn |-> conn])
  BY <1>1, <1>3, <1>4 DEF Follows, LastUnit
<1>. QED
  BY <1>1, <1>3, <1>5, EmitExtends, ZenonT(40)

\* process() asks for more input, possibly after queueing "100 Continue".
LEMMA NeedInputFraming ==
  ASSUME FramingInv, NeedInput
  PROVE  FramingInv'
<1>0. FlagsOK /\ DataOK /\ ParserInv
  BY DEF FramingInv, TypeOK
<1> DEFINE interim == Req(cur).expect /\ ~continue_sent /\ headers_complete
<1>1. /\ UNCHANGED <<outside, klen, nospace, armed, why, parserVars, sent, srcVars, can_read,
                     can_write, peer_closed, close_after_write, request_start>>
      /\ pc = "feed" /\ pc' = "write" /\ state \notin {"Done", "Error"}
      /\ hist' = IF interim THEN Emit(hist, cur, 0, 1, "keep-alive") ELSE hist
      /\ continue_sent' = (continue_sent \/ interim)
      /\ progress' = (progress \/ interim)
  BY DEF NeedInput
<1>2. FlagsOK'
  BY <1>0, <1>1, SMTT(30) DEF FlagsOK, outside, clientVars, srcVars
<1>3. Req(cur) \in Request /\ LastK(Req(cur)) \in Nat /\ \A i : Req(i)' = Req(i)
  BY <1>0, <1>1, ReqType, LastKType, SameScript, SMTT(30) DEF DataOK, outside, clientVars
<1>4. ParserInv'
  BY <1>0, <1>1, <1>3 DEF ParserInv, parserVars
<1>5. CASE interim
  <2>1. Extended(hist, hist', cur, 0, 1, "keep-alive")
    BY <1>1, <1>3, <1>5, NextResponse, SMTT(30)
  <2>2. DataOK'
    BY <1>0, <1>1, <2>1
       DEF Extended, DataOK, outside, clientVars, parserVars, srcVars
  <2>3. ~body_source_active' /\ ~close_after_write'
    BY <1>0, <1>1 DEF ParserInv, body_source_active, srcVars
  <2>4. hist' # <<>> /\ LastUnit'.id = cur /\ LastUnit'.k = 0 /\ LastUnit'.conn = "keep-alive"
    BY <2>1, SMTT(30) DEF Extended, LastUnit
  <2>5. SourceInv' /\ ClosingInv' /\ BetweenInv'
    BY <1>1, <1>5, <2>3, <2>4, ZenonT(40) DEF SourceInv, ClosingInv, BetweenInv, parserVars
  <2>6. Framed'
    BY <1>1, <2>1, SameScript, ZenonT(40) DEF Extended, Framed, outside, clientVars
  <2>. QED
    BY <1>2, <1>4, <2>2, <2>5, <2>6 DEF FramingInv, TypeOK
<1>6. CASE ~interim
  <2>1. UNCHANGED <<script, cur, hist, srcVars, close_after_write, continue_sent>>
    BY <1>0, <1>1, <1>6, SMTT(30) DEF FlagsOK, outside, clientVars, parserVars
  <2>2. DataOK'
    BY <1>0, <1>1, <2>1 DEF DataOK, outside, clientVars, parserVars, srcVars
  <2>. QED
    BY <1>2, <1>4, <2>1, <2>2, QuietStep DEF TypeOK
<1>. QED
  BY <1>5, <1>6

\* queue_error() adds the last response of the connection.
LEMMA QueueErrorFraming ==
  ASSUME FramingInv, QueueError
  PROVE  FramingInv'
<1>0. FlagsOK /\ DataOK /\ ParserInv
  BY DEF FramingInv, TypeOK
<1>1. /\ UNCHANGED <<outside, klen, nospace, armed, why, parserVars, sent, srcVars, can_read,
                     can_write, peer_closed, continue_sent>>
      /\ pc = "feed" /\ pc' = "write" /\ state = "Error"
      /\ hist' = Emit(hist, cur, 1, 2, "close")
      /\ close_after_write' = TRUE /\ request_start' = FALSE /\ progress' = TRUE
  BY DEF QueueError
<1>2. FlagsOK'
  <2>1. UNCHANGED <<draining, fin, rst, nospace, armed, reset, chunked, stream_sized, can_read,
                    can_write, peer_closed, continue_sent>>
    BY <1>1 DEF outside, clientVars, srcVars
  <2>2. progress' \in BOOLEAN /\ close_after_write' \in BOOLEAN /\ request_start' \in BOOLEAN
    BY <1>1, Zenon
  <2>. QED
    BY <1>0, <2>1, <2>2 DEF FlagsOK
<1>3. LastK(Req(cur)) = 2
  BY <1>0, <1>1 DEF ParserInv, LastK
<1>4. Extended(hist, hist', cur, 1, 2, "close")
  BY <1>1, <1>3, NextResponse, SMTT(30)
<1>5. DataOK'
  BY <1>0, <1>1, <1>4, SMTT(30) DEF Extended, DataOK, outside, clientVars, parserVars, srcVars
<1>6. ParserInv'
  BY <1>0, <1>1, SameScript, SMTT(30) DEF ParserInv, parserVars, outside, clientVars
<1>7. SourceInv' /\ ClosingInv' /\ BetweenInv'
  <2>1. SourceInv'
    BY <1>0, <1>1, SMTT(30) DEF ParserInv, SourceInv, body_source_active, srcVars
  <2>2. ClosingInv' /\ BetweenInv'
    BY <1>1, Zenon DEF ClosingInv, BetweenInv
  <2>. QED
    BY <2>1, <2>2
<1>8. Framed'
  BY <1>1, <1>4, SameScript DEF Extended, Framed, outside, clientVars
<1>. QED
  BY <1>2, <1>5, <1>6, <1>7, <1>8 DEF FramingInv, TypeOK

\* dispatch() adds the head of a response and its inline body, and leaves the rest
\* of the body to a file or a producer.
LEMMA DispatchFraming ==
  ASSUME FramingInv, Dispatch
  PROVE  FramingInv'
<1>0. FlagsOK /\ DataOK /\ ParserInv
  BY DEF FramingInv, TypeOK
<1> DEFINE r == Req(cur)
           closing == ~KeepAlive(r) \/ Framing(r) = "CloseDelimited"
           inline == IF HasBody(r) /\ r.kind = "inline" THEN r.n ELSE 0
           fromFile == HasBody(r) /\ r.kind = "file" /\ r.n > 0
           fromProducer == HasBody(r) /\ r.kind \in {"sized", "stream"}
<1>1. /\ UNCHANGED <<outside, klen, nospace, armed, why, in_len, remaining, sent, can_read,
                     can_write, peer_closed>>
      /\ pc = "feed" /\ pc' = "process" /\ state = "Done" /\ state' = "RequestLine"
      /\ cur' = cur + 1 /\ blank' = Req(cur + 1).blank
      /\ continue_sent' = FALSE /\ request_start' = FALSE /\ progress' = TRUE
  BY ZenonT(40) DEF Dispatch
<1>2. /\ hist' = Emit(hist, cur, 1, 1 + inline, ConnectionHeader(closing))
      /\ close_after_write' = (close_after_write \/ closing)
      /\ body_src' = IF fromFile THEN "file"
                     ELSE IF fromProducer /\ ~(r.kind = "sized" /\ r.n = 0) THEN "producer"
                     ELSE body_src
      /\ left' = IF fromFile \/ fromProducer THEN r.n ELSE left
      /\ avail' = IF fromFile THEN r.n ELSE avail
      /\ chunked' = IF fromProducer THEN Framing(r) = "Chunked" ELSE chunked
      /\ stream_sized' = IF fromProducer THEN r.kind = "sized" ELSE stream_sized
  BY SMTT(30) DEF Dispatch
<1>3. /\ r \in Request /\ Req(cur + 1) \in Request /\ LastK(r) \in Nat /\ r.bad = "no"
      /\ \A i : Req(i)' = Req(i)
  BY <1>0, <1>1, ReqType, LastKType, SameScript, SMTT(30) DEF DataOK, ParserInv, outside, clientVars
<1>4. /\ body_src = "none" /\ ~close_after_write
      /\ closing \in BOOLEAN /\ ConnectionHeader(closing) \in {"close", "keep-alive"}
      /\ ConnectionHeader(closing) = "close" => closing
  BY <1>0, <1>1 DEF ParserInv, body_source_active, ConnectionHeader
<1>5. /\ inline \in Nat /\ 1 + inline <= LastK(r)
      /\ ~fromFile /\ ~(fromProducer /\ ~(r.kind = "sized" /\ r.n = 0)) => 1 + inline = LastK(r)
      /\ fromFile \/ fromProducer => inline = 0
  BY <1>3, SMTT(30) DEF LastK, HasBody, Framing, Request
<1>6. Extended(hist, hist', cur, 1, 1 + inline, ConnectionHeader(closing))
  <2>1. PICK m, conn : m = 1 + inline /\ conn = ConnectionHeader(closing)
    BY Zenon
  <2>2. m \in Nat /\ 1 + m - 1 <= LastK(Req(cur))
    <3> HIDE DEF inline, closing
    <3>. QED
      BY <1>3, <1>5, <2>1
  <2>3. 1 \in {0, 1} /\ (1 = 0 => ~continue_sent)
    OBVIOUS
  <2>4. Extended(hist, Emit(hist, cur, 1, m, conn), cur, 1, m, conn)
    BY <1>1, <1>4, <2>1, <2>2, <2>3, NextResponse, ZenonT(40)
  <2>. QED
    BY <1>2, <2>1, <2>4, ZenonT(40)
<1>7. /\ hist' # <<>> /\ LastUnit'.id = cur /\ LastUnit'.k = 1 + inline
      /\ LastUnit'.conn = ConnectionHeader(closing)
      /\ hist' \in Seq(Unit) /\ Len(hist') >= Len(hist)
  <2> HIDE DEF inline, closing
  <2>. QED
    BY <1>0, <1>5, <1>6 DEF Extended, LastUnit, DataOK
<1>8. FlagsOK'
  <2>1. chunked' \in BOOLEAN /\ stream_sized' \in BOOLEAN
    BY <1>0, <1>2, ZenonT(40) DEF FlagsOK
  <2>2. close_after_write' \in BOOLEAN
    BY <1>2, <1>4, SMTT(30)
  <2>. QED
    BY <1>0, <1>1, <2>1, <2>2, ZenonT(40) DEF FlagsOK, outside, clientVars
<1>9. DataOK'
  <2>1. left' \in Nat /\ avail' \in Nat /\ body_src' \in {"none", "file", "producer"}
    BY <1>0, <1>2, <1>3 DEF DataOK, Request
  <2>2. blank' \in Nat
    BY <1>1, <1>3 DEF Request
  <2>. QED
    <3>1. cur + 1 \in Nat \ {0}
      BY <1>0 DEF DataOK
    <3>2. sent <= Len(hist')
      BY <1>0, <1>7 DEF DataOK
    <3>. QED
      BY <1>0, <1>1, <1>7, <2>1, <2>2, <3>1, <3>2, ZenonT(40) DEF DataOK, outside, clientVars
<1>10. ParserInv'
  BY <1>1 DEF ParserInv
<1>11. Req(cur - 1)' = r /\ cur' - 1 = cur /\ cur' > 1
  <2>1. cur' - 1 = cur /\ cur' > 1
    BY <1>0, <1>1 DEF DataOK
  <2>. QED
    BY <1>1, <2>1, ZenonT(40) DEF Req, outside, clientVars
<1>12. SourceInv'
  <2> SUFFICES ASSUME body_source_active' PROVE SourceInv'
    BY Zenon DEF SourceInv
  <2>1. fromFile \/ (fromProducer /\ ~(r.kind = "sized" /\ r.n = 0))
    BY <1>2, <1>4, SMTT(30) DEF body_source_active
  <2>2. left' = r.n /\ LastUnit'.k = 1 /\ r.n \in Nat /\ HasBody(r)
    <3>1. fromFile \/ fromProducer
      BY <2>1
    <3>2. HasBody(r)
      BY <3>1
    <3>3. r.n \in Nat
      BY <1>3 DEF Request
    <3> HIDE DEF r, fromFile, fromProducer, inline, closing
    <3>4. left' = r.n
      BY <1>2, <3>1
    <3>5. LastUnit'.k = 1
      BY <1>5, <1>7, <3>1
    <3>. QED
      BY <3>2, <3>3, <3>4, <3>5
  <2>3. body_src' = "file" =>
          r.kind = "file" /\ left' > 0 /\ avail' = left'
    BY <2>1, <2>2, <1>2, ZenonT(40)
  <2>4. body_src' = "producer" =>
          /\ r.kind \in {"sized", "stream"} /\ chunked' = (Framing(r) = "Chunked")
          /\ stream_sized' = (r.kind = "sized") /\ (stream_sized' => left' > 0)
    <3> HAVE body_src' = "producer"
    <3>1. r.kind \in {"sized", "stream"} /\ fromProducer /\ ~(r.kind = "sized" /\ r.n = 0)
      BY <1>2, <1>4, Zenon
    <3>2. chunked' = (Framing(r) = "Chunked") /\ stream_sized' = (r.kind = "sized")
      <4> HIDE DEF r, fromProducer
      <4>. QED
        BY <1>2, <3>1, Zenon
    <3>3. stream_sized' => left' > 0
      <4>1. r.kind = "sized" => left' > 0
        BY <3>1, <2>2
      <4>. QED
        BY <3>2, <4>1, Zenon
    <3>. QED
      BY <3>1, <3>2, <3>3, Zenon
  <2>5. left' <= r.n /\ LastUnit'.k = r.n - left' + 1 /\ (avail' = left' => avail' <= left')
    BY <2>2, SMTT(30)
  <2> HIDE DEF r, fromFile, fromProducer, inline, closing
  <2>. QED
    BY <2>2, <2>3, <2>4, <2>5, <1>1, <1>3, <1>7, <1>11, ZenonT(40) DEF SourceInv
<1>13. ClosingInv'
  BY <1>2, <1>4, <1>7, ZenonT(40) DEF ClosingInv
<1>14. BetweenInv'
  BY <1>1, <1>2, <1>4, <1>5, <1>7, <1>11, ZenonT(40) DEF BetweenInv, body_source_active
<1>15. Framed'
  BY <1>1, <1>6, SameScript, ZenonT(40) DEF Extended, Framed, outside, clientVars
<1>. QED
  BY <1>8, <1>9, <1>10, <1>12, <1>13, <1>14, <1>15, ZenonT(40) DEF FramingInv, TypeOK

=============================================================================
