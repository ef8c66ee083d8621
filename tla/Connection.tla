----------------------------- MODULE Connection -----------------------------
(***************************************************************************)
(* One client connection of a Server::Worker (src/server/server.cpp): the  *)
(* edge-triggered socket, the input buffer, the incremental parser seen    *)
(* from outside, the output queue with its body source, and drive(), which *)
(* ties them together, next to a client that sends, reads, half-closes and *)
(* resets at any moment between two system calls of the worker.            *)
(*                                                                         *)
(* Bytes are counted in units.  The output is an append-only stream read   *)
(* through cursors: `hist` is every unit the server ever serialized, of    *)
(* which `sent` were accepted by the kernel and `acked` were read by the   *)
(* client, so out_pending() is Len(hist) - sent.  The input stream is      *)
(* fixed by `script`; klen units of it are in the kernel, in_len in `in`.  *)
(***************************************************************************)
EXTENDS Integers, Sequences

CONSTANTS
  Scripts,      \* request sequences a client may send, repeated cyclically
  MaxRequests,  \* how many requests the client sends at most (bound)
  MaxIn,        \* max_in_buffer_: do_read stops at this much buffered input
  ReadSize,     \* kReadSize: one recv() takes at most this much
  RcvBuf,       \* capacity of the kernel's receive queue
  SndBuf,       \* capacity between send() and the client's read
  LowWat,       \* free space at which the kernel reports EPOLLOUT again
  HighWater,    \* kOutHighWater
  LowWater,     \* kProducerLowWater
  SendfileMax,  \* kSendfileMax
  Faults        \* which events of the environment happen in this instance

AllFaults == {"reset", "fin", "drain", "timeout", "truncate", "abort", "short"}

\* A request as the connection sees it: blank lines ahead of it, lengths of its
\* request line, header block and body, where the parser rejects it if it does,
\* and the response its handler builds, of n body units.  Who sends it: a "free"
\* client at any time, a "lockstep" client after the response before it, a "burst"
\* client only while no response unit has left.
Request ==
  [blank : Nat, line : 1..MaxIn, fields : 1..MaxIn, body : Nat,
   bad : {"no", "line", "fields", "body"},
   expect : BOOLEAN, keep : BOOLEAN, head : BOOLEAN, http10 : BOOLEAN,
   kind : {"none", "inline", "file", "sized", "stream"}, n : Nat,
   client : {"free", "lockstep", "burst"}]

ASSUME ConstantsAssumption ==
  /\ MaxRequests \in Nat \ {0} /\ MaxIn \in Nat \ {0}
  /\ ReadSize \in Nat \ {0} /\ RcvBuf \in Nat \ {0}
  /\ SndBuf \in Nat \ {0} /\ LowWat \in 1..SndBuf
  /\ HighWater \in Nat \ {0} /\ LowWater \in Nat \ {0}
  /\ SendfileMax \in Nat \ {0}
  /\ Faults \subseteq AllFaults

\* Every line fits the input buffer: the parser fails a partial line before it
\* outgrows max_request_line + max_header_bytes, and max_in_buffer_ is larger.
ASSUME ScriptsAssumption ==
  \A s \in Scripts : /\ s \in Seq(Request) /\ Len(s) > 0
                    /\ \A i \in 1..Len(s) : s[i].bad = "body" => s[i].body > 0

VARIABLES
  script, draining,               \* the client's requests; Worker::draining_
  c_req, c_pos, fin, rst,         \* client: units of request c_req sent; FIN, RST sent
  klen, acked, nospace, armed,    \* kernel: unread input, units the client read,
                                  \*   SOCK_NOSPACE, fd on epoll's ready list
  reset,                          \* the server's kernel has sent RST
  pc, progress, why,              \* where the worker is in drive(); reason of the end
  in_len, state, cur, blank, remaining,    \* Connection::in and parser, at request cur
  hist, sent,                     \* out: serialized units, how many the kernel took
  body_src, left, avail,          \* file or producer; file_left / stream_left; file size
  chunked, stream_sized,
  can_read, can_write, peer_closed, close_after_write, continue_sent,
  request_start                   \* request_start_us # 0

clientVars == <<script, c_req, c_pos, fin, rst>>
outside == <<clientVars, draining, acked, reset>>
parserVars == <<in_len, state, cur, blank, remaining>>
outVars == <<hist, sent>>
srcVars == <<body_src, left, avail, chunked, stream_sized>>
flagVars == <<can_read, can_write, peer_closed, close_after_write, continue_sent,
              request_start>>
server == <<pc, progress, why, parserVars, outVars, srcVars, flagVars>>
vars == <<outside, klen, nospace, armed, server>>

-----------------------------------------------------------------------------
(* Requests and the shape of their responses.                              *)

Smaller(a, b) == IF a <= b THEN a ELSE b

Req(i) == script[((i - 1) % Len(script)) + 1]

\* write_head: which delimiter ends the body of the response to r.
Framing(r) ==
  CASE r.kind = "none" -> "None"
    [] r.kind = "stream" -> IF r.http10 THEN "CloseDelimited" ELSE "Chunked"
    [] OTHER -> "ContentLength"

HasBody(r) == ~r.head /\ Framing(r) # "None"

\* Index of the last unit of the response to r: 0 is an interim "100 Continue", 1
\* its head, an error response has one body unit, a chunked body the last-chunk.
LastK(r) ==
  IF r.bad # "no" THEN 2
  ELSE IF ~HasBody(r) THEN 1
  ELSE IF Framing(r) = "Chunked" THEN r.n + 2 ELSE r.n + 1

\* s with m more units of response id, from index k on; `conn` is what its head
\* said about the connection.
Emit(s, id, k, m, conn) ==
  s \o [i \in 1..m |-> [id |-> id, k |-> k + i - 1, conn |-> conn]]

ConnectionHeader(closing) == IF closing THEN "close" ELSE "keep-alive"

out_pending == Len(hist) - sent
body_source_active == body_src # "none"
has_output == out_pending > 0 \/ body_source_active

Free == SndBuf - (sent - acked)
Writable == Free >= LowWat
Readable == klen > 0 \/ fin \/ rst

\* RequestParser::headers_complete() and started().
headers_complete == state \in {"Body", "Done"}
started == state # "RequestLine"

\* feed() has a complete line, or body bytes, to work on.
FeedReady ==
  \/ state = "RequestLine" /\ in_len >= (IF blank > 0 THEN 1 ELSE Req(cur).line)
  \/ state = "Headers" /\ in_len >= Req(cur).fields
  \/ state = "Body" /\ in_len > 0

-----------------------------------------------------------------------------
(* The client, and the kernel's reaction to it.                            *)

ResponseRead(i) ==
  acked > 0 /\ (hist[acked].id > i \/ (hist[acked].id = i /\ hist[acked].k = LastK(Req(i))))

\* A lockstep client starts request i + 1 after the whole response to i, and
\* sends the body of an Expect request after the interim or final response.
MaySend ==
  LET r == Req(c_req) IN
  /\ c_req <= MaxRequests /\ ~fin /\ ~rst /\ ~reset
  /\ r.client = "lockstep" =>
       /\ c_pos = 0 /\ c_req > 1 => ResponseRead(c_req - 1)
       /\ r.expect /\ c_pos >= r.blank + r.line + r.fields
            => acked > 0 /\ hist[acked].id = c_req
  /\ r.client = "burst" => sent = 0

\* Input for a closed socket is answered with RST.
ClientSend ==
  LET r == Req(c_req) IN
  /\ MaySend /\ klen < RcvBuf
  /\ IF c_pos + 1 = r.blank + r.line + r.fields + r.body
     THEN c_req' = c_req + 1 /\ c_pos' = 0
     ELSE c_pos' = c_pos + 1 /\ UNCHANGED c_req
  /\ IF pc = "closed" THEN reset' = TRUE /\ UNCHANGED <<klen, armed>>
     ELSE klen' = klen + 1 /\ armed' = TRUE /\ UNCHANGED reset
  /\ UNCHANGED <<script, fin, rst, draining, acked, nospace, server>>

\* Reading frees send space; EPOLLOUT is raised only if the kernel had noted
\* that a writer ran out of it.
ClientRead ==
  /\ acked < sent /\ ~rst /\ ~reset
  /\ acked' = acked + 1
  /\ IF nospace /\ Free + 1 >= LowWat THEN armed' = TRUE /\ nospace' = FALSE
     ELSE UNCHANGED <<armed, nospace>>
  /\ UNCHANGED <<clientVars, draining, klen, reset, server>>

ClientFin ==
  /\ "fin" \in Faults /\ ~fin /\ ~rst /\ ~reset
  /\ fin' = TRUE /\ armed' = TRUE
  /\ UNCHANGED <<script, c_req, c_pos, rst, draining, acked, reset, klen, nospace, server>>

ClientReset ==
  /\ "reset" \in Faults /\ ~rst /\ ~reset
  /\ rst' = TRUE /\ armed' = TRUE
  /\ UNCHANGED <<script, c_req, c_pos, fin, draining, acked, reset, klen, nospace, server>>

\* Someone truncates the file being sent.
FileTruncate ==
  /\ "truncate" \in Faults /\ body_src = "file" /\ avail > 0
  /\ avail' \in 0..(avail - 1)
  /\ UNCHANGED <<outside, klen, nospace, armed, pc, progress, why, parserVars, outVars,
                 body_src, left, chunked, stream_sized, flagVars>>

\* begin_drain, seen from a connection that is not being driven.
BeginDrain ==
  /\ "drain" \in Faults /\ ~draining /\ pc = "wait"
  /\ draining' = TRUE
  /\ UNCHANGED <<clientVars, acked, reset, klen, nospace, armed, server>>

-----------------------------------------------------------------------------
(* run(): an event for this connection, and do_read().                     *)

\* epoll_wait re-polls an fd of the ready list and reports what is ready now;
\* polling a socket without send space makes the kernel note the waiter.
Wake ==
  /\ pc = "wait" /\ armed
  /\ armed' = FALSE
  /\ nospace' = (nospace \/ ~(Writable \/ rst))
  /\ IF Readable \/ Writable
     THEN /\ can_read' = (can_read \/ Readable)
          /\ can_write' = (can_write \/ Writable \/ rst)
          /\ pc' = "read" /\ progress' = FALSE
     ELSE UNCHANGED <<can_read, can_write, pc, progress>>
  /\ UNCHANGED <<outside, klen, why, parserVars, outVars, srcVars, peer_closed,
                 close_after_write, continue_sent, request_start>>

\* Faulty variant: the input limit is forgotten.
ReadAllowed_NoLimit == can_read /\ ~peer_closed /\ ~close_after_write

\* The condition of drive() and of the loop in do_read.
ReadAllowed == can_read /\ ~peer_closed /\ ~close_after_write /\ in_len < MaxIn

\* Faulty variant: a short recv() is taken for an empty socket.
RecvData_ShortIsEmpty ==
  /\ ReadAllowed /\ klen > 0
  /\ LET n == Smaller(klen, ReadSize) IN klen' = klen - n /\ in_len' = in_len + n
  /\ progress' = TRUE /\ can_read' = (klen >= ReadSize)
  /\ UNCHANGED <<pc, why, peer_closed>>

RecvData ==
  /\ ReadAllowed /\ klen > 0
  /\ LET n == Smaller(klen, ReadSize) IN klen' = klen - n /\ in_len' = in_len + n
  /\ progress' = TRUE
  /\ UNCHANGED <<pc, why, can_read, peer_closed>>

RecvEof ==
  /\ ReadAllowed /\ klen = 0 /\ fin /\ ~rst
  /\ peer_closed' = TRUE /\ progress' = TRUE /\ pc' = "process"
  /\ UNCHANGED <<klen, in_len, why, can_read>>

RecvAgain ==
  /\ ReadAllowed /\ ~Readable
  /\ can_read' = FALSE /\ pc' = "process"
  /\ UNCHANGED <<klen, in_len, progress, why, peer_closed>>

RecvError ==
  /\ ReadAllowed /\ klen = 0 /\ rst
  /\ pc' = "close" /\ why' = "error"
  /\ UNCHANGED <<klen, in_len, progress, can_read, peer_closed>>

ReadDone ==
  /\ ~ReadAllowed
  /\ pc' = "process"
  /\ UNCHANGED <<klen, in_len, progress, why, can_read, peer_closed>>

DoRead ==
  /\ pc = "read"
  /\ RecvData \/ RecvEof \/ RecvAgain \/ RecvError \/ ReadDone
  /\ UNCHANGED <<outside, nospace, armed, state, cur, blank, remaining, outVars, srcVars,
                 can_write, close_after_write, continue_sent, request_start>>

-----------------------------------------------------------------------------
(* process(): the loop over pipelined requests, and feed() inside it.      *)

\* Faulty variant: the next request is served while a body is being sent.
ProcessAllowed_IgnoresBody == ~close_after_write /\ out_pending < HighWater

ProcessAllowed == ~close_after_write /\ ~body_source_active /\ out_pending < HighWater

\* The head of the loop: start the request clock and call feed(), or leave.
ProcessLoop ==
  /\ pc = "process"
  /\ IF ProcessAllowed /\ in_len > 0
     THEN request_start' = TRUE /\ pc' = "feed"
     ELSE pc' = "write" /\ UNCHANGED request_start
  /\ UNCHANGED <<outside, klen, nospace, armed, progress, why, parserVars, outVars, srcVars,
                 can_read, can_write, peer_closed, close_after_write, continue_sent>>

FeedBlankLine ==
  /\ state = "RequestLine" /\ blank > 0 /\ in_len >= 1
  /\ blank' = blank - 1 /\ in_len' = in_len - 1 /\ progress' = TRUE
  /\ UNCHANGED <<state, remaining>>

\* A rejected request line is left in the buffer.
FeedRequestLine ==
  /\ state = "RequestLine" /\ blank = 0 /\ in_len >= Req(cur).line
  /\ IF Req(cur).bad = "line"
     THEN state' = "Error" /\ UNCHANGED <<in_len, progress>>
     ELSE state' = "Headers" /\ in_len' = in_len - Req(cur).line /\ progress' = TRUE
  /\ UNCHANGED <<blank, remaining>>

FeedHeaders ==
  LET r == Req(cur) IN
  /\ state = "Headers" /\ in_len >= r.fields
  /\ in_len' = in_len - r.fields /\ progress' = TRUE
  /\ state' = IF r.bad = "fields" THEN "Error" ELSE IF r.body = 0 THEN "Done" ELSE "Body"
  /\ remaining' = r.body
  /\ UNCHANGED blank

FeedBody ==
  LET n == Smaller(in_len, remaining) IN
  /\ state = "Body" /\ in_len > 0
  /\ in_len' = in_len - n /\ remaining' = remaining - n /\ progress' = TRUE
  /\ state' = IF n < remaining THEN "Body"
              ELSE IF Req(cur).bad = "body" THEN "Error" ELSE "Done"
  /\ UNCHANGED blank

Feed ==
  /\ pc = "feed"
  /\ FeedBlankLine \/ FeedRequestLine \/ FeedHeaders \/ FeedBody
  /\ UNCHANGED <<outside, klen, nospace, armed, pc, why, cur, outVars, srcVars, flagVars>>

\* Faulty variant: "100 Continue" is never sent.
NeedInput_NoInterim ==
  /\ pc = "feed" /\ ~FeedReady /\ state \notin {"Done", "Error"}
  /\ pc' = "write"
  /\ UNCHANGED <<outside, klen, nospace, armed, progress, why, parserVars, outVars, srcVars,
                 flagVars>>

\* feed() returned without a request: maybe "100 Continue", then wait for bytes.
NeedInput ==
  LET interim == Req(cur).expect /\ ~continue_sent /\ headers_complete IN
  /\ pc = "feed" /\ ~FeedReady /\ state \notin {"Done", "Error"}
  /\ hist' = IF interim THEN Emit(hist, cur, 0, 1, "keep-alive") ELSE hist
  /\ continue_sent' = (continue_sent \/ interim)
  /\ progress' = (progress \/ interim)
  /\ pc' = "write"
  /\ UNCHANGED <<outside, klen, nospace, armed, why, parserVars, sent, srcVars, can_read,
                 can_write, peer_closed, close_after_write, request_start>>

\* A parse error: queue_error answers, and this is the last response.
QueueError ==
  /\ pc = "feed" /\ state = "Error"
  /\ hist' = Emit(hist, cur, 1, 2, "close")
  /\ close_after_write' = TRUE /\ request_start' = FALSE
  /\ progress' = TRUE /\ pc' = "write"
  /\ UNCHANGED <<outside, klen, nospace, armed, why, parserVars, sent, srcVars, can_read,
                 can_write, peer_closed, continue_sent>>

KeepAlive(r) == r.keep /\ ~draining

\* A complete request: dispatch(take()), its head and inline body go to `out`,
\* a file or producer becomes the body source.
Dispatch ==
  LET r == Req(cur)
      closing == ~KeepAlive(r) \/ Framing(r) = "CloseDelimited"
      inline == IF HasBody(r) /\ r.kind = "inline" THEN r.n ELSE 0
      fromFile == HasBody(r) /\ r.kind = "file" /\ r.n > 0
      fromProducer == HasBody(r) /\ r.kind \in {"sized", "stream"}
  IN
  /\ pc = "feed" /\ state = "Done"
  /\ hist' = Emit(hist, cur, 1, 1 + inline, ConnectionHeader(closing))
  /\ close_after_write' = (close_after_write \/ closing)
  /\ body_src' = IF fromFile THEN "file"
                 ELSE IF fromProducer /\ ~(r.kind = "sized" /\ r.n = 0) THEN "producer"
                 ELSE body_src
  /\ left' = IF fromFile \/ fromProducer THEN r.n ELSE left
  /\ avail' = IF fromFile THEN r.n ELSE avail
  /\ chunked' = IF fromProducer THEN Framing(r) = "Chunked" ELSE chunked
  /\ stream_sized' = IF fromProducer THEN r.kind = "sized" ELSE stream_sized
  /\ cur' = cur + 1 /\ state' = "RequestLine" /\ blank' = Req(cur + 1).blank
  /\ continue_sent' = FALSE /\ request_start' = FALSE
  /\ progress' = TRUE /\ pc' = "process"
  /\ UNCHANGED <<outside, klen, nospace, armed, why, in_len, remaining, sent, can_read,
                 can_write, peer_closed>>

-----------------------------------------------------------------------------
(* do_write(), refill_from_producer(), and the end of a turn of drive().   *)

\* Index of the next body unit of the response in flight: what its file or
\* producer has given so far, after the head.
NextK == Req(cur - 1).n - left + 2

WriteAllowed == can_write /\ has_output
RefillAllowed == WriteAllowed /\ out_pending = 0 /\ body_src = "producer"

\* send() takes what fits; a short write, or EAGAIN when nothing fits, means the
\* socket is full, and the kernel notes the waiter.
Send ==
  /\ WriteAllowed /\ out_pending > 0 /\ ~rst
  /\ sent' = sent + Smaller(out_pending, Free)
  /\ progress' = (progress \/ Free > 0)
  /\ IF Free < out_pending THEN can_write' = FALSE /\ nospace' = TRUE
     ELSE UNCHANGED <<can_write, nospace>>
  /\ UNCHANGED <<pc, why, hist, body_src, left, avail, close_after_write>>

\* sendfile() moves n units straight from the file: all of them, or what the
\* socket takes, or what is left of a truncated file.
SendFile ==
  LET want == Smaller(left, SendfileMax)
      n == Smaller(Smaller(want, avail), Free)
  IN
  /\ WriteAllowed /\ out_pending = 0 /\ body_src = "file" /\ avail > 0 /\ ~rst
  /\ hist' = Emit(hist, cur - 1, NextK, n, ConnectionHeader(close_after_write))
  /\ sent' = sent + n
  /\ left' = left - n /\ avail' = avail - n
  /\ body_src' = IF n = left THEN "none" ELSE "file"
  /\ progress' = (progress \/ n > 0)
  /\ can_write' = (n = left \/ n = want)
  /\ nospace' = (nospace \/ Free < Smaller(want, avail))
  /\ UNCHANGED <<pc, why, close_after_write>>

\* ECONNRESET / EPIPE, or sendfile() at the end of a truncated file.
WriteError ==
  /\ WriteAllowed
  /\ \/ rst /\ (out_pending > 0 \/ body_src = "file")
     \/ out_pending = 0 /\ body_src = "file" /\ avail = 0
  /\ pc' = "close" /\ why' = "error"
  /\ UNCHANGED <<nospace, progress, outVars, body_src, left, avail, can_write,
                 close_after_write>>

\* Pulls pieces of one unit until `out` holds LowWater.  An unsized producer may
\* report the end with its last piece or only when it is asked again.
Refill ==
  LET m == Smaller(LowWater, left) IN
  \E atEnd \in BOOLEAN :
    LET done == left = m /\ (stream_sized \/ m < LowWater \/ atEnd) IN
    /\ RefillAllowed
    /\ hist' = Emit(hist, cur - 1, NextK, m + (IF done /\ chunked THEN 1 ELSE 0),
                    ConnectionHeader(close_after_write))
    /\ left' = left - m
    /\ body_src' = IF done THEN "none" ELSE "producer"
    /\ progress' = TRUE
    /\ UNCHANGED <<pc, why, sent, avail, nospace, can_write, close_after_write>>

\* A sized producer that ends early: what it gave is sent, then the connection ends.
RefillShort ==
  \E m \in 0..Smaller(LowWater, left - 1) :
    /\ "short" \in Faults /\ stream_sized /\ RefillAllowed
    /\ hist' = Emit(hist, cur - 1, NextK, m, ConnectionHeader(close_after_write))
    /\ left' = left - m /\ body_src' = "none"
    /\ close_after_write' = TRUE /\ progress' = TRUE
    /\ UNCHANGED <<pc, why, sent, avail, nospace, can_write>>

\* The producer throws, returns an empty piece, or exceeds its declared length.
RefillFails ==
  /\ "abort" \in Faults /\ RefillAllowed
  /\ pc' = "close" /\ why' = "aborted"
  /\ UNCHANGED <<nospace, progress, outVars, body_src, left, avail, can_write,
                 close_after_write>>

DoWrite ==
  /\ pc = "write"
  /\ Send \/ SendFile \/ WriteError \/ Refill \/ RefillShort \/ RefillFails
  /\ UNCHANGED <<outside, klen, armed, parserVars, chunked, stream_sized, can_read,
                 peer_closed, continue_sent, request_start>>

\* Faulty variant: a half-closed connection is dropped before its output is sent.
DriveTurn_DropsHalfClosed ==
  /\ pc = "write" /\ ~WriteAllowed
  /\ progress' = FALSE
  /\ pc' = IF progress THEN "read" ELSE IF peer_closed THEN "close" ELSE "wait"
  /\ UNCHANGED <<outside, klen, nospace, armed, why, parserVars, outVars, srcVars, flagVars>>

\* The end of one turn of drive(): another turn if there was progress, else park,
\* linger, or close.
DriveTurn ==
  /\ pc = "write" /\ ~WriteAllowed
  /\ progress' = FALSE
  /\ pc' = IF progress THEN "read"
           ELSE IF has_output THEN "wait"
           ELSE IF close_after_write THEN "linger"
           ELSE IF peer_closed THEN "close" ELSE "wait"
  /\ why' = IF pc' = "linger" THEN "finished" ELSE IF pc' = "close" THEN "eof" ELSE why
  /\ UNCHANGED <<outside, klen, nospace, armed, parserVars, outVars, srcVars, flagVars>>

\* Faulty variant: unread input is left in the socket.
Linger_NoDrain ==
  /\ pc = "linger" /\ pc' = "close"
  /\ UNCHANGED <<outside, klen, nospace, armed, progress, why, parserVars, outVars, srcVars,
                 flagVars>>

\* After shutdown(SHUT_WR): discard what already arrived, then close.
Linger ==
  /\ pc = "linger"
  /\ IF klen > 0 THEN klen' = 0 /\ UNCHANGED pc ELSE pc' = "close" /\ UNCHANGED klen
  /\ UNCHANGED <<outside, nospace, armed, progress, why, parserVars, outVars, srcVars,
                 flagVars>>

\* close() with unread input makes the kernel send RST instead of FIN.
CloseSocket ==
  /\ pc' = "closed" /\ armed' = FALSE /\ klen' = 0
  /\ reset' = (reset \/ klen > 0)
  /\ UNCHANGED <<clientVars, draining, acked, nospace, progress, parserVars, outVars, srcVars,
                 flagVars>>

CloseConnection == pc = "close" /\ CloseSocket /\ UNCHANGED why

\* Faulty variant: pending output does not count as activity.
Idle_IgnoresOutput == in_len = 0 /\ ~started

Idle == ~has_output /\ in_len = 0 /\ ~started

\* sweep() finds the connection idle while draining, or one of its deadlines
\* passed; or the drain deadline ends run(), which closes every connection.
Sweep ==
  /\ pc = "wait" /\ CloseSocket
  /\ \/ draining /\ Idle /\ why' = "drained"
     \/ /\ "timeout" \in Faults /\ ~(draining /\ Idle)
        /\ \/ request_start /\ ~headers_complete /\ why' = "header_timeout"
           \/ why' = "idle_timeout"
     \/ "timeout" \in Faults /\ draining /\ why' = "deadline"

-----------------------------------------------------------------------------

\* A freshly accepted connection: registered with epoll while writable.
Init ==
  /\ script \in Scripts /\ draining = FALSE
  /\ c_req = 1 /\ c_pos = 0 /\ fin = FALSE /\ rst = FALSE
  /\ klen = 0 /\ acked = 0 /\ nospace = FALSE /\ armed = TRUE /\ reset = FALSE
  /\ pc = "wait" /\ progress = FALSE /\ why = "open"
  /\ in_len = 0 /\ state = "RequestLine" /\ cur = 1 /\ blank = Req(1).blank
  /\ remaining = 0
  /\ hist = <<>> /\ sent = 0
  /\ body_src = "none" /\ left = 0 /\ avail = 0 /\ chunked = FALSE /\ stream_sized = FALSE
  /\ can_read = TRUE /\ can_write = TRUE /\ peer_closed = FALSE
  /\ close_after_write = FALSE /\ continue_sent = FALSE /\ request_start = FALSE

Worker ==
  \/ Wake \/ DoRead \/ ProcessLoop \/ Feed \/ NeedInput \/ QueueError \/ Dispatch
  \/ DoWrite \/ DriveTurn \/ Linger \/ CloseConnection

Environment ==
  \/ ClientSend \/ ClientRead \/ ClientFin \/ ClientReset
  \/ FileTruncate \/ BeginDrain \/ Sweep

Next == Worker \/ Environment

Spec == Init /\ [][Next]_vars

\* The worker thread keeps running, the client keeps sending and reading.
FairSpec == Spec /\ WF_vars(Worker) /\ WF_vars(ClientSend) /\ WF_vars(ClientRead)

-----------------------------------------------------------------------------
(* Properties.                                                             *)

Unit == [id : Nat, k : Nat, conn : {"close", "keep-alive"}]

FlagsOK ==
  /\ draining \in BOOLEAN /\ fin \in BOOLEAN /\ rst \in BOOLEAN /\ nospace \in BOOLEAN
  /\ armed \in BOOLEAN /\ reset \in BOOLEAN /\ progress \in BOOLEAN
  /\ chunked \in BOOLEAN /\ stream_sized \in BOOLEAN
  /\ can_read \in BOOLEAN /\ can_write \in BOOLEAN /\ peer_closed \in BOOLEAN
  /\ close_after_write \in BOOLEAN /\ continue_sent \in BOOLEAN /\ request_start \in BOOLEAN

DataOK ==
  /\ script \in Scripts /\ c_req \in Nat \ {0} /\ c_pos \in Nat
  /\ klen \in Nat /\ acked \in Nat /\ sent \in Nat /\ hist \in Seq(Unit)
  /\ acked <= sent /\ sent <= Len(hist) /\ sent - acked <= SndBuf
  /\ pc \in {"wait", "read", "process", "feed", "write", "linger", "close", "closed"}
  /\ why \in {"open", "error", "aborted", "finished", "eof", "drained", "header_timeout",
              "idle_timeout", "deadline"}
  /\ in_len \in Nat /\ state \in {"RequestLine", "Headers", "Body", "Done", "Error"}
  /\ cur \in Nat \ {0} /\ blank \in Nat /\ remaining \in Nat
  /\ body_src \in {"none", "file", "producer"} /\ left \in Nat /\ avail \in Nat

\* Every variable of the connection keeps its type; the cursors keep their order.
TypeOK == FlagsOK /\ DataOK

\* What may follow unit u on the wire: the next unit of the same response, or,
\* after its last unit and unless its head said "Connection: close", the start of
\* the next response, with or without an interim "100 Continue".
Follows(u, v) ==
  \/ v.id = u.id /\ v.k = u.k + 1 /\ v.k <= LastK(Req(v.id))
  \/ v.id = u.id + 1 /\ v.k \in {0, 1} /\ u.k = LastK(Req(u.id)) /\ u.conn # "close"

WellFramed(s) ==
  /\ s # <<>> => s[1].id = 1 /\ s[1].k \in {0, 1}
  /\ \A i \in 1..(Len(s) - 1) : Follows(s[i], s[i + 1])

\* Responses leave in request order, whole and contiguous, each delimited as its
\* head announced, at most one interim response ahead of each, and none after a
\* response that announced the close (process(), dispatch(), do_write()).
Framed == WellFramed(hist)

\* The file being sent has become shorter than the head of its response announced.
Truncated == body_src = "file" /\ avail < left

\* Edge-triggered epoll reports a change once.  When the worker has left a
\* connection and no event is queued for it, only the client can move: either
\* output waits for send space, or every received byte was processed, nothing
\* unread is in the kernel and the connection is not owed a close.  The one
\* exception is a file that was truncated (see ParkedMeansBlocked).
NoLostWakeup ==
  pc = "wait" /\ ~armed =>
    /\ ~rst
    /\ IF has_output THEN Truncated \/ ~Writable
       ELSE klen = 0 /\ ~fin /\ ~close_after_write /\ ~FeedReady

\* Buffered input and queued output stay bounded whatever the client does:
\* max_in_buffer_ plus one read, and the high-water mark plus one response.
BuffersBounded ==
  /\ in_len < MaxIn + ReadSize
  /\ \/ out_pending <= LowWater + 1
     \/ out_pending <= HighWater + 1
     \/ \E i \in 1..Len(script) :
          script[i].kind = "inline" /\ out_pending <= HighWater + script[i].n

\* A connection that ends because it was idle during a drain, because its last
\* response was written, or because the client half-closed, ends with every
\* queued unit handed to the kernel and no body left to send.
OrderlyClose ==
  why \in {"finished", "eof", "drained"} => out_pending = 0 /\ ~body_source_active

\* No RST destroys response units that the client has not read yet.
ResponseSurvives == reset => acked = sent

\* The lingering close of drive(), against a client that sent all its requests
\* before the first response unit left: after shutdown() and the drain the close
\* raises no RST that would destroy response units the client has not read.
LingerSurvives ==
  (\A i \in 1..Len(script) : script[i].client = "burst") /\ why \in {"finished", "eof"}
    => ResponseSurvives

\* A request that was sent completely gets its whole response, without the help
\* of a timeout, also when the client has half-closed meanwhile.
Answered == \A i \in 1..MaxRequests : c_req > i ~> ResponseRead(i)

\* A client that waits for each response, and for "100 Continue" before the body
\* of an Expect request, gets all its responses unless it stops sending: client and
\* server never wait for each other.
Completes ==
  (\A i \in 1..Len(script) : script[i].client = "lockstep")
    => <>(ResponseRead(MaxRequests) \/ fin)

\* The comment on drive(): a connection is left when "the socket would block in
\* both directions or there is simply nothing to do".  Parked output therefore
\* means a socket without send space, or an event already queued.
ParkedMeansBlocked == pc = "wait" /\ ~armed /\ has_output => ~Writable

=============================================================================
