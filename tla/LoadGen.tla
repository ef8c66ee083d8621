------------------------------- MODULE LoadGen -------------------------------
(***************************************************************************)
(* One connection of the load generator (tools/loadgen.cpp, class Worker): *)
(* an edge-triggered, pipelining client in a closed loop, against a server *)
(* that answers in order and may close or reset at any moment, and the two *)
(* bounded socket buffers between them.                                    *)
(*                                                                         *)
(* Requests are numbered modulo Ids.  A request is one unit, a response    *)
(* its head, which carries the Content-Length, and Length(id) body units.  *)
(***************************************************************************)
EXTENDS Integers, Sequences

CONSTANTS
  Pipeline,    \* opt_.pipeline
  Ids,         \* requests are numbered modulo this
  SndBuf,      \* capacity of the socket in each direction
  ServerRoom,  \* how many responses the server owes before it stops reading
  MaxFailures  \* how often the server closes or resets (bound)

ASSUME ConstantsAssumption ==
  /\ Pipeline \in Nat \ {0} /\ SndBuf \in Nat \ {0} /\ ServerRoom \in Nat \ {0}
  /\ Ids \in Nat /\ Ids > 2 * Pipeline /\ MaxFailures \in Nat

VARIABLES
  pc,                 \* place in run() and service()
  out, in, sent_at,   \* Conn: requests not sent yet; received units; in-flight requests
  next,               \* number of the next request
  expired,            \* the deadline has passed
  c2s, s2c, owed, k,  \* the sockets; what the server owes, and the next unit of the first
  fin, rst, failures, \* the server has closed, has reset; how often
  armed, nospace      \* an event is queued; the last send() found no room

conn == <<out, in, sent_at, next>>
peer == <<c2s, s2c, owed, k, fin, rst, failures>>
vars == <<pc, conn, expired, peer, armed, nospace>>

Length(id) == id % 2

-----------------------------------------------------------------------------
(* The server and the clock.                                               *)

ServerRead ==
  /\ ~fin /\ ~rst /\ c2s # <<>> /\ Len(owed) < ServerRoom
  /\ c2s' = Tail(c2s) /\ owed' = Append(owed, Head(c2s))
  /\ armed' = (armed \/ nospace) /\ nospace' = FALSE
  /\ UNCHANGED <<pc, conn, expired, s2c, k, fin, rst, failures>>

ServerWrite ==
  /\ ~fin /\ ~rst /\ owed # <<>> /\ Len(s2c) < SndBuf
  /\ s2c' = Append(s2c, <<Head(owed), k>>)
  /\ IF k = Length(Head(owed)) THEN owed' = Tail(owed) /\ k' = 0
     ELSE k' = k + 1 /\ UNCHANGED owed
  /\ armed' = TRUE
  /\ UNCHANGED <<pc, conn, expired, c2s, fin, rst, failures, nospace>>

\* A response may be cut off; what the server sent before a close still arrives.
ServerFails ==
  /\ ~fin /\ ~rst /\ failures < MaxFailures /\ failures' = failures + 1
  /\ \/ fin' = TRUE /\ UNCHANGED <<rst, s2c>>
     \/ rst' = TRUE /\ s2c' = <<>> /\ UNCHANGED fin
  /\ armed' = TRUE
  /\ UNCHANGED <<pc, conn, expired, c2s, owed, k, nospace>>

Deadline ==
  /\ ~expired /\ expired' = TRUE
  /\ UNCHANGED <<pc, conn, peer, armed, nospace>>

-----------------------------------------------------------------------------
(* Worker::run(), service() and what it calls.                             *)

\* The loop ends with the batch in which the deadline passed.
Wait ==
  /\ pc = "wait"
  /\ IF expired THEN pc' = "done" /\ UNCHANGED armed
     ELSE armed /\ armed' = FALSE /\ pc' = IF rst THEN "reopen" ELSE "recv"
  /\ UNCHANGED <<conn, expired, peer, nospace>>

Recv ==
  /\ pc = "recv"
  /\ \/ s2c # <<>> /\ in' = in \o s2c /\ s2c' = <<>> /\ UNCHANGED pc
     \/ s2c = <<>> /\ pc' = (IF fin \/ rst THEN "reopen" ELSE "consume") /\ UNCHANGED <<in, s2c>>
  /\ UNCHANGED <<out, sent_at, next, expired, c2s, owed, k, fin, rst, failures, armed, nospace>>

\* Numbers of n requests from `next` on.
Fresh(n) == [i \in 1..n |-> (next + i - 1) % Ids]

\* The first response is complete as far as its Content-Length says.
HasResponse == in # <<>> /\ Len(in) > Length(in[1][1])

\* One turn of consume_responses(): the answered request is replaced by a new one.
Consume ==
  /\ pc = "consume" /\ HasResponse /\ sent_at # <<>>
  /\ in' = SubSeq(in, Length(in[1][1]) + 2, Len(in))
  /\ IF expired THEN sent_at' = Tail(sent_at) /\ UNCHANGED <<out, next>>
     ELSE /\ sent_at' = Tail(sent_at) \o Fresh(1) /\ out' = out \o Fresh(1)
          /\ next' = (next + 1) % Ids
  /\ UNCHANGED <<pc, expired, peer, armed, nospace>>

\* A response nobody asked for, or the buffered ones are used up.
ConsumeDone ==
  /\ pc = "consume" /\ (HasResponse => sent_at = <<>>)
  /\ pc' = IF HasResponse THEN "reopen" ELSE "send"
  /\ UNCHANGED <<conn, expired, peer, armed, nospace>>

\* How much of out the socket takes.
Room == IF Len(out) <= SndBuf - Len(c2s) THEN Len(out) ELSE SndBuf - Len(c2s)

\* Faulty variant: a blocking socket; send() waits for room while responses pile up.
Send_Blocks ==
  /\ pc = "send" /\ ~rst
  /\ c2s' = c2s \o SubSeq(out, 1, Room) /\ out' = SubSeq(out, Room + 1, Len(out))
  /\ pc' = IF Room < Len(out) THEN "send" ELSE "wait"
  /\ UNCHANGED <<in, sent_at, next, expired, s2c, owed, k, fin, rst, failures, armed, nospace>>

\* Faulty variant: out_off is not advanced by a short send.
Send_Resends ==
  /\ pc = "send" /\ ~rst
  /\ c2s' = c2s \o SubSeq(out, 1, Room) /\ out' = IF Room < Len(out) THEN out ELSE <<>>
  /\ nospace' = (Room < Len(out)) /\ pc' = "wait"
  /\ UNCHANGED <<in, sent_at, next, expired, s2c, owed, k, fin, rst, failures, armed>>

\* send() until everything is out or the socket is full.
Send ==
  /\ pc = "send" /\ ~rst
  /\ c2s' = c2s \o SubSeq(out, 1, Room) /\ out' = SubSeq(out, Room + 1, Len(out))
  /\ nospace' = (Room < Len(out)) /\ pc' = "wait"
  /\ UNCHANGED <<in, sent_at, next, expired, s2c, owed, k, fin, rst, failures, armed>>

SendFails ==
  /\ pc = "send" /\ rst
  /\ pc' = IF out = <<>> THEN "wait" ELSE "reopen"
  /\ UNCHANGED <<conn, expired, peer, armed, nospace>>

\* Faulty variant: bytes of the old connection stay in the buffer.
Reopen_KeepsInput ==
  /\ pc = "reopen" /\ pc' = "wait"
  /\ out' = Fresh(Pipeline) /\ sent_at' = Fresh(Pipeline) /\ next' = (next + Pipeline) % Ids
  /\ c2s' = <<>> /\ s2c' = <<>> /\ owed' = <<>> /\ k' = 0 /\ fin' = FALSE /\ rst' = FALSE
  /\ armed' = TRUE /\ nospace' = FALSE
  /\ UNCHANGED <<in, expired, failures>>

\* reopen() and open(): a new socket, which reports EPOLLOUT once connected.
Reopen ==
  /\ pc = "reopen" /\ pc' = "wait"
  /\ in' = <<>>
  /\ out' = Fresh(Pipeline) /\ sent_at' = Fresh(Pipeline) /\ next' = (next + Pipeline) % Ids
  /\ c2s' = <<>> /\ s2c' = <<>> /\ owed' = <<>> /\ k' = 0 /\ fin' = FALSE /\ rst' = FALSE
  /\ armed' = TRUE /\ nospace' = FALSE
  /\ UNCHANGED <<expired, failures>>

-----------------------------------------------------------------------------

Init ==
  /\ pc = "wait" /\ in = <<>> /\ next = Pipeline
  /\ out = [i \in 1..Pipeline |-> i - 1] /\ sent_at = [i \in 1..Pipeline |-> i - 1]
  /\ expired = FALSE
  /\ c2s = <<>> /\ s2c = <<>> /\ owed = <<>> /\ k = 0 /\ fin = FALSE /\ rst = FALSE
  /\ failures = 0 /\ armed = TRUE /\ nospace = FALSE

Client ==
  Wait \/ Recv \/ Consume \/ ConsumeDone \/ Send \/ SendFails \/ Reopen

Server == ServerRead \/ ServerWrite

Next == Client \/ Server \/ ServerFails \/ Deadline

Spec == Init /\ [][Next]_vars

\* The client thread keeps running; the server keeps reading and answering.
FairSpec == Spec /\ WF_vars(Client) /\ WF_vars(ServerRead) /\ WF_vars(ServerWrite)

-----------------------------------------------------------------------------
(* Properties.                                                             *)

\* Every response is counted with the send time of its own request: the first buffered
\* unit is always the head of the response to the oldest request in flight, across
\* partial responses, lost connections and reconnects.
OwnResponse == in # <<>> => sent_at # <<>> /\ in[1] = <<Head(sent_at), 0>>

\* sent_at and the bytes agree: the requests in flight are, in order, the ones whose
\* response is on its way or buffered, owed by the server, sent, and still in out.  "Every
\* connection keeps `pipeline` requests in flight" (the header comment of loadgen.cpp):
\* so it is whenever run() waits before the deadline.
InFlight ==
  LET Last(u) == u[2] = Length(u[1])
      answered == SelectSeq(in \o s2c, Last)
  IN /\ pc = "wait" /\ ~expired => Len(sent_at) = Pipeline
     /\ ~rst => sent_at = [i \in DOMAIN answered |-> answered[i][1]] \o owed \o c2s \o out

\* Until the deadline the closed loop never stops: client and server, with full sockets
\* in both directions, do not wait for each other.
LoopRuns == []<>(expired \/ (pc = "consume" /\ HasResponse))

=============================================================================
