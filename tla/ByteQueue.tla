------------------------------ MODULE ByteQueue ------------------------------
(***************************************************************************)
(* What a connection's input buffer promises: the bytes of the stream come *)
(* out in the order in which they came in, each one once.  Byte i of the   *)
(* stream is the stamp i % Stamps.                                         *)
(***************************************************************************)
EXTENDS Integers, Sequences

CONSTANTS
  Stamps,    \* how many different bytes there are
  ReadSize,  \* kReadSize, what one recv() may return
  MaxIn      \* max_in_buffer_, where reading stops

VARIABLES queue, next

vars == <<queue, next>>

Arrived(k) == [i \in 1..k |-> (next + i) % Stamps]

Init == queue = <<>> /\ next = 0

Put(k) ==
  /\ Len(queue) < MaxIn
  /\ queue' = queue \o Arrived(k)
  /\ next' = (next + k) % Stamps

Get(k) == k <= Len(queue) /\ queue' = SubSeq(queue, k + 1, Len(queue)) /\ UNCHANGED next

Next ==
  \/ \E k \in 1..ReadSize : Put(k)
  \/ \E k \in 1..Len(queue) : Get(k)

Spec == Init /\ [][Next]_vars

=============================================================================
