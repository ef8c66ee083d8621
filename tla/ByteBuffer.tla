----------------------------- MODULE ByteBuffer ------------------------------
(***************************************************************************)
(* The input buffer of a connection (src/util/byte_buffer.hpp), as         *)
(* do_read() and process() use it: prepare(kReadSize), recv() into the     *)
(* region it returns, commit(); consume() of what the parser used.         *)
(*                                                                         *)
(*   [ consumed | readable (rpos..wpos) | writable (wpos..cap) ]           *)
(***************************************************************************)
EXTENDS Integers, Sequences

CONSTANTS Stamps, ReadSize, MaxIn,
  FirstCap,  \* the first allocation, 4096
  Junk       \* what uninitialized memory holds

ASSUME SizesAssumption ==
  /\ Stamps \in Nat \ {0} /\ ReadSize \in Nat \ {0} /\ MaxIn \in Nat \ {0}
  /\ FirstCap \in Nat \ {0}

VARIABLES
  data, cap, rpos, wpos,
  op,        \* "grow" inside the loop of prepare(), "recv" between prepare() and commit()
  new_cap,   \* prepare()'s local
  next       \* the position of the stream, modulo Stamps

bufferVars == <<data, cap, rpos, wpos, op, new_cap, next>>

size == wpos - rpos

\* readable()
readable == [i \in 1..size |-> data[rpos + i - 1]]

BufferInit ==
  /\ data = [i \in 0..-1 |-> Junk] /\ cap = 0 /\ rpos = 0 /\ wpos = 0
  /\ op = "idle" /\ new_cap = 0 /\ next = 0

\* The readable region moved to the front of an array of n bytes.
Moved(n, old) == [i \in 0..(n - 1) |-> IF i < size THEN data[rpos + i] ELSE old[i]]

-----------------------------------------------------------------------------
(* prepare(kReadSize)                                                      *)

\* Faulty variant: do_read() reads for as long as there is input.
MayRead_NoLimit == op = "idle"

\* do_read() goes on while the buffer is below max_in_buffer_.
MayRead == op = "idle" /\ size < MaxIn

PrepareInPlace ==
  /\ MayRead /\ cap - wpos >= ReadSize
  /\ op' = "recv"
  /\ UNCHANGED <<data, cap, rpos, wpos, new_cap, next>>

\* Faulty variant: sliding is taken for enough.
MayCompact_Always == rpos > 0

MayCompact == rpos > 0 /\ cap - size >= ReadSize

PrepareCompact ==
  /\ MayRead /\ cap - wpos < ReadSize /\ MayCompact
  /\ data' = Moved(cap, data)
  /\ rpos' = 0 /\ wpos' = size /\ op' = "recv"
  /\ UNCHANGED <<cap, new_cap, next>>

\* Faulty variant: the first allocation doubles nothing.
StartCap_Zero == cap

StartCap == IF cap = 0 THEN FirstCap ELSE cap

PrepareGrow ==
  /\ MayRead /\ cap - wpos < ReadSize /\ ~MayCompact
  /\ op' = "grow" /\ new_cap' = StartCap
  /\ UNCHANGED <<data, cap, rpos, wpos, next>>

Room == new_cap - size

Double ==
  /\ op = "grow" /\ Room < ReadSize
  /\ new_cap' = 2 * new_cap
  /\ UNCHANGED <<data, cap, rpos, wpos, op, next>>

\* Faulty variant: the copy starts at the front of the old array.
Grow_FromFront ==
  /\ op = "grow" /\ Room >= ReadSize
  /\ data' = [i \in 0..(new_cap - 1) |-> IF i < size THEN data[i] ELSE Junk]
  /\ cap' = new_cap /\ new_cap' = 0 /\ rpos' = 0 /\ wpos' = size /\ op' = "recv"
  /\ UNCHANGED next

Grow ==
  /\ op = "grow" /\ Room >= ReadSize
  /\ data' = Moved(new_cap, [i \in 0..(new_cap - 1) |-> Junk])
  /\ cap' = new_cap /\ new_cap' = 0 /\ rpos' = 0 /\ wpos' = size /\ op' = "recv"
  /\ UNCHANGED next

-----------------------------------------------------------------------------

\* recv() writes k bytes, k = 0 when there are none, and do_read() commits them.
Recv(k) ==
  /\ op = "recv"
  /\ data' = [i \in DOMAIN data |->
                IF i \in wpos..(wpos + k - 1) THEN (next + (i - wpos + 1)) % Stamps ELSE data[i]]
  /\ wpos' = wpos + k /\ next' = (next + k) % Stamps /\ op' = "idle"
  /\ UNCHANGED <<cap, rpos, new_cap>>

\* consume(): what feed() has used of the readable region.
Consume(k) ==
  /\ op = "idle" /\ k <= size
  /\ IF k = size THEN rpos' = 0 /\ wpos' = 0 ELSE rpos' = rpos + k /\ UNCHANGED wpos
  /\ UNCHANGED <<data, cap, op, new_cap, next>>

Prepare == PrepareInPlace \/ PrepareCompact \/ PrepareGrow \/ Double \/ Grow

BufferNext ==
  \/ Prepare
  \/ \E k \in 0..ReadSize : Recv(k)
  \/ \E k \in 1..size : Consume(k)

BufferSpec == BufferInit /\ [][BufferNext]_bufferVars

FairBufferSpec == BufferSpec /\ WF_bufferVars(Prepare)

-----------------------------------------------------------------------------
(* Properties.                                                             *)

\* The array has exactly cap_ bytes, and the cursors are sizes.
BufferTypeOK ==
  /\ cap \in Nat /\ rpos \in Nat /\ wpos \in Nat /\ new_cap \in Nat /\ next \in 0..(Stamps - 1)
  /\ op \in {"idle", "grow", "recv"}
  /\ data \in [0..(cap - 1) -> (0..(Stamps - 1)) \cup {Junk}]

\* The regions are ordered, and recv() is never given more room than is allocated:
\* the kReadSize bytes that prepare() promises lie inside the array.
InBounds ==
  /\ rpos <= wpos /\ wpos <= cap
  /\ op = "recv" => wpos + ReadSize <= cap

\* However reads and parses alternate, the memory of a connection's input stays below
\* twice what max_in_buffer_ and one read need, since growing counts live bytes only.
CapacityBounded == cap \in {0, FirstCap} \/ cap < 2 * (MaxIn - 1 + ReadSize)

\* prepare()'s doubling loop ends.
PrepareReturns == op = "grow" ~> op = "recv"

\* The readable region is the queue: no byte is lost, repeated or reordered by sliding,
\* growing and resetting, and no uninitialized byte becomes readable.
Queue == INSTANCE ByteQueue WITH queue <- readable

FirstInFirstOut == Queue!Spec

=============================================================================
