------------------------------- MODULE Routes -------------------------------
(***************************************************************************)
(* app/routes.cpp: the two handlers that hand the server a producer, which *)
(* the server calls until it returns false.  The sizes are scaled down:    *)
(* Alphabet for 26, Piece for kBytesPiece, MaxBytes for                    *)
(* kMaxGeneratedBytes and MaxChunks for kMaxStreamChunks.                  *)
(***************************************************************************)
EXTENDS Integers, Sequences, SequencesExt, Crc32

CONSTANTS Alphabet, Piece, MaxBytes, MaxChunks

VARIABLES
  route,   \* "none", "bytes", "stream", or "refused" after a 400
  n, pos,  \* the number asked for; the captured `sent` or `i`
  crc,     \* the captured checksum
  body,    \* everything appended to `out` so far
  more,    \* what the last call returned
  piece,   \* how much the last call appended
  trailers \* the trailer fields the last call set

producer == <<pos, crc, body, more, piece, trailers>>

pattern == [i \in 1..(Piece + Alphabet) |-> (i - 1) % Alphabet]

\* "chunk i of n\n", without what is the same in every line.
Line(i) == <<48 + i, 48 + n>>

\* The handlers: a number above the limit is refused, and so is what parse_u64() does not
\* take for one, having set n to the digits it starts with.
Ask(r, limit, number, parsed) ==
  /\ route = "none"
  /\ n' = number /\ route' = IF ~parsed \/ number > limit THEN "refused" ELSE r
  /\ UNCHANGED producer

AskBytes ==
  \E number \in 0..(MaxBytes + 1), parsed \in BOOLEAN : Ask("bytes", MaxBytes, number, parsed)

AskStream ==
  \E number \in 0..(MaxChunks + 1), parsed \in BOOLEAN : Ask("stream", MaxChunks, number, parsed)

\* out.append(pattern(), sent % 26, take)
Slice(take) == SubSeq(pattern, (pos % Alphabet) + 1, (pos % Alphabet) + take)

\* Faulty variant: one call too many.
ProduceBytes_Late ==
  LET take == IF n - pos < Piece THEN n - pos ELSE Piece IN
  /\ route = "bytes" /\ more
  /\ body' = body \o Slice(take) /\ piece' = take /\ pos' = pos + take
  /\ more' = (piece' = Piece)
  /\ UNCHANGED <<route, n, crc, trailers>>

ProduceBytes ==
  LET take == IF n - pos < Piece THEN n - pos ELSE Piece IN
  /\ route = "bytes" /\ more
  /\ body' = body \o Slice(take) /\ piece' = take /\ pos' = pos + take
  /\ more' = (pos' < n)
  /\ UNCHANGED <<route, n, crc, trailers>>

ProduceStream ==
  /\ route = "stream" /\ more
  /\ IF pos < n
       THEN /\ crc' = crc32(Line(pos), crc) /\ body' = body \o Line(pos)
            /\ piece' = Len(Line(pos)) /\ pos' = pos + 1
       ELSE piece' = 0 /\ UNCHANGED <<crc, body, pos>>
  /\ more' = (pos' < n)
  /\ trailers' = IF more' THEN <<>> ELSE <<n, crc'>>
  /\ UNCHANGED <<route, n>>

RoutesInit ==
  /\ route = "none" /\ n = 0 /\ pos = 0 /\ crc = {} /\ body = <<>>
  /\ more = TRUE /\ piece = 0 /\ trailers = <<>>

RoutesNext == AskBytes \/ AskStream \/ ProduceBytes \/ ProduceStream

-----------------------------------------------------------------------------

\* The body of /bytes is the alphabet over and over, across the boundaries of the pieces,
\* and the slice of the pattern never runs past its end.  What the server takes from a
\* producer: a call that promises more has appended
\* something, else refill_from_producer() gives the connection up, and /bytes
\* promises more exactly until the length announced by stream_length is out.
ProducerContract ==
  /\ route = "bytes" => body = [i \in 1..pos |-> (i - 1) % Alphabet]
  /\ pos > 0 /\ more => piece > 0
  /\ route = "bytes" /\ pos > 0 => Len(body) <= n /\ (more <=> Len(body) < n)

\* The X-Content-CRC32 trailer, chained over the chunks by crc32(), is the CRC-32 of the
\* whole body, and X-Chunk-Count the number of chunks, for an empty stream too.
TrailerMatches ==
  route = "stream" /\ ~more => trailers = <<n, Division(body)>> /\ Len(body) = n * 2

=============================================================================
