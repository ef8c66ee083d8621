--------------------------- MODULE MCRequestSplit ----------------------------
(***************************************************************************)
(* The same stream parsed twice, as the fuzz target does: in segments, and *)
(* in one piece.                                                           *)
(***************************************************************************)
EXTENDS MCRequestParser

VARIABLES
  w_received, w_consumed, w_at, w_feeding, w_state, w_error, w_header_bytes, w_header_count,
  w_remaining, w_req, w_taken

whole ==
  <<w_received, w_consumed, w_at, w_feeding, w_state, w_error, w_header_bytes, w_header_count,
    w_remaining, w_req, w_taken>>

Whole ==
  INSTANCE RequestParser
    WITH received <- w_received, consumed <- w_consumed, at <- w_at, feeding <- w_feeding,
         state <- w_state, error <- w_error, header_bytes <- w_header_bytes,
         header_count <- w_header_count, remaining <- w_remaining, req <- w_req,
         taken <- w_taken, MaxSegment <- MaxBytes

\* The segmented parser has nothing left to do with what it received.
Settled == ~feeding /\ state # "Done"
WholeSettled == w_received > 0 /\ ~w_feeding /\ w_state # "Done"

SplitInit == Init /\ Whole!Init

\* At any point the second parser is given the same bytes at once; what comes
\* after an error is not looked at.
WholeReceive(n) ==
  /\ Settled /\ w_received = 0 /\ n >= received /\ (state # "Error" => n = received)
  /\ Whole!Receive(n)
  /\ UNCHANGED vars

SplitNext ==
  \/ w_received = 0 /\ Next /\ UNCHANGED whole
  \/ \E n \in 1..MaxBytes : WholeReceive(n)
  \/ (Whole!Feed \/ Whole!Take) /\ UNCHANGED vars

\* Both parsers are sequential code that keeps running.
SplitSpec ==
  /\ SplitInit /\ [][SplitNext]_<<vars, whole>>
  /\ WF_vars(Feed) /\ WF_vars(Take)

\* "The result never depends on how the input was split" (request_parser.hpp): both
\* parsers have returned the same requests, stopped at the same byte in the same
\* state, and rejected the stream for the same reason.
SegmentationIndependent ==
  WholeSettled =>
    /\ w_taken = taken /\ w_state = state /\ w_error = error
    /\ w_consumed = consumed /\ w_at = at /\ w_req = req /\ w_remaining = remaining
    /\ w_header_bytes = header_bytes /\ w_header_count = header_count

=============================================================================
