--------------------------- MODULE MCRequestParser ---------------------------
(* Small streams that reach every limit and every error of the parser.       *)
EXTENDS RequestParser

L(what, len) == [len |-> len, n |-> -1, what |-> what]
N(what, n) == [len |-> 1, n |-> n, what |-> what]
Blank == <<L("field", 0)>>
Host == <<L("host", 1)>>

RequestLines ==
  {L("http/1.1", 2), L("http/1.0", 1), L("http/1.1", 3), L("version", 2), L("bad", 2)}

\* Header sections: framing, repetition, and the limits on bytes and on count.
Sections ==
  {<<>>, Host, Host \o Host, <<L("bad", 1)>>, <<L("host", 8)>>, <<L("host", 9)>>,
   Host \o <<L("field", 8)>>,
   Host \o <<N("te", 0)>>, Host \o <<N("te", 0), N("te", 0)>>, Host \o <<N("te-other", 0)>>,
   Host \o <<N("te", 0), N("length", 1)>>,
   Host \o <<N("length", 2)>>, <<N("length", 2), N("length", 2)>>, Host \o <<N("length", 0)>>,
   Host \o <<N("length", 1), N("length", 2)>>, Host \o <<N("length", -1)>>,
   Host \o <<N("length", 4)>>, <<N("te", 0)>>,
   Host \o <<L("expect", 1), N("length", 1)>>, Host \o <<L("close", 1), N("te", 0)>>,
   Host \o <<L("expect", 1), L("expect-other", 1)>>,
   <<L("keep-alive", 1)>>, Host \o <<L("field", 1), L("field", 1), L("field", 1)>>}

\* Chunks and trailers; after a body of another kind they are the next request.
Bodies ==
  {<<N("chunk", 0)>> \o Blank, <<N("chunk", 0), L("field", 1)>> \o Blank,
   <<N("chunk", 0), L("field", 6)>> \o Blank,
   <<N("chunk", 2)>> \o Blank \o <<N("chunk", 1)>> \o Blank \o <<N("chunk", 0)>> \o Blank,
   <<N("chunk", 2)>> \o Blank \o <<N("chunk", 2)>> \o Blank,
   <<N("chunk", 2)>> \o Blank \o <<N("chunk", 7)>> \o Blank,
   <<N("chunk", 1), L("bad", 2)>>, <<L("chunk", 1)>>, <<L("chunk", 14)>>,
   <<[len |-> 2, n |-> 0, what |-> "chunk"]>> \o Blank,
   <<[len |-> 3, n |-> 0, what |-> "chunk"]>> \o Blank,
   <<L("http/1.0", 1)>> \o Blank \o Blank, <<L("bad", 3)>>}

MCStreams ==
  {Blank \o <<r>> \o Host \o Blank : r \in RequestLines}
    \cup {<<L("http/1.1", 2)>> \o h \o Blank \o b : h \in Sections, b \in Bodies}
    \cup {<<L("http/1.0", 1)>> \o h \o Blank \o <<L("bad", 2)>> : h \in Sections}

=============================================================================
