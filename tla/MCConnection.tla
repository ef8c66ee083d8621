---------------------------- MODULE MCConnection ----------------------------
(* Small instances of Connection: request kinds and the scripts made of them. *)
EXTENDS Connection

Get == [blank |-> 0, line |-> 2, fields |-> 1, body |-> 0, bad |-> "no", expect |-> FALSE,
        keep |-> TRUE, head |-> FALSE, http10 |-> FALSE, kind |-> "inline", n |-> 1,
        client |-> "free"]
GetFile == [Get EXCEPT !.line = 1, !.kind = "file", !.n = 3]
GetStream == [Get EXCEPT !.line = 1, !.kind = "stream", !.n = 3]
GetSized == [Get EXCEPT !.line = 1, !.kind = "sized", !.n = 2]
GetClose == [Get EXCEPT !.line = 1, !.keep = FALSE]
GetHead == [Get EXCEPT !.line = 1, !.head = TRUE, !.kind = "file", !.n = 2]
Old == [Get EXCEPT !.line = 1, !.http10 = TRUE, !.kind = "stream", !.n = 2]
Empty == [Get EXCEPT !.line = 1, !.kind = "none", !.blank = 1]
Put == [Get EXCEPT !.line = 1, !.body = 2]
PutExpect == [Get EXCEPT !.line = 1, !.body = 2, !.expect = TRUE]
BadLine == [Get EXCEPT !.bad = "line"]
BadFields == [Get EXCEPT !.line = 1, !.body = 2, !.bad = "fields"]
BadBody == [Get EXCEPT !.line = 1, !.body = 1, !.bad = "body"]

AllKinds == {Get, GetFile, GetStream, GetSized, GetClose, GetHead, Old, Empty, Put, PutExpect,
             BadLine, BadFields, BadBody}

\* The requests of a script, all sent by a client of the given manner.
By(client, reqs) == [i \in 1..Len(reqs) |-> [reqs[i] EXCEPT !.client = client]]

\* Every kind before a file and after an upload that expects 100 Continue.
SafetyScripts ==
  {<<a, GetFile>> : a \in AllKinds} \cup {<<PutExpect, b>> : b \in AllKinds}
    \cup {By("burst", <<a, BadFields>>) : a \in AllKinds}

\* Well-formed persistent requests, for liveness.
KeepKinds == {Get, GetFile, GetStream, GetSized, GetHead, Empty, PutExpect}
LiveScripts ==
  {By(client, <<a, b>>) :
     client \in {"free", "lockstep"}, a \in KeepKinds, b \in {GetFile, GetStream, PutExpect}}

FileScript == {<<GetFile>>}
GetScript == {<<Get>>}

=============================================================================
