----------------------------- MODULE MCLibrary -----------------------------
(***************************************************************************)
(* The sequential parts of the program side by side: the route table, the  *)
(* header fields, the static file paths and the body producers.  They      *)
(* share nothing, so that a behaviour exercises one of them, and the state *)
(* spaces add up instead of multiplying.                                   *)
(***************************************************************************)
EXTENDS Router, HeaderFields, StaticFiles, Routes

VARIABLE part

router == routes_
headers == <<fields_, said, adds>>
static == <<url_path, pieces>>
routes == <<route, n, producer>>

\* LOCK is found in UNLOCK, and every name in itself.
MCWithin == {<<"LOCK", "UNLOCK">>} \cup {<<m, m>> : m \in RequestMethods}

MCPaths == {<<"a">>, <<"a", "b">>, <<"b">>}

\* Values a field is given: a token in any case, with space around it, two of them, a longer one.
MCValues ==
  { [chars |-> <<"t">>, elements |-> {<<"t">>}],
    [chars |-> <<" ", "T", " ">>, elements |-> {<<"t">>}],
    [chars |-> <<"u", ",", "t">>, elements |-> {<<"u">>, <<"t">>}],
    [chars |-> <<"t", "u">>, elements |-> {<<"t", "u">>}] }

MCLower == [c \in {"t", "T", "u", ",", " "} |-> IF c = "T" THEN "t" ELSE c]

\* a . / \ % 2 and the escapes of . / and NUL.
MCPieces ==
  {<<97>>, <<46>>, <<47>>, <<92>>, <<37>>, <<50>>, <<37, 50, 101>>, <<37, 50, 70>>, <<37, 48, 48>>}

Init ==
  /\ part \in {"router", "headers", "static", "routes"}
  /\ RouterInit /\ HeadersInit /\ StaticInit /\ RoutesInit

Next ==
  /\ UNCHANGED part
  /\ \/ part = "router" /\ RouterNext /\ UNCHANGED <<headers, static, routes>>
     \/ part = "headers" /\ HeadersNext /\ UNCHANGED <<router, static, routes>>
     \/ part = "static" /\ StaticNext /\ UNCHANGED <<router, headers, routes>>
     \/ part = "routes" /\ RoutesNext /\ UNCHANGED <<router, headers, static>>

Spec == Init /\ [][Next]_<<part, router, headers, static, routes>>

=============================================================================
