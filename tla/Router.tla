------------------------------- MODULE Router -------------------------------
(***************************************************************************)
(* server/router.cpp: the route table and dispatch().  A path is a         *)
(* sequence of components; Paths are the ones routes and requests use.     *)
(* Routes are registered for RouteMethods, which excludes HEAD: HEAD is    *)
(* served by the GET handler.  Allow is a sequence of method names for the *)
(* joined string; a name has no ", " in it, so that it occurs in the       *)
(* string exactly when it occurs Within some name of the sequence.         *)
(***************************************************************************)
EXTENDS Integers, Sequences, Functions

CONSTANTS
  RouteMethods, Paths, MaxRoutes,
  Within      \* pairs of methods: the first one's name is a substring of the second's

RequestMethods == RouteMethods \cup {"HEAD"}

ASSUME RouterAssumption ==
  /\ "HEAD" \notin RouteMethods
  /\ \A m \in RequestMethods : <<m, m>> \in Within

VARIABLE routes_

add(method, path) ==
  /\ Len(routes_) < MaxRoutes
  /\ routes_' = Append(routes_, [method |-> method, path |-> path, prefix |-> FALSE])

add_prefix(method, path) ==
  /\ Len(routes_) < MaxRoutes
  /\ routes_' = Append(routes_, [method |-> method, path |-> path, prefix |-> TRUE])

\* compare(0, size, path) of a shorter path fails.
Matches(r, path) ==
  IF r.prefix THEN Len(r.path) <= Len(path) /\ SubSeq(path, 1, Len(r.path)) = r.path
  ELSE path = r.path

\* Faulty variant: the handler's method is listed, HEAD is forgotten.
Listed_NoHead(r) == <<r.method>>

\* Methods a route adds to Allow.
Listed(r) == IF r.method = "GET" THEN <<"GET", "HEAD">> ELSE <<r.method>>

\* The method whose handler serves a request.
Served(method) == IF method = "HEAD" THEN "GET" ELSE method

\* allow.find(method) != npos.
Found(allow, method) == \E k \in DOMAIN allow : <<method, allow[k]>> \in Within

\* Faulty variant: a later route overrides an earlier one.
Visit_LastWins(rs, req, acc, i) ==
  LET r == rs[i] IN
  IF ~Matches(r, req.path) THEN acc
  ELSE IF r.method = Served(req.method) THEN [acc EXCEPT !.handler = i]
  ELSE IF Found(acc.allow, r.method) THEN acc
  ELSE [acc EXCEPT !.allow = @ \o Listed(r)]

\* One turn of the loop of dispatch(): the i-th route.
Visit(rs, req, acc, i) ==
  LET r == rs[i] IN
  IF acc.handler # 0 \/ ~Matches(r, req.path) THEN acc
  ELSE IF r.method = Served(req.method) THEN [acc EXCEPT !.handler = i]
  ELSE IF Found(acc.allow, r.method) THEN acc
  ELSE [acc EXCEPT !.allow = @ \o Listed(r)]

\* The loop of dispatch() over the routes rs.
Scan(rs, req) ==
  LET scan[i \in 0..Len(rs)] ==
        IF i = 0 THEN [handler |-> 0, allow |-> <<>>] ELSE Visit(rs, req, scan[i - 1], i)
  IN scan[Len(rs)]

\* The response: of a handler, which may throw, or 405 with Allow, or 404.
dispatch(req, throws) ==
  LET scan == Scan(routes_, req)
      answer(status, allow) == [status |-> status, handler |-> scan.handler, allow |-> allow]
  IN IF scan.handler # 0 THEN answer(IF throws THEN 500 ELSE 200, <<>>)
     ELSE IF scan.allow # <<>> THEN answer(405, scan.allow)
     ELSE answer(404, <<>>)

RouterInit == routes_ = <<>>

RouterNext == \E m \in RouteMethods, p \in Paths : add(m, p) \/ add_prefix(m, p)

RouterSpec == RouterInit /\ [][RouterNext]_routes_

-----------------------------------------------------------------------------

\* "Unknown path -> 404, known path with another method -> 405 + Allow" (router.hpp): 404
\* says that no method is answered here, and Allow names, once each, methods this path does
\* answer, HEAD along with GET.  It leaves one out only for being found within the name of
\* another that it lists, as LOCK is within UNLOCK; if no route's name lies within another's
\* (the program registers GET and POST), it lists them all.
AllowAccurate ==
  \A path \in Paths, method \in RequestMethods :
    LET res == dispatch([path |-> path, method |-> method], FALSE)
        handled == {m \in RequestMethods : dispatch([path |-> path, method |-> m], FALSE).handler # 0}
        listed == Range(res.allow)
    IN /\ res.status = 404 <=> handled = {}
       /\ res.status = 405 =>
            /\ IsInjective(res.allow) /\ listed \subseteq handled
            /\ \A m \in handled \ listed : \E n \in listed \ {Served(m)} : <<Served(m), n>> \in Within

\* "Routes in registration order" (router.hpp): registering a route never changes who
\* answers a request that already had a handler.
FirstRegistered ==
  [][\A path \in Paths, method \in RequestMethods :
       LET req == [path |-> path, method |-> method] IN
       dispatch(req, FALSE).handler # 0 => dispatch(req, FALSE)' = dispatch(req, FALSE)]_routes_

=============================================================================
