------------------------------- MODULE Worker -------------------------------
(***************************************************************************)
(* The event loop of one Server::Worker (src/server/server.cpp, run()):    *)
(* batches of events identified by descriptor number, accepting, the       *)
(* periodic sweep, the drain and the end of the thread.  A connection is   *)
(* reduced to what the loop looks at: the phase drive() leaves it in and   *)
(* its two clocks.                                                         *)
(*                                                                         *)
(* Clocks are ages: age[c] is now_us_ - last_active_us, and so on.  Time   *)
(* passes while the worker is blocked in epoll_wait; what it does between  *)
(* two waits takes no time.                                                *)
(***************************************************************************)
EXTENDS Integers, FiniteSets, Sequences

CONSTANTS
  Clients,        \* each connects at most once
  Fds,            \* descriptor numbers left to the listener and the connections
  MaxEvents,      \* kMaxEvents
  AcceptBatch,    \* kAcceptBatch
  IdleTimeout, HeaderTimeout, Grace,   \* ServerConfig
  MinTick, MaxTick,                    \* the clamp of tick_us_
  Milli,          \* time units per millisecond
  Faults          \* "abort": ECONNABORTED; "emfile": other threads of the process hold
                  \*   the descriptors; "epoll_ctl": registration fails

Smaller(a, b) == IF a <= b THEN a ELSE b
Larger(a, b) == IF a >= b THEN a ELSE b

\* tick_us_, and timeout_ms in time units.
Tick == Smaller(Larger(Smaller(IdleTimeout, HeaderTimeout) \div 4, MinTick), MaxTick)
Timeout == (Tick \div Milli) * Milli

NoFd == -1     \* an empty UniqueFd
WakeFd == 0
FirstFd == 1

ASSUME ConstantsAssumption ==
  /\ IsFiniteSet(Clients) /\ {"free", "listener", "wake"} \cap Clients = {}
  /\ IsFiniteSet(Fds) /\ Fds \subseteq Nat \ {WakeFd} /\ FirstFd \in Fds
  /\ MaxEvents \in Nat \ {0} /\ AcceptBatch \in Nat \ {0}
  /\ IdleTimeout \in Nat /\ HeaderTimeout \in Nat /\ Grace \in Nat
  /\ Milli \in Nat \ {0} /\ MinTick \in Nat /\ MaxTick \in Nat
  /\ Milli <= MinTick /\ MinTick <= MaxTick

VARIABLES
  fresh, backlog, acted,        \* clients: not connected yet; in the accept queue;
                                \*   active since the clock moved
  ready, stops,                 \* epoll's ready list; the eventfd is readable
  table, listener,              \* owner of each descriptor; listener_
  pc, batch, tries,             \* place in run(); events left; iterations of on_accept
  phase, age, head_age,         \* per connection: what sweep() sees, its two clocks
  since_sweep, waited,          \* now_us_ - last_sweep; time in this epoll_wait
  draining, drain_age,          \* draining_; time since begin_drain
  accepted, closed              \* connections_accepted, connections_closed

clientVars == <<fresh, backlog, acted>>
fdVars == <<table, listener>>
connVars == <<phase, age, head_age>>
timeVars == <<since_sweep, waited, drain_age>>
vars == <<clientVars, ready, stops, fdVars, pc, batch, tries, connVars, timeVars, draining,
          accepted, closed>>

-----------------------------------------------------------------------------

conns == {f \in Fds : table[f] \in Clients}
Open == {c \in Clients : \E f \in Fds : table[f] = c}
FdOf(c) == CHOOSE f \in Fds : table[f] = c
FreeFds == {f \in Fds : table[f] = "free"}
Lowest(f, S) == f \in S /\ \A g \in S : f <= g

Listed(s, f) == \E i \in 1..Len(s) : s[i] = f
Listen(s, f) == IF Listed(s, f) THEN s ELSE Append(s, f)

\* What epoll may report: the eventfd and every other descriptor.
Pollable == {WakeFd} \cup Fds

\* The elements of s that are in F, in their order.
Keep(s, F) ==
  LET kept[i \in 0..Len(s)] ==
        IF i = 0 THEN <<>> ELSE IF s[i] \in F THEN Append(kept[i - 1], s[i]) ELSE kept[i - 1]
  IN  kept[Len(s)]

Without(s, F) == Keep(s, Pollable \ F)

\* The connections of the descriptors F are gone: ~Connection closes the socket,
\* which leaves the ready list; events already copied to the batch stay.
Forget(F) ==
  LET gone == {table[f] : f \in F} IN
  /\ table' = [f \in Fds |-> IF f \in F THEN "free" ELSE table[f]]
  /\ phase' = [c \in Clients |-> IF c \in gone THEN "idle" ELSE phase[c]]
  /\ age' = [c \in Clients |-> IF c \in gone THEN 0 ELSE age[c]]
  /\ head_age' = [c \in Clients |-> IF c \in gone THEN 0 ELSE head_age[c]]

-----------------------------------------------------------------------------
(* Clients, and other threads that call stop().                            *)

\* A closed listener refuses (or the kernel picks another worker).
Connect(c) ==
  /\ c \in fresh /\ fresh' = fresh \ {c}
  /\ IF listener # NoFd
     THEN backlog' = backlog \cup {c} /\ ready' = Listen(ready, listener)
     ELSE UNCHANGED <<backlog, ready>>
  /\ UNCHANGED <<acted, stops, fdVars, pc, batch, tries, connVars, timeVars, draining,
                 accepted, closed>>

\* A connected client sends, reads, half-closes or resets.
Act(c) ==
  /\ c \in Open /\ c \notin acted
  /\ acted' = acted \cup {c} /\ ready' = Listen(ready, FdOf(c))
  /\ UNCHANGED <<fresh, backlog, stops, fdVars, pc, batch, tries, connVars, timeVars,
                 draining, accepted, closed>>

\* Worker::request_stop(), from any thread and any number of times.
Stop ==
  /\ "stop" \notin acted /\ acted' = acted \cup {"stop"}
  /\ stops' = TRUE /\ ready' = Listen(ready, WakeFd)
  /\ UNCHANGED <<fresh, backlog, fdVars, pc, batch, tries, connVars, timeVars, draining,
                 accepted, closed>>

\* Nothing is ready and the time of epoll_wait is not over.
StillReady(f) ==
  /\ f = WakeFd => stops
  /\ f = listener => backlog # {}

Advance ==
  /\ pc = "wait" /\ waited < Timeout
  /\ \A i \in 1..Len(ready) : ~StillReady(ready[i])
  /\ waited' = waited + 1 /\ since_sweep' = since_sweep + 1
  /\ drain_age' = IF draining THEN drain_age + 1 ELSE drain_age
  /\ age' = [c \in Clients |-> IF c \in Open THEN age[c] + 1 ELSE age[c]]
  /\ head_age' = [c \in Clients |-> IF phase[c] = "head" THEN head_age[c] + 1 ELSE head_age[c]]
  /\ acted' = {}
  /\ UNCHANGED <<fresh, backlog, ready, stops, fdVars, pc, batch, tries, phase, draining,
                 accepted, closed>>

-----------------------------------------------------------------------------
(* run(): wait, and handle one event after the other.                      *)

\* Faulty variant: the listener is registered edge-triggered.
LevelTriggered_NotListener == {WakeFd}

\* Registered without EPOLLET: reported again for as long as it is ready.
LevelTriggered == {WakeFd, listener}

Live == Keep(ready, {f \in Pollable : StillReady(f)})

\* Of the first n that are ready, the ones that stay on the ready list.
Again(n) == Keep(SubSeq(Live, 1, n), LevelTriggered)

\* What is reported is the number the descriptor had; `who` is not visible to the
\* worker.
EpollWait ==
  LET n == Smaller(Len(Live), MaxEvents) IN
  /\ pc = "wait" /\ (Live # <<>> \/ waited = Timeout)
  /\ batch' = [i \in 1..n |-> [fd |-> Live[i],
                               who |-> IF Live[i] = WakeFd THEN "wake" ELSE table[Live[i]]]]
  /\ ready' = SubSeq(Live, n + 1, Len(Live)) \o Again(n)
  /\ pc' = "events" /\ waited' = 0
  /\ UNCHANGED <<clientVars, stops, fdVars, tries, connVars, since_sweep, drain_age, draining,
                 accepted, closed>>

\* Faulty variant: the listener is closed by number, listener_ keeps it.
BeginDrain_Dangling ==
  IF draining THEN UNCHANGED <<draining, drain_age, fdVars, backlog, ready>>
  ELSE /\ draining' = TRUE /\ drain_age' = 0 /\ backlog' = {}
       /\ table' = [f \in Fds |-> IF f = listener THEN "free" ELSE table[f]]
       /\ ready' = Without(ready, {listener}) /\ UNCHANGED listener

\* Faulty variant: every stop() starts the grace period anew.
BeginDrain_Restarts ==
  /\ draining' = TRUE /\ drain_age' = 0 /\ listener' = NoFd /\ backlog' = {}
  /\ table' = [f \in Fds |-> IF f = listener THEN "free" ELSE table[f]]
  /\ ready' = Without(ready, {listener})

\* begin_drain: the clients still in the accept queue are refused.
BeginDrain ==
  IF draining THEN UNCHANGED <<draining, drain_age, fdVars, backlog, ready>>
  ELSE /\ draining' = TRUE /\ drain_age' = 0 /\ listener' = NoFd /\ backlog' = {}
       /\ table' = [f \in Fds |-> IF f = listener THEN "free" ELSE table[f]]
       /\ ready' = Without(ready, {listener})

HandleWake ==
  /\ pc = "events" /\ batch # <<>> /\ Head(batch).fd = WakeFd
  /\ batch' = Tail(batch) /\ stops' = FALSE
  /\ BeginDrain
  /\ UNCHANGED <<fresh, acted, pc, tries, connVars, since_sweep, waited, accepted, closed>>

HandleListener ==
  /\ pc = "events" /\ batch # <<>> /\ listener # NoFd /\ Head(batch).fd = listener
  /\ batch' = Tail(batch) /\ pc' = "accept" /\ tries' = AcceptBatch
  /\ UNCHANGED <<clientVars, ready, stops, fdVars, connVars, timeVars, draining, accepted, closed>>

\* The lookup by number finds nothing.
SkipEvent ==
  /\ pc = "events" /\ batch # <<>>
  /\ Head(batch).fd \notin conns \cup {WakeFd} /\ Head(batch).fd # listener
  /\ batch' = Tail(batch)
  /\ UNCHANGED <<clientVars, ready, stops, fdVars, pc, tries, connVars, timeVars, draining,
                 accepted, closed>>

\* What drive() may leave behind: a connection in the same phase, with or without
\* bytes moved, or one that moved bytes and is in any phase.  request_start_us is
\* kept as long as the same request head is incomplete.
Parks(c) ==
  \E p \in {"idle", "head", "busy"}, active \in BOOLEAN, next \in BOOLEAN :
    /\ p # phase[c] \/ next => active
    /\ phase' = [phase EXCEPT ![c] = p]
    /\ age' = [age EXCEPT ![c] = IF active THEN 0 ELSE @]
    /\ head_age' = [head_age EXCEPT ![c] = IF p = phase[c] /\ ~next THEN @ ELSE 0]

Drive ==
  LET f == Head(batch).fd IN
  /\ pc = "events" /\ batch # <<>> /\ f \in conns
  /\ batch' = Tail(batch)
  /\ \/ Parks(table[f]) /\ UNCHANGED <<ready, table, closed>>
     \/ Forget({f}) /\ ready' = Without(ready, {f}) /\ closed' = closed + 1
  /\ UNCHANGED <<clientVars, stops, listener, pc, tries, timeVars, draining, accepted>>

-----------------------------------------------------------------------------
(* on_accept(), one iteration per step.                                    *)

\* Faulty variant: a connection that epoll refuses is counted as accepted.
AcceptUnregistered_Counts(c) ==
  /\ "epoll_ctl" \in Faults
  /\ accepted' = accepted + 1 /\ UNCHANGED <<ready, table, connVars>>

\* epoll_ctl fails: the connection is closed again and not counted.
AcceptUnregistered(c) ==
  /\ "epoll_ctl" \in Faults
  /\ UNCHANGED <<ready, table, connVars, accepted>>

\* A new socket is writable, so its registration queues an event.
AcceptRegistered(c, f) ==
  /\ table' = [table EXCEPT ![f] = c] /\ ready' = Append(ready, f)
  /\ accepted' = accepted + 1
  /\ UNCHANGED connVars

AcceptOne ==
  /\ pc = "accept" /\ tries > 0 /\ tries' = tries - 1
  /\ \E c \in backlog, f \in Fds :
       /\ Lowest(f, FreeFds) /\ backlog' = backlog \ {c}
       /\ AcceptRegistered(c, f) \/ AcceptUnregistered(c)
  /\ UNCHANGED <<fresh, acted, stops, listener, pc, batch, timeVars, draining, closed>>

\* ECONNABORTED takes one iteration and the client.
AcceptAborted ==
  /\ pc = "accept" /\ tries > 0 /\ "abort" \in Faults /\ tries' = tries - 1
  /\ \E c \in backlog : backlog' = backlog \ {c}
  /\ UNCHANGED <<fresh, acted, ready, stops, fdVars, pc, batch, connVars, timeVars, draining,
                 accepted, closed>>

\* Faulty variant: when descriptors run out, an idle connection makes room.
AcceptDone_Evicts ==
  LET f == CHOOSE g \in conns : Lowest(g, conns) IN
  /\ pc = "accept" /\ (tries = 0 \/ backlog = {} \/ FreeFds = {} \/ "emfile" \in Faults)
  /\ IF tries > 0 /\ backlog # {} /\ conns # {}
     THEN Forget({f}) /\ ready' = Without(ready, {f}) /\ closed' = closed + 1
          /\ UNCHANGED <<pc, tries>>
     ELSE pc' = "events" /\ tries' = 0 /\ UNCHANGED <<ready, table, connVars, closed>>
  /\ UNCHANGED <<clientVars, stops, listener, batch, timeVars, draining, accepted>>

\* EAGAIN, EMFILE, or the end of the batch of accepts.
AcceptDone ==
  /\ pc = "accept" /\ (tries = 0 \/ backlog = {} \/ FreeFds = {} \/ "emfile" \in Faults)
  /\ pc' = "events" /\ tries' = 0
  /\ UNCHANGED <<clientVars, ready, stops, fdVars, batch, connVars, timeVars, draining, accepted,
                 closed>>

-----------------------------------------------------------------------------
(* The end of an iteration: sweep() when it is due, and the end of run().  *)

SweepDue == draining \/ since_sweep >= Tick

\* Faulty variant: the idle timeout spares a connection with a request in progress.
Expired_IdleOnly(c) ==
  \/ draining /\ phase[c] = "idle"
  \/ phase[c] = "head" /\ head_age[c] > HeaderTimeout
  \/ phase[c] = "idle" /\ age[c] > IdleTimeout

Expired(c) ==
  \/ draining /\ phase[c] = "idle"
  \/ phase[c] = "head" /\ head_age[c] > HeaderTimeout
  \/ age[c] > IdleTimeout

\* Faulty variant: the drain waits for its connections.
Leave_NoDeadline(left) == draining /\ left = {}

Leave(left) == draining /\ (left = {} \/ drain_age >= Grace)

EndBatch ==
  LET gone == {f \in conns : SweepDue /\ Expired(table[f])} IN
  /\ pc = "events" /\ batch = <<>>
  /\ Forget(gone) /\ ready' = Without(ready, gone) /\ closed' = closed + Cardinality(gone)
  /\ since_sweep' = IF SweepDue THEN 0 ELSE since_sweep
  /\ pc' = IF Leave(conns \ gone) THEN "closing" ELSE "wait"
  /\ UNCHANGED <<clientVars, stops, listener, batch, tries, waited, drain_age, draining,
                 accepted>>

\* Faulty variant: the connections are left to the destructor of the worker.
CloseAll_Leaves ==
  /\ pc = "closing" /\ pc' = "exited"
  /\ UNCHANGED <<clientVars, ready, stops, fdVars, batch, tries, connVars, timeVars, draining,
                 accepted, closed>>

\* After the loop.
CloseAll ==
  /\ pc = "closing" /\ pc' = "exited"
  /\ Forget(conns) /\ ready' = Without(ready, conns) /\ closed' = closed + Cardinality(conns)
  /\ UNCHANGED <<clientVars, stops, listener, batch, tries, timeVars, draining, accepted>>

-----------------------------------------------------------------------------

Init ==
  /\ fresh = Clients /\ backlog = {} /\ acted = {}
  /\ ready = <<>> /\ stops = FALSE
  /\ table = [f \in Fds |-> IF f = FirstFd THEN "listener" ELSE "free"] /\ listener = FirstFd
  /\ pc = "wait" /\ batch = <<>> /\ tries = 0
  /\ phase = [c \in Clients |-> "idle"]
  /\ age = [c \in Clients |-> 0] /\ head_age = [c \in Clients |-> 0]
  /\ since_sweep = 0 /\ waited = 0 /\ draining = FALSE /\ drain_age = 0
  /\ accepted = 0 /\ closed = 0

Loop ==
  \/ EpollWait \/ HandleWake \/ HandleListener \/ SkipEvent \/ Drive
  \/ AcceptOne \/ AcceptAborted \/ AcceptDone \/ EndBatch \/ CloseAll

Outside == Stop \/ \E c \in Clients : Connect(c) \/ Act(c)

Next == Loop \/ Advance \/ Outside

Spec == Init /\ [][Next]_vars

\* The thread keeps running, time passes while it waits, and accept4() does not fail
\* for ever.
FairSpec ==
  Spec /\ WF_vars(Loop) /\ WF_vars(Advance) /\ SF_vars(AcceptOne \/ AcceptAborted)

-----------------------------------------------------------------------------
(* Properties.                                                             *)

Event == [fd : Pollable, who : Clients \cup {"wake", "listener"}]

\* Every variable of the event loop keeps its type, and no two descriptors belong to
\* the same connection.
TypeOK ==
  /\ fresh \subseteq Clients /\ backlog \subseteq Clients \ fresh
  /\ acted \subseteq Clients \cup {"stop"}
  /\ ready \in Seq(Pollable) /\ stops \in BOOLEAN
  /\ table \in [Fds -> Clients \cup {"free", "listener"}] /\ listener \in {NoFd, FirstFd}
  /\ \A f \in Fds : table[f] = "listener" <=> f = listener
  /\ \A f, g \in conns : table[f] = table[g] => f = g
  /\ Open \cap (fresh \cup backlog) = {}
  /\ pc \in {"wait", "events", "accept", "closing", "exited"}
  /\ batch \in Seq(Event) /\ tries \in 0..AcceptBatch
  /\ phase \in [Clients -> {"idle", "head", "busy"}]
  /\ age \in [Clients -> Nat] /\ head_age \in [Clients -> Nat]
  /\ since_sweep \in Nat /\ waited \in 0..Timeout
  /\ draining \in BOOLEAN /\ drain_age \in Nat /\ accepted \in Nat /\ closed \in Nat

\* connections_accepted and connections_closed agree with conns_ at every step, also
\* across failed registrations, sweeps, and the end of the thread (the gauge
\* httpd_connections_active is computed from them).
Accounted == accepted = closed + Cardinality(conns)

\* An event that is still in the batch is never handled for another connection than
\* the one it was reported for: nothing closes a connection between epoll_wait and
\* its event and lets accept4() reuse the number ("a connection closed earlier in
\* this batch can never be touched again", run()).
EventsMatch ==
  \A i \in 1..Len(batch) : batch[i].fd \in conns => batch[i].who = table[batch[i].fd]

\* sweep() closes a connection at the latest one tick and one epoll_wait after a
\* deadline has passed, whatever wakes the worker in between.
DeadlinesKept ==
  \A c \in Open : /\ age[c] < IdleTimeout + Tick + Timeout
                  /\ phase[c] = "head" => head_age[c] < HeaderTimeout + Tick + Timeout

\* shutdown_grace bounds the drain: at the latest one epoll_wait after it, run() has
\* left its loop, however often stop() is called.
DrainBounded == draining => drain_age <= Grace + Timeout

\* stop() ends the thread, whenever it is called.
StopEnds == stops ~> pc = "exited"

\* A client in the accept queue is accepted or, by a drain, refused, once descriptors
\* become free: EMFILE and the bound on one batch of accepts lose nobody.
Admitted == \A c \in Clients : c \in backlog ~> c \notin backlog

Life ==
  INSTANCE WorkerLife
    WITH life <- IF pc = "exited" THEN "gone" ELSE IF draining THEN "draining" ELSE "serving",
         open <- Open

\* The loop keeps what WorkerLife promises: no connection is taken while draining, and
\* none is open when the thread has ended.
LifeKept == Life!Spec

\* The comment on tick_us_: the sweep runs "often enough that a deadline is overshot
\* by at most ~25%".
QuarterOvershoot == \A c \in Open : 4 * (age[c] - IdleTimeout) <= IdleTimeout

=============================================================================
