---------------------------- MODULE WorkerProofs ----------------------------
(***************************************************************************)
(* The event loop, for any number of clients and descriptors and any       *)
(* timeouts: its deadlines and its accounting.                             *)
(*                                                                         *)
(* DeadlinesKept is not inductive.  Clocks gives the reason it holds: no   *)
(* connection is older than its timeout by more than the time since the    *)
(* last sweep, and that is less than a tick when epoll_wait begins.        *)
(***************************************************************************)
EXTENDS Worker, FiniteSetTheorems, TLAPS

\* The part of the type invariant that does not speak of the lists of events.
Types ==
  /\ fresh \subseteq Clients /\ backlog \subseteq Clients \ fresh
  /\ table \in [Fds -> Clients \cup {"free", "listener"}] /\ listener \in {NoFd, FirstFd}
  /\ \A f \in Fds : table[f] = "listener" <=> f = listener
  /\ \A f, g \in conns : table[f] = table[g] => f = g
  /\ Open \cap (fresh \cup backlog) = {}
  /\ pc \in {"wait", "events", "accept", "closing", "exited"}
  /\ phase \in [Clients -> {"idle", "head", "busy"}]
  /\ age \in [Clients -> Nat] /\ head_age \in [Clients -> Nat]
  /\ since_sweep \in Nat /\ waited \in 0..Timeout
  /\ draining \in BOOLEAN /\ drain_age \in Nat /\ accepted \in Nat /\ closed \in Nat

\* The listener is closed exactly while draining, and run() ends only then.
Stages ==
  /\ draining <=> listener = NoFd
  /\ pc = "accept" => ~draining
  /\ pc \in {"closing", "exited"} => draining

\* A client without a connection has fresh clocks.
Unused == \A c \in Clients \ Open : phase[c] = "idle" /\ age[c] = 0 /\ head_age[c] = 0

Clocks ==
  /\ \A c \in Clients : age[c] <= IdleTimeout + since_sweep
  /\ \A c \in Clients : phase[c] = "head" => head_age[c] <= HeaderTimeout + since_sweep
  /\ IF pc = "wait" THEN since_sweep < Tick + waited ELSE since_sweep < Tick + Timeout
  /\ draining => IF pc = "wait" THEN drain_age < Grace + waited ELSE drain_age <= Grace + Timeout

IInv == Types /\ Stages /\ Unused /\ Clocks /\ Accounted

\* The tick is positive and epoll_wait's timeout, in whole milliseconds, not negative.
LEMMA TickFacts == Tick \in Nat \ {0} /\ Timeout \in Nat
<1> USE ConstantsAssumption
<1>1. Smaller(IdleTimeout, HeaderTimeout) \div 4 \in Nat
  BY DEF Smaller
<1>2. Tick \in Nat /\ Tick >= 1
  BY <1>1 DEF Tick, Smaller, Larger
<1>3. Tick \div Milli \in Nat
  BY <1>2
<1>4. \A m \in Nat : m * Milli \in Nat
  OBVIOUS
<1> QED
  BY <1>2, <1>3, <1>4 DEF Timeout

\* The invariant holds when run() begins.
LEMMA InitInv == Init => IInv
<1> SUFFICES ASSUME Init PROVE IInv
  OBVIOUS
<1> USE ConstantsAssumption, TickFacts DEF Init
<1>1. conns = {} /\ Open = {}
  BY DEF conns, Open
<1>2. Types
  <2>1. /\ table \in [Fds -> Clients \cup {"free", "listener"}]
        /\ \A f \in Fds : table[f] = "listener" <=> f = listener
    OBVIOUS
  <2>2. waited \in 0..Timeout /\ since_sweep \in Nat /\ drain_age \in Nat /\ accepted \in Nat
        /\ closed \in Nat /\ age \in [Clients -> Nat] /\ head_age \in [Clients -> Nat]
    OBVIOUS
  <2>3. phase \in [Clients -> {"idle", "head", "busy"}]
    OBVIOUS
  <2> QED
    BY <1>1, <2>1, <2>2, <2>3, Zenon DEF Types
<1>3. Stages /\ Unused /\ Clocks
  BY DEF Stages, Unused, Clocks, NoFd, FirstFd
<1>4. Accounted
  BY <1>1, FS_EmptySet DEF Accounted
<1> QED
  BY <1>2, <1>3, <1>4 DEF IInv

\* There are finitely many connections.
LEMMA FiniteConns == IsFiniteSet(conns)
BY FS_Subset, ConstantsAssumption DEF conns

\* Forgetting descriptors, as close_connection(), sweep() and the end of run() do, frees
\* them and the clocks of their connections, and nothing else.
LEMMA ForgetFacts ==
  ASSUME Types, Unused, NEW F \in SUBSET Fds, F \subseteq conns, Forget(F)
  PROVE  /\ conns' = conns \ F /\ Open' = Open \ {table[f] : f \in F}
         /\ table' \in [Fds -> Clients \cup {"free", "listener"}]
         /\ \A f \in Fds : table'[f] = "listener" <=> table[f] = "listener"
         /\ \A f, g \in conns' : table'[f] = table'[g] => f = g
         /\ phase' \in [Clients -> {"idle", "head", "busy"}]
         /\ age' \in [Clients -> Nat] /\ head_age' \in [Clients -> Nat]
         /\ Unused'
         /\ \A c \in Clients : age'[c] <= age[c] /\ (phase'[c] = "head" => phase[c] = "head")
                               /\ head_age'[c] <= head_age[c]
         /\ Cardinality(conns) = Cardinality(conns') + Cardinality(F)
<1> USE ConstantsAssumption DEF Forget
<1>1. conns' = conns \ F
  BY DEF Types, conns
<1>2. Open' = Open \ {table[f] : f \in F}
  <2>1. ASSUME NEW c \in Clients PROVE c \in Open' <=> c \in Open /\ c \notin {table[f] : f \in F}
    BY DEF Types, Open, conns
  <2> QED
    BY <2>1 DEF Open
<1>3. /\ table' \in [Fds -> Clients \cup {"free", "listener"}]
      /\ \A f \in Fds : table'[f] = "listener" <=> table[f] = "listener"
      /\ \A f, g \in conns' : table'[f] = table'[g] => f = g
  BY <1>1 DEF Types, conns
<1>4. /\ phase' \in [Clients -> {"idle", "head", "busy"}]
      /\ age' \in [Clients -> Nat] /\ head_age' \in [Clients -> Nat]
      /\ \A c \in Clients : age'[c] <= age[c] /\ (phase'[c] = "head" => phase[c] = "head")
                            /\ head_age'[c] <= head_age[c]
  BY DEF Types
<1>5. Unused'
  BY <1>2 DEF Unused, Types
<1>6. Cardinality(conns) = Cardinality(conns') + Cardinality(F)
  <2>1. conns \cap F = F
    OBVIOUS
  <2>2. Cardinality(conns \ F) = Cardinality(conns) - Cardinality(F)
    BY <2>1, FiniteConns, FS_Difference, ZenonT(40)
  <2>3. Cardinality(conns) \in Nat /\ Cardinality(F) \in Nat
    BY FiniteConns, FS_Subset, FS_CardinalityType, ZenonT(40)
  <2> QED
    BY <1>1, <2>2, <2>3
<1> QED
  BY <1>1, <1>2, <1>3, <1>4, <1>5, <1>6

\* Nothing that IInv speaks of changes.
Quiet == UNCHANGED <<fresh, backlog, fdVars, pc, connVars, timeVars, draining, accepted, closed>>

\* Such steps keep the invariant.
LEMMA QuietInv == IInv /\ Quiet => IInv'
BY DEF IInv, Quiet, fdVars, connVars, timeVars, Types, Stages, Unused, Clocks, Accounted, conns, Open

\* A step that leaves the connections alone leaves the sets derived from them.
LEMMA SameTable == table' = table => conns' = conns /\ Open' = Open
BY DEF conns, Open

\* What a client or stop() does keeps the invariant.
LEMMA OutsideInv == IInv /\ Outside => IInv'
<1> SUFFICES ASSUME IInv, Outside PROVE IInv'
  OBVIOUS
<1>1. CASE Stop
  BY <1>1, QuietInv DEF Stop, Quiet
<1>2. ASSUME NEW c \in Clients, Act(c) PROVE IInv'
  BY <1>2, QuietInv DEF Act, Quiet
<1>3. ASSUME NEW c \in Clients, Connect(c) PROVE IInv'
  <2>1. /\ fresh' \subseteq Clients /\ backlog' \subseteq Clients \ fresh'
        /\ fresh' \cup backlog' \subseteq fresh \cup backlog
    BY <1>3 DEF Connect, IInv, Types
  <2>2. UNCHANGED <<fdVars, pc, connVars, timeVars, draining, accepted, closed>>
    BY <1>3 DEF Connect
  <2> QED
    BY <2>1, <2>2, SameTable DEF IInv, Types, Stages, Unused, Clocks, Accounted, fdVars, connVars,
       timeVars
<1> QED
  BY <1>1, <1>2, <1>3 DEF Outside

\* The clock moves only inside epoll_wait, by one unit for all of them.
LEMMA AdvanceInv == IInv /\ Advance => IInv'
<1> SUFFICES ASSUME IInv, Advance PROVE IInv'
  OBVIOUS
<1> USE ConstantsAssumption, TickFacts DEF IInv
<1>1. UNCHANGED <<fresh, backlog, table, listener, pc, phase, draining, accepted, closed>>
  BY DEF Advance, fdVars
<1>2. conns' = conns /\ Open' = Open
  BY <1>1, SameTable
<1>3. Types'
  BY <1>1, <1>2 DEF Advance, Types
<1>4. Stages' /\ Accounted'
  BY <1>1, <1>2 DEF Stages, Accounted
<1>5. Unused'
  BY <1>1, <1>2 DEF Advance, Types, Unused
<1>6. Clocks'
  BY <1>1, SMTT(30) DEF Advance, Types, Clocks
<1> QED
  BY <1>3, <1>4, <1>5, <1>6

\* The end of epoll_wait: waited starts over, whatever is reported.
LEMMA EpollWaitInv == IInv /\ EpollWait => IInv'
<1> SUFFICES ASSUME IInv, EpollWait PROVE IInv'
  OBVIOUS
<1> USE ConstantsAssumption, TickFacts DEF IInv
<1>1. /\ UNCHANGED <<fresh, backlog, table, listener, phase, age, head_age, since_sweep>>
      /\ UNCHANGED <<draining, drain_age, accepted, closed>>
      /\ pc = "wait" /\ pc' = "events" /\ waited' = 0
  BY DEF EpollWait, fdVars, connVars, clientVars
<1>2. conns' = conns /\ Open' = Open
  BY <1>1, SameTable
<1>3. Types'
  BY <1>1, <1>2 DEF Types
<1>4. Stages' /\ Accounted' /\ Unused'
  BY <1>1, <1>2 DEF Stages, Accounted, Unused
<1>5. Clocks'
  BY <1>1 DEF Types, Clocks
<1> QED
  BY <1>3, <1>4, <1>5

\* begin_drain closes the listener, and no connection.
LEMMA HandleWakeInv == IInv /\ HandleWake => IInv'
<1> SUFFICES ASSUME IInv, HandleWake PROVE IInv'
  OBVIOUS
<1> USE ConstantsAssumption, TickFacts DEF IInv
<1>1. CASE draining
  BY <1>1, QuietInv DEF HandleWake, BeginDrain, Quiet, fdVars, timeVars
<1>2. CASE ~draining
  <2>1. /\ UNCHANGED <<fresh, pc, phase, age, head_age, since_sweep, waited, accepted, closed>>
        /\ pc = "events" /\ draining' = TRUE /\ drain_age' = 0 /\ listener' = NoFd /\ backlog' = {}
        /\ table' = [f \in Fds |-> IF f = listener THEN "free" ELSE table[f]]
    BY <1>2 DEF HandleWake, BeginDrain, connVars
  <2>2. conns' = conns /\ Open' = Open
    BY <2>1, ZenonT(40) DEF conns, Open, Types
  <2>3. Types'
    <3>1. /\ table' \in [Fds -> Clients \cup {"free", "listener"}]
          /\ \A f \in Fds : table'[f] = "listener" <=> f = listener'
          /\ \A f, g \in conns' : table'[f] = table'[g] => f = g
      BY <2>1, <2>2 DEF Types, conns, NoFd
    <3> QED
      BY <2>1, <2>2, <3>1 DEF Types
  <2>4. Stages' /\ Accounted' /\ Unused'
    BY <2>1, <2>2 DEF Stages, Accounted, Unused
  <2>5. Clocks'
    BY <2>1 DEF Types, Clocks
  <2> QED
    BY <2>3, <2>4, <2>5
<1> QED
  BY <1>1, <1>2 DEF Types

\* The steps of on_accept() that take no connection, and the events for the listener and
\* for nobody.
LEMMA AcceptNoneInv == IInv /\ (HandleListener \/ SkipEvent \/ AcceptAborted \/ AcceptDone) => IInv'
<1> SUFFICES ASSUME IInv, HandleListener \/ SkipEvent \/ AcceptAborted \/ AcceptDone PROVE IInv'
  OBVIOUS
<1>1. UNCHANGED <<fresh, table, listener, phase, age, head_age, since_sweep, waited, drain_age,
                  draining, accepted, closed>>
  BY ZenonT(40) DEF HandleListener, SkipEvent, AcceptAborted, AcceptDone, clientVars, fdVars,
    connVars, timeVars
<1>2. backlog' \subseteq backlog
  BY DEF HandleListener, SkipEvent, AcceptAborted, AcceptDone, clientVars
<1>3. /\ pc # "wait" /\ pc' # "wait" /\ pc' \in {"events", "accept"}
      /\ pc' = "accept" => pc = "accept" \/ listener # NoFd
  BY DEF HandleListener, SkipEvent, AcceptAborted, AcceptDone
<1>4. conns' = conns /\ Open' = Open
  BY <1>1, SameTable
<1>5. Types'
  BY <1>1, <1>2, <1>3, <1>4, SMTT(30) DEF IInv, Types
<1>6. Stages' /\ Accounted' /\ Unused'
  BY <1>1, <1>3, <1>4 DEF IInv, Stages, Accounted, Unused
<1>7. Clocks'
  BY <1>1, <1>3 DEF IInv, Clocks
<1> QED
  BY <1>5, <1>6, <1>7 DEF IInv

\* A registered connection takes a free descriptor and starts with fresh clocks; one that
\* epoll refuses leaves nothing behind.
LEMMA AcceptOneInv == IInv /\ AcceptOne => IInv'
<1> SUFFICES ASSUME IInv, AcceptOne PROVE IInv'
  OBVIOUS
<1> USE ConstantsAssumption, TickFacts DEF IInv
<1>1. /\ UNCHANGED <<fresh, listener, pc, phase, age, head_age, since_sweep, waited, drain_age,
                     draining, closed>>
      /\ pc = "accept"
  BY DEF AcceptOne, AcceptRegistered, AcceptUnregistered, connVars, timeVars
<1>2. PICK c \in backlog, f \in Fds :
         /\ f \in FreeFds /\ backlog' = backlog \ {c}
         /\ AcceptRegistered(c, f) \/ AcceptUnregistered(c)
  BY DEF AcceptOne, Lowest
<1>3. CASE AcceptUnregistered(c)
  <2>1. UNCHANGED <<table, accepted>>
    BY <1>3 DEF AcceptUnregistered
  <2>2. conns' = conns /\ Open' = Open
    BY <2>1, SameTable
  <2> QED
    BY <1>1, <1>2, <2>1, <2>2 DEF Types, Stages, Unused, Clocks, Accounted
<1>4. CASE AcceptRegistered(c, f)
  <2>1. table' = [table EXCEPT ![f] = c] /\ accepted' = accepted + 1
    BY <1>4 DEF AcceptRegistered
  <2>2. c \in Clients /\ c \notin Open /\ table[f] = "free" /\ f \notin conns
    BY <1>2 DEF Types, FreeFds, conns
  <2>3. conns' = conns \cup {f}
    BY <2>1, <2>2 DEF conns, Types
  <2>4. Open' = Open \cup {c}
    <3>1. ASSUME NEW d \in Clients PROVE d \in Open' <=> d \in Open \/ d = c
      BY <2>1, <2>2, SMTT(30) DEF Open, Types
    <3> QED
      BY <2>2, <3>1 DEF Open
  <2>5. Types'
    <3>1. /\ table' \in [Fds -> Clients \cup {"free", "listener"}]
          /\ \A g \in Fds : table'[g] = "listener" <=> g = listener'
      BY <1>1, <2>1, <2>2 DEF Types
    <3>2. \A g, h \in conns' : table'[g] = table'[h] => g = h
      BY <2>1, <2>2, <2>3 DEF Types, conns, Open
    <3>3. Open' \cap (fresh' \cup backlog') = {} /\ backlog' \subseteq Clients \ fresh'
      BY <1>1, <1>2, <2>2, <2>4 DEF Types
    <3> QED
      BY <1>1, <2>1, <3>1, <3>2, <3>3, SMTT(30) DEF Types
  <2>6. Stages' /\ Unused' /\ Clocks'
    BY <1>1, <2>4 DEF Stages, Unused, Clocks
  <2>7. Accounted'
    <3>1. Cardinality(conns') = Cardinality(conns) + 1
      BY <2>2, <2>3, FiniteConns, FS_AddElement, ZenonT(40)
    <3>2. Cardinality(conns) \in Nat
      BY FiniteConns, FS_CardinalityType
    <3> QED
      BY <1>1, <2>1, <3>1, <3>2 DEF Accounted, Types
  <2> QED
    BY <2>5, <2>6, <2>7
<1> QED
  BY <1>2, <1>3, <1>4

\* drive() leaves one connection in some phase, with clocks that did not grow, or closes it.
LEMMA DriveInv == IInv /\ Drive => IInv'
<1> SUFFICES ASSUME IInv, Drive PROVE IInv'
  OBVIOUS
<1> USE ConstantsAssumption, TickFacts DEF IInv
<1>1. /\ UNCHANGED <<fresh, backlog, listener, pc, since_sweep, waited, drain_age, draining, accepted>>
      /\ pc = "events"
  BY DEF Drive, clientVars, timeVars
<1>2. PICK f \in conns : \/ Parks(table[f]) /\ UNCHANGED <<table, closed>>
                         \/ Forget({f}) /\ closed' = closed + 1
  BY ZenonT(40) DEF Drive
<1>3. CASE Parks(table[f]) /\ UNCHANGED <<table, closed>>
  <2>1. conns' = conns /\ Open' = Open
    BY <1>3, SameTable
  <2>2. table[f] \in Clients /\ table[f] \in Open
    BY DEF conns, Open
  <2>3. /\ phase' \in [Clients -> {"idle", "head", "busy"}]
        /\ age' \in [Clients -> Nat] /\ head_age' \in [Clients -> Nat]
        /\ \A c \in Clients \ {table[f]} :
             phase'[c] = phase[c] /\ age'[c] = age[c] /\ head_age'[c] = head_age[c]
    BY <1>3, <2>2 DEF Parks, Types
  <2>4. Types'
    BY <1>1, <1>3, <2>1, <2>3, ZenonT(40) DEF Types
  <2>5. Unused' /\ Stages' /\ Accounted'
    BY <1>1, <1>3, <2>1, <2>2, <2>3, ZenonT(40) DEF Unused, Stages, Accounted
  <2>6. Clocks'
    <3>0. ASSUME NEW c \in Clients
          PROVE  /\ age'[c] \in Nat /\ age[c] \in Nat /\ age'[c] <= age[c]
                 /\ head_age'[c] \in Nat /\ head_age[c] \in Nat /\ head_age'[c] <= head_age[c]
                 /\ phase'[c] = "head" => phase[c] = "head" \/ head_age'[c] = 0
      <4>1. age'[c] \in Nat /\ age[c] \in Nat /\ head_age'[c] \in Nat /\ head_age[c] \in Nat
        BY <2>3, SMTT(30) DEF Types
      <4>2. /\ age'[c] <= age[c] /\ head_age'[c] <= head_age[c]
            /\ phase'[c] = "head" => phase[c] = "head" \/ head_age'[c] = 0
        BY <1>3, <2>2, <4>1, SMTT(30) DEF Parks, Types
      <4> QED
        BY <4>1, <4>2
    <3>1. ASSUME NEW c \in Clients PROVE age'[c] <= IdleTimeout + since_sweep'
      BY <1>1, <3>0 DEF Clocks, Types
    <3>2. ASSUME NEW c \in Clients, phase'[c] = "head"
          PROVE  head_age'[c] <= HeaderTimeout + since_sweep'
      <4>1. since_sweep \in Nat
        BY DEF Types
      <4>2. head_age'[c] <= head_age[c] /\ (phase[c] = "head" \/ head_age'[c] = 0)
        BY <3>0, <3>2, SMTT(30)
      <4>3. phase[c] = "head" => head_age[c] <= HeaderTimeout + since_sweep
        BY SMTT(30) DEF Clocks
      <4> QED
        BY <1>1, <3>0, <4>1, <4>2, <4>3
    <3> QED
      BY <1>1, <3>1, <3>2, SMTT(30) DEF Clocks
  <2> QED
    BY <2>4, <2>5, <2>6
<1>4. CASE Forget({f}) /\ closed' = closed + 1
  <2>1. {f} \in SUBSET Fds /\ {f} \subseteq conns /\ Cardinality({f}) = 1
    BY FS_Singleton, ZenonT(40) DEF conns
  <2>2. /\ conns' = conns \ {f} /\ Open' = Open \ {table[g] : g \in {f}}
        /\ table' \in [Fds -> Clients \cup {"free", "listener"}]
        /\ \A g \in Fds : table'[g] = "listener" <=> table[g] = "listener"
        /\ \A g, h \in conns' : table'[g] = table'[h] => g = h
        /\ phase' \in [Clients -> {"idle", "head", "busy"}]
        /\ age' \in [Clients -> Nat] /\ head_age' \in [Clients -> Nat]
        /\ Unused'
        /\ \A c \in Clients : age'[c] <= age[c] /\ (phase'[c] = "head" => phase[c] = "head")
                              /\ head_age'[c] <= head_age[c]
        /\ Cardinality(conns) = Cardinality(conns') + 1
    BY <1>4, <2>1, ForgetFacts, ZenonT(40)
  <2>3. Types'
    BY <1>1, <1>4, <2>2, SMTT(30) DEF Types
  <2>4. Stages' /\ Clocks'
    BY <1>1, <2>2, SMTT(30) DEF Stages, Clocks, Types
  <2>5. Accounted'
    <3>1. Cardinality(conns') \in Nat
      BY <2>2, FiniteConns, FS_Subset, FS_CardinalityType
    <3> QED
      BY <1>1, <1>4, <2>2, <3>1, SMTT(30) DEF Accounted, Types
  <2> QED
    BY <2>2, <2>3, <2>4, <2>5
<1> QED
  BY <1>2, <1>3, <1>4

\* A sweep closes what has expired, so that since_sweep may start over; the loop goes on
\* only with the drain's time not up.
LEMMA EndBatchInv == IInv /\ EndBatch => IInv'
<1> SUFFICES ASSUME IInv, EndBatch PROVE IInv'
  OBVIOUS
<1> USE ConstantsAssumption, TickFacts DEF IInv
<1>1. PICK F \in SUBSET Fds :
         /\ F = {f \in conns : SweepDue /\ Expired(table[f])}
         /\ Forget(F) /\ closed' = closed + Cardinality(F)
         /\ since_sweep' = IF SweepDue THEN 0 ELSE since_sweep
         /\ pc' = IF Leave(conns \ F) THEN "closing" ELSE "wait"
  <2>1. {f \in conns : SweepDue /\ Expired(table[f])} \in SUBSET Fds
    BY SMTT(30) DEF conns
  <2> QED
    BY <2>1, ZenonT(40) DEF EndBatch
<1>2. UNCHANGED <<fresh, backlog, listener, waited, drain_age, draining, accepted>>
  BY ZenonT(40) DEF EndBatch, clientVars
<1>3. F \subseteq conns /\ pc = "events"
  <2>1. F \subseteq conns
    BY <1>1, ZenonT(40)
  <2>2. pc = "events"
    BY ZenonT(40) DEF EndBatch
  <2> QED
    BY <2>1, <2>2, ZenonT(40)
<1>4. /\ conns' = conns \ F /\ Open' = Open \ {table[f] : f \in F}
      /\ table' \in [Fds -> Clients \cup {"free", "listener"}]
      /\ \A f \in Fds : table'[f] = "listener" <=> table[f] = "listener"
      /\ \A f, g \in conns' : table'[f] = table'[g] => f = g
      /\ phase' \in [Clients -> {"idle", "head", "busy"}]
      /\ age' \in [Clients -> Nat] /\ head_age' \in [Clients -> Nat]
      /\ Unused'
      /\ \A c \in Clients : age'[c] <= age[c] /\ (phase'[c] = "head" => phase[c] = "head")
                            /\ head_age'[c] <= head_age[c]
      /\ Cardinality(conns) = Cardinality(conns') + Cardinality(F)
  BY <1>1, <1>3, ForgetFacts, ZenonT(40)
<1>5. Cardinality(F) \in Nat /\ Cardinality(conns') \in Nat
  BY <1>3, <1>4, FiniteConns, FS_Subset, FS_CardinalityType, ZenonT(40)
<1>6. Types'
  <2>1. since_sweep' \in Nat /\ closed' \in Nat /\ pc' \in {"closing", "wait"}
    BY <1>1, <1>5 DEF Types
  <2>2. Open' \cap (fresh' \cup backlog') = {} /\ backlog' \subseteq Clients \ fresh'
    BY <1>2, <1>4, SMTT(30) DEF Types
  <2> QED
    BY <1>2, <1>4, <2>1, <2>2, ZenonT(40) DEF Types
<1>7. Stages'
  BY <1>1, <1>2, ZenonT(40) DEF Stages, Leave
<1>8. Accounted'
  BY <1>1, <1>2, <1>4, <1>5, SMTT(30) DEF Accounted, Types
<1>9. Clocks'
  <2>1. ASSUME NEW c \in Clients
        PROVE  /\ age'[c] <= IdleTimeout + since_sweep'
               /\ phase'[c] = "head" => head_age'[c] <= HeaderTimeout + since_sweep'
    <3>1. /\ age'[c] \in Nat /\ age[c] \in Nat /\ age'[c] <= age[c]
          /\ head_age'[c] \in Nat /\ head_age[c] \in Nat /\ head_age'[c] <= head_age[c]
          /\ phase'[c] = "head" => phase[c] = "head"
      BY <1>4, SMTT(30) DEF Types
    <3>2. CASE ~SweepDue
      BY <1>1, <3>1, <3>2 DEF Clocks, Types
    <3>3. CASE SweepDue /\ c \in Open'
      <4>1. PICK f \in conns : table[f] = c
        <5>1. c \in Open
          BY <1>4, <3>3, ZenonT(40)
        <5>2. PICK f \in Fds : table[f] = c
          BY <5>1, ZenonT(40) DEF Open
        <5>3. f \in conns
          BY <5>2, ZenonT(40) DEF conns
        <5> QED
          BY <5>2, <5>3, ZenonT(40)
      <4>2. ~Expired(c)
        BY <1>1, <1>4, <3>3, <4>1, ZenonT(40)
      <4>3. age[c] <= IdleTimeout /\ (phase[c] = "head" => head_age[c] <= HeaderTimeout)
        BY <3>1, <4>2, SMTT(30) DEF Expired
      <4>4. since_sweep' = 0
        BY <1>1, <3>3, ZenonT(40)
      <4> QED
        BY <3>1, <4>3, <4>4, SMTT(30)
    <3>4. CASE SweepDue /\ c \notin Open'
      BY <1>1, <1>4, <3>4, SMTT(30) DEF Unused
    <3> QED
      BY <3>2, <3>3, <3>4, SMTT(30)
  <2>2. since_sweep' < Tick /\ waited' >= 0 /\ waited' \in Int /\ since_sweep' \in Int
    BY <1>1, <1>2, SMTT(30) DEF SweepDue, Types
  <2>3. draining' /\ pc' = "wait" => drain_age' < Grace
    BY <1>1, <1>2 DEF Leave, Types
  <2>4. draining' /\ pc' # "wait" => drain_age' <= Grace + Timeout
    BY <1>2, <1>3, SMTT(30) DEF Clocks
  <2> QED
    BY <1>2, <2>1, <2>2, <2>3, <2>4, SMTT(30) DEF Clocks, Types
<1> QED
  BY <1>4, <1>6, <1>7, <1>8, <1>9, SMTT(30)

\* The end of run() closes every connection and counts it.
LEMMA CloseAllInv == IInv /\ CloseAll => IInv'
<1> SUFFICES ASSUME IInv, CloseAll PROVE IInv'
  OBVIOUS
<1> USE ConstantsAssumption, TickFacts DEF IInv
<1>1. PICK F \in SUBSET Fds : F = conns
  BY ZenonT(40) DEF conns
<1>2. /\ Forget(F) /\ closed' = closed + Cardinality(F) /\ pc = "closing" /\ pc' = "exited"
      /\ UNCHANGED <<fresh, backlog, listener, since_sweep, waited, drain_age, draining, accepted>>
  BY <1>1, ZenonT(40) DEF CloseAll, clientVars, timeVars
<1>3. /\ conns' = conns \ F /\ Open' = Open \ {table[f] : f \in F}
      /\ table' \in [Fds -> Clients \cup {"free", "listener"}]
      /\ \A f \in Fds : table'[f] = "listener" <=> table[f] = "listener"
      /\ \A f, g \in conns' : table'[f] = table'[g] => f = g
      /\ phase' \in [Clients -> {"idle", "head", "busy"}]
      /\ age' \in [Clients -> Nat] /\ head_age' \in [Clients -> Nat]
      /\ Unused'
      /\ \A c \in Clients : age'[c] <= age[c] /\ (phase'[c] = "head" => phase[c] = "head")
                            /\ head_age'[c] <= head_age[c]
      /\ Cardinality(conns) = Cardinality(conns') + Cardinality(F)
  BY <1>1, <1>2, ForgetFacts, ZenonT(40)
<1>4. Cardinality(F) \in Nat /\ Cardinality(conns') \in Nat
  BY <1>1, <1>3, FiniteConns, FS_Subset, FS_CardinalityType, SMTT(30)
<1>5. Types'
  <2>1. closed' \in Nat
    BY <1>2, <1>4, SMTT(30) DEF Types
  <2>2. Open' \cap (fresh' \cup backlog') = {} /\ backlog' \subseteq Clients \ fresh'
    BY <1>2, <1>3, SMTT(30) DEF Types
  <2> QED
    BY <1>2, <1>3, <2>1, <2>2, ZenonT(40) DEF Types
<1>6. Stages' /\ Accounted'
  <2>1. Stages'
    BY <1>2, ZenonT(40) DEF Stages
  <2>2. Accounted'
    BY <1>2, <1>3, <1>4, SMTT(30) DEF Accounted, Types
  <2> QED
    BY <2>1, <2>2, ZenonT(40)
<1>7. Clocks'
  <2>1. ASSUME NEW c \in Clients
        PROVE  /\ age'[c] <= IdleTimeout + since_sweep'
               /\ phase'[c] = "head" => head_age'[c] <= HeaderTimeout + since_sweep'
    BY <1>2, <1>3 DEF Clocks, Types
  <2> QED
    BY <1>2, <2>1, SMTT(30) DEF Clocks
<1> QED
  BY <1>3, <1>5, <1>6, <1>7

\* Every step of the worker and of its surroundings keeps the invariant.
LEMMA StepInv == IInv /\ [Next]_vars => IInv'
<1>1. IInv /\ UNCHANGED vars => IInv'
  BY QuietInv DEF vars, Quiet, clientVars
<1> QED
  BY <1>1, OutsideInv, AdvanceInv, EpollWaitInv, HandleWakeInv, AcceptNoneInv, AcceptOneInv,
     DriveInv, EndBatchInv, CloseAllInv, ZenonT(40) DEF Next, Loop

\* What holds of every reachable state of the event loop.
LEMMA Invariant == Spec => []IInv
BY InitInv, StepInv, PTL DEF Spec

\* For any timeouts, and however clients time what they do, sweep() closes a connection at
\* the latest one tick and one epoll_wait after its deadline.
THEOREM SweepKeepsDeadlines == Spec => []DeadlinesKept
<1>1. IInv => DeadlinesKept
  BY ConstantsAssumption, TickFacts, SMTT(30) DEF IInv, Clocks, Types, DeadlinesKept, Open
<1> QED
  BY <1>1, Invariant, PTL

\* For any grace period, a drain ends at the latest one epoll_wait after it.
THEOREM DrainIsBounded == Spec => []DrainBounded
<1>1. IInv => DrainBounded
  BY ConstantsAssumption, TickFacts DEF IInv, Clocks, Types, DrainBounded
<1> QED
  BY <1>1, Invariant, PTL

\* For any number of clients and descriptors, connections_accepted and connections_closed
\* differ by the connections that are open.
THEOREM CountersAgree == Spec => []Accounted
BY Invariant, PTL DEF IInv

-----------------------------------------------------------------------------
(* The event loop implements WorkerLife: the steps that open, close or     *)
(* end something are steps of WorkerLife, all others leave it alone.       *)

Stage == IF pc = "exited" THEN "gone" ELSE IF draining THEN "draining" ELSE "serving"

LifeStep == [Life!Next]_<<Stage, Open>>

\* The worker begins serving, without a connection.
LEMMA InitLife == Init => Life!Init
BY ConstantsAssumption DEF Init, Life!Init, Open

\* A step that changes neither the connections nor the stage is a stutter.
LEMMA Stutter ==
  ASSUME table' = table, draining' = draining, (pc = "exited") <=> (pc' = "exited")
  PROVE  LifeStep
BY SameTable DEF LifeStep, Stage

\* Releasing connections without a change of stage is a step of WorkerLife.
LEMMA ReleaseLife ==
  ASSUME Types, NEW S \in SUBSET Clients, S \subseteq Open, Open' = Open \ S,
         draining' = draining, pc # "exited", pc' # "exited"
  PROVE  LifeStep
<1>1. CASE S = {}
  BY <1>1 DEF LifeStep, Stage
<1>2. CASE S # {}
  BY <1>2 DEF LifeStep, Stage, Life!Next, Life!Release, Types
<1> QED
  BY <1>1, <1>2

\* The connections of descriptors in use are open ones.
LEMMA Owners ==
  ASSUME NEW F \in SUBSET Fds, F \subseteq conns
  PROVE  {table[f] : f \in F} \in SUBSET Clients /\ {table[f] : f \in F} \subseteq Open
BY DEF conns, Open

\* Every step of the event loop is a step of WorkerLife or leaves it alone.
LEMMA StepLife == IInv /\ [Next]_vars => LifeStep
<1> SUFFICES ASSUME IInv, [Next]_vars PROVE LifeStep
  OBVIOUS
<1> USE ConstantsAssumption DEF IInv
<1>1. CASE UNCHANGED vars
  BY <1>1, Stutter DEF vars, fdVars
<1>2. CASE Stop \/ \E c \in Clients : Connect(c) \/ Act(c)
  BY <1>2, Stutter DEF Stop, Connect, Act, fdVars
<1>3. CASE Advance
  BY <1>3, Stutter DEF Advance, fdVars
<1>4. CASE EpollWait
  BY <1>4, Stutter DEF EpollWait, fdVars
<1>5. CASE HandleListener \/ SkipEvent \/ AcceptAborted \/ AcceptDone
  BY <1>5, Stutter DEF HandleListener, SkipEvent, AcceptAborted, AcceptDone, fdVars
<1>6. CASE HandleWake
  <2>1. CASE draining
    BY <1>6, <2>1, Stutter DEF HandleWake, BeginDrain, fdVars
  <2>2. CASE ~draining
    <3>1. /\ draining' = TRUE /\ pc' = pc /\ pc = "events"
          /\ table' = [f \in Fds |-> IF f = listener THEN "free" ELSE table[f]]
      BY <1>6, <2>2 DEF HandleWake, BeginDrain
    <3>2. Open' = Open
      BY <3>1 DEF Open, Types
    <3> QED
      BY <2>2, <3>1, <3>2 DEF LifeStep, Stage, Life!Next, Life!Drain
  <2> QED
    BY <2>1, <2>2 DEF Types
<1>7. CASE AcceptOne
  <2>1. draining' = draining /\ pc' = pc /\ pc = "accept" /\ ~draining
    BY <1>7 DEF AcceptOne, Stages
  <2>2. PICK c \in backlog, f \in Fds :
           f \in FreeFds /\ (AcceptRegistered(c, f) \/ AcceptUnregistered(c))
    BY <1>7 DEF AcceptOne, Lowest
  <2>3. CASE AcceptUnregistered(c)
    BY <2>1, <2>3, Stutter DEF AcceptUnregistered
  <2>4. CASE AcceptRegistered(c, f)
    <3>1. c \in Clients /\ c \notin Open /\ table[f] = "free"
      BY <2>2 DEF Types, FreeFds
    <3>2. ASSUME NEW d \in Clients PROVE d \in Open' <=> d \in Open \/ d = c
      BY <2>4, <3>1 DEF AcceptRegistered, Open, Types
    <3>3. Open' = Open \cup {c}
      BY <3>1, <3>2 DEF Open
    <3> QED
      BY <2>1, <3>1, <3>3, Zenon DEF LifeStep, Stage, Life!Next, Life!Admit
  <2> QED
    BY <2>2, <2>3, <2>4
<1>8. CASE Drive
  <2>1. draining' = draining /\ pc' = pc /\ pc = "events"
    BY <1>8 DEF Drive
  <2>2. PICK f \in conns : table' = table \/ Forget({f})
    BY <1>8, ZenonT(40) DEF Drive
  <2>3. CASE table' = table
    BY <2>1, <2>3, Stutter, Zenon
  <2>4. CASE Forget({f})
    <3>1. PICK F \in SUBSET Fds : F = {f}
      BY ZenonT(40) DEF conns
    <3>2. F \subseteq conns /\ Forget(F)
      BY <2>2, <2>4, <3>1
    <3>3. Open' = Open \ {table[g] : g \in F}
      BY <3>2, ForgetFacts
    <3>4. PICK S \in SUBSET Clients : S = {table[g] : g \in F} /\ S \subseteq Open
      BY <3>2, Owners, ZenonT(40)
    <3> QED
      BY <2>1, <3>3, <3>4, ReleaseLife, Zenon
  <2> QED
    BY <2>2, <2>3, <2>4
<1>9. CASE EndBatch
  <2>1. draining' = draining /\ pc = "events" /\ pc' \in {"closing", "wait"}
    BY <1>9 DEF EndBatch
  <2>2. PICK F \in SUBSET Fds : F \subseteq conns /\ Forget(F)
    <3>1. PICK F \in SUBSET Fds : F = {f \in conns : SweepDue /\ Expired(table[f])}
      BY ZenonT(40) DEF conns
    <3> QED
      BY <1>9, <3>1 DEF EndBatch
  <2>3. Open' = Open \ {table[g] : g \in F}
    BY <2>2, ForgetFacts
  <2>4. PICK S \in SUBSET Clients : S = {table[g] : g \in F} /\ S \subseteq Open
    BY <2>2, Owners, ZenonT(40)
  <2> QED
    BY <2>1, <2>3, <2>4, ReleaseLife, ZenonT(40)
<1>10. CASE CloseAll
  <2>1. draining' = draining /\ pc = "closing" /\ pc' = "exited" /\ draining
    BY <1>10, Zenon DEF CloseAll, Stages
  <2>2. PICK F \in SUBSET Fds : F = conns
    BY ZenonT(40) DEF conns
  <2>3. Open' = Open \ {table[g] : g \in F}
    BY <1>10, <2>2, ForgetFacts DEF CloseAll
  <2>4. Open' = {}
    BY <2>2, <2>3 DEF Open, conns
  <2> QED
    BY <2>1, <2>4, Zenon DEF LifeStep, Stage, Life!Next, Life!End
<1> QED
  BY <1>1, <1>2, <1>3, <1>4, <1>5, <1>6, <1>7, <1>8, <1>9, <1>10 DEF Next, Loop, Outside

\* The event loop implements WorkerLife, for any number of clients, descriptors and any
\* timeouts: no connection is admitted while draining and none is open at the end.
THEOREM WorkerImplementsLife == Spec => LifeKept
<1>1. LifeStep => [Life!Next]_<<IF pc = "exited" THEN "gone"
                                ELSE IF draining THEN "draining" ELSE "serving", Open>>
  BY DEF LifeStep, Stage
<1> QED
  BY <1>1, InitLife, StepLife, Invariant, PTL DEF Spec, LifeKept, Life!Spec

=============================================================================
