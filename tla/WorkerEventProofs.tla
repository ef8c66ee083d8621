------------------------- MODULE WorkerEventProofs --------------------------
(***************************************************************************)
(* The event loop identifies events by descriptor number, and numbers are  *)
(* reused.  An event of the batch is nevertheless never handled for        *)
(* another connection than the one it was reported for.                    *)
(***************************************************************************)
EXTENDS WorkerProofs

-----------------------------------------------------------------------------
(* The ready list and the batch, as sequences.                             *)

Distinct(s) == \A i, j \in 1..Len(s) : s[i] = s[j] => i = j

\* A set of natural numbers that is not empty has a least element.
LEMMA Least ==
  ASSUME NEW T \in SUBSET Nat, T # {}
  PROVE  \E n \in T : \A m \in T : n <= m
<1>1. \E x \in T : \A y \in T : ~ (<<y, x>> \in OpToRel(<,Nat))
  BY NatLessThanWellFounded, WFMin, Zenon
<1>2. OpToRel(<,Nat) = {ss \in Nat \X Nat : ss[1] < ss[2]}
  BY Zenon DEF OpToRel
<1>3. PICK x \in T : \A y \in T : ~ (<<y, x>> \in {ss \in Nat \X Nat : ss[1] < ss[2]})
  BY <1>1, <1>2, Zenon
<1>4. \A y \in T : ~(y < x)
  BY <1>3, Zenon
<1> QED
  BY <1>4

\* Induction: a set that contains 0 and every successor is Nat.
LEMMA Induct ==
  ASSUME NEW T \in SUBSET Nat, 0 \in T, \A n \in T : n + 1 \in T
  PROVE  T = Nat
<1> DEFINE U == Nat \ T
<1>1. SUFFICES ASSUME U # {} PROVE FALSE
  BY Zenon
<1>2. PICK n \in U : \A m \in U : n <= m
  BY <1>1, Least, Zenon
<1>3. n # 0 /\ n - 1 \in Nat /\ n - 1 \notin U
  BY <1>2
<1> QED
  BY <1>3

\* The recursive function of Keep exists: the kept part of each prefix follows from
\* the kept part of the prefix before it.
LEMMA KeepSteps ==
  ASSUME NEW T, NEW s \in Seq(T), NEW F
  PROVE  \E p : /\ Keep(s, F) = p[Len(s)] /\ p[0] = <<>>
               /\ \A i \in 1..Len(s) :
                    p[i] = IF s[i] \in F THEN Append(p[i - 1], s[i]) ELSE p[i - 1]
<1> DEFINE Pick(g, i) ==
             IF i = 0 THEN <<>> ELSE IF s[i] \in F THEN Append(g[i - 1], s[i]) ELSE g[i - 1]
           Rec(g, n) == g = [i \in 0..n |-> Pick(g, i)]
           N == {n \in Nat : \E g : Rec(g, n)}
<1>1. 0 \in N
  <2> DEFINE g == [i \in 0..0 |-> <<>>]
  <2>1. Rec(g, 0)
    OBVIOUS
  <2> QED
    BY <2>1, Zenon
<1>2. ASSUME NEW n \in N PROVE n + 1 \in N
  <2>1. PICK g : Rec(g, n)
    OBVIOUS
  <2> DEFINE h == [i \in 0..(n + 1) |-> IF i <= n THEN g[i] ELSE Pick(g, n + 1)]
  <2>0. n \in Nat
    OBVIOUS
  <2>2. ASSUME NEW i \in 0..(n + 1) PROVE h[i] = Pick(h, i)
    <3>1. CASE i = 0
      BY <2>0, <2>1, <3>1
    <3>2. CASE i # 0
      <4>1. i - 1 \in 0..n /\ h[i - 1] = g[i - 1]
        BY <2>0, <3>2
      <4>2. CASE i <= n
        <5>1. i \in 0..n /\ h[i] = g[i]
          BY <2>0, <4>2
        <5>2. g[i] = Pick(g, i)
          BY <2>1, <5>1, Zenon
        <5> QED
          BY <4>1, <5>1, <5>2
      <4>3. CASE ~(i <= n)
        <5>1. i = n + 1 /\ h[i] = Pick(g, n + 1)
          BY <2>0, <4>3
        <5> QED
          BY <4>1, <5>1
      <4> QED
        BY <4>2, <4>3
    <3> QED
      BY <3>1, <3>2
  <2>3. Rec(h, n + 1)
    BY <2>2, Zenon
  <2>4. \E k : Rec(k, n + 1)
    <3> HIDE DEF h, Rec
    <3> QED
      BY <2>3
  <2> HIDE DEF Rec
  <2> QED
    BY <2>0, <2>4
<1>3. N = Nat
  <2>1. N \in SUBSET Nat
    OBVIOUS
  <2> HIDE DEF N
  <2> QED
    BY <1>1, <1>2, <2>1, Induct
<1> DEFINE p == CHOOSE g : Rec(g, Len(s))
<1>4. Rec(p, Len(s))
  <2>1. Len(s) \in N
    BY <1>3
  <2>2. \E g : Rec(g, Len(s))
    BY <2>1
  <2> HIDE DEF Rec
  <2> QED
    BY <2>2
<1>5. Keep(s, F) = p[Len(s)]
  BY DEF Keep
<1>6. \A i \in 0..Len(s) : p[i] = Pick(p, i)
  BY <1>4, Zenon
<1> HIDE DEF p, Rec
<1>7. /\ p[0] = <<>>
      /\ \A i \in 1..Len(s) :
           p[i] = IF s[i] \in F THEN Append(p[i - 1], s[i]) ELSE p[i - 1]
  BY <1>6
<1> QED
  BY <1>5, <1>7

\* Keep returns elements of the sequence that are in the set, and none twice if the
\* sequence has none twice.
LEMMA KeepFacts ==
  ASSUME NEW T, NEW s \in Seq(T), NEW F
  PROVE  /\ Keep(s, F) \in Seq(T)
         /\ \A i \in 1..Len(Keep(s, F)) :
              Keep(s, F)[i] \in F /\ \E j \in 1..Len(s) : s[j] = Keep(s, F)[i]
         /\ Distinct(s) => Distinct(Keep(s, F))
<1> USE DEF Distinct
<1>1. PICK p : /\ Keep(s, F) = p[Len(s)] /\ p[0] = <<>>
               /\ \A i \in 1..Len(s) :
                    p[i] = IF s[i] \in F THEN Append(p[i - 1], s[i]) ELSE p[i - 1]
  BY KeepSteps
<1> DEFINE Good(n) ==
      /\ p[n] \in Seq(T)
      /\ \A i \in 1..Len(p[n]) : p[n][i] \in F /\ \E j \in 1..n : s[j] = p[n][i]
      /\ Distinct(s) => Distinct(p[n])
           G == {n \in Nat : n <= Len(s) => Good(n)}
<1>2. 0 \in G
  <2>1. Good(0)
    BY <1>1
  <2> HIDE DEF Good
  <2> QED
    BY <2>1
<1>3. ASSUME NEW n \in G PROVE n + 1 \in G
  <2>0. n \in Nat
    OBVIOUS
  <2>1. SUFFICES ASSUME n + 1 <= Len(s) PROVE Good(n + 1)
    BY <2>0
  <2>2. Good(n)
    BY <2>0, <2>1
  <2>3. p[n + 1] = IF s[n + 1] \in F THEN Append(p[n], s[n + 1]) ELSE p[n]
    BY <1>1, <2>0, <2>1
  <2>4. CASE s[n + 1] \in F
    <3>1. p[n + 1] = Append(p[n], s[n + 1])
      BY <2>3, <2>4
    <3>2. s[n + 1] \in T
      BY <2>0, <2>1
    <3>3. p[n + 1] \in Seq(T) /\ Len(p[n + 1]) = Len(p[n]) + 1
      BY <2>2, <3>1, <3>2
    <3>4. \A i \in 1..Len(p[n + 1]) :
            IF i = Len(p[n]) + 1 THEN p[n + 1][i] = s[n + 1]
            ELSE p[n + 1][i] = p[n][i] /\ i \in 1..Len(p[n])
      BY <2>2, <3>1, <3>2, <3>3
    <3>5. \A i \in 1..Len(p[n + 1]) : p[n + 1][i] \in F /\ \E j \in 1..(n + 1) : s[j] = p[n + 1][i]
      <4> TAKE i \in 1..Len(p[n + 1])
      <4>1. CASE i = Len(p[n]) + 1
        <5>1. n + 1 \in 1..(n + 1) /\ s[n + 1] = p[n + 1][i]
          BY <2>0, <3>4, <4>1
        <5> QED
          BY <2>4, <5>1
      <4>2. CASE i # Len(p[n]) + 1
        <5>1. p[n + 1][i] = p[n][i] /\ i \in 1..Len(p[n])
          BY <3>4, <4>2
        <5>2. PICK j \in 1..n : s[j] = p[n][i]
          BY <2>2, <5>1
        <5>3. j \in 1..(n + 1)
          BY <2>0
        <5> QED
          BY <2>2, <5>1, <5>2, <5>3
      <4> QED
        BY <4>1, <4>2
    <3>6. ASSUME Distinct(s),
                 NEW i \in 1..Len(p[n + 1]), NEW j \in 1..Len(p[n + 1]), p[n + 1][i] = p[n + 1][j]
          PROVE i = j
      <4>1. \A k \in 1..Len(p[n]) : p[n][k] # s[n + 1]
        BY <2>0, <2>1, <2>2, <3>6
      <4>2. \A k, l \in 1..Len(p[n]) : p[n][k] = p[n][l] => k = l
        BY <2>2, <3>6
      <4>3. CASE i = Len(p[n]) + 1
        BY <3>4, <3>6, <4>1, <4>3
      <4>4. CASE i # Len(p[n]) + 1
        BY <3>4, <3>6, <4>1, <4>2, <4>4
      <4> QED
        BY <4>3, <4>4
    <3> QED
      BY <3>3, <3>5, <3>6
  <2>5. CASE s[n + 1] \notin F
    BY <2>0, <2>2, <2>3, <2>5
  <2> QED
    BY <2>4, <2>5
<1>4. G = Nat
  <2>1. G \in SUBSET Nat
    OBVIOUS
  <2> HIDE DEF G
  <2> QED
    BY <1>2, <1>3, <2>1, Induct
<1>5. Good(Len(s))
  BY <1>4
<1> QED
  BY <1>1, <1>5

-----------------------------------------------------------------------------
(* Events are handled for the connection they were reported for.           *)

\* Each descriptor is on the ready list once, and only while it is open.
ReadyInv ==
  /\ ready \in Seq(Pollable) /\ Distinct(ready)
  /\ \A i \in 1..Len(ready) : ready[i] \notin FreeFds

\* A batch has one event per descriptor.  A descriptor is closed after its own event,
\* so the events that are left are for open descriptors, or for the listener that a
\* drain has closed; and nothing is accepted after that.
BatchInv ==
  /\ batch \in Seq(Event)
  /\ \A i, j \in 1..Len(batch) : batch[i].fd = batch[j].fd => i = j
  /\ \A i \in 1..Len(batch) : batch[i].fd \in FreeFds => draining
  /\ EventsMatch
  /\ pc \in {"wait", "closing", "exited"} => batch = <<>>

\* The other variables of the type invariant.
RestTypes == acted \subseteq Clients \cup {"stop"} /\ stops \in BOOLEAN /\ tries \in 0..AcceptBatch

EventInv == ReadyInv /\ BatchInv /\ RestTypes

\* Putting a descriptor on a list of distinct ones keeps it one.
LEMMA ListenFacts ==
  ASSUME NEW T, NEW s \in Seq(T), NEW f \in T, Distinct(s)
  PROVE  /\ Listen(s, f) \in Seq(T) /\ Distinct(Listen(s, f))
         /\ \A i \in 1..Len(Listen(s, f)) :
              Listen(s, f)[i] = f \/ \E j \in 1..Len(s) : s[j] = Listen(s, f)[i]
<1>1. CASE Listed(s, f)
  BY <1>1 DEF Listen
<1>2. CASE ~Listed(s, f)
  <2>1. Listen(s, f) = Append(s, f) /\ \A i \in 1..Len(s) : s[i] # f
    BY <1>2 DEF Listen, Listed
  <2>2. /\ Append(s, f) \in Seq(T) /\ Len(Append(s, f)) = Len(s) + 1
        /\ \A i \in 1..(Len(s) + 1) :
             Append(s, f)[i] = IF i <= Len(s) THEN s[i] ELSE f
    OBVIOUS
  <2>3. \A i \in 1..(Len(s) + 1) : i <= Len(s) => i \in 1..Len(s)
    OBVIOUS
  <2>4. Distinct(Append(s, f))
    BY <2>1, <2>2, <2>3 DEF Distinct
  <2> QED
    BY <2>1, <2>2, <2>3, <2>4
<1> QED
  BY <1>1, <1>2

\* Descriptors that are closed leave the ready list.
LEMMA ClosedNotReady ==
  ASSUME ReadyInv, Types, NEW F \in SUBSET Fds, ready' = Without(ready, F),
         table' = [f \in Fds |-> IF f \in F THEN "free" ELSE table[f]]
  PROVE  ReadyInv'
<1>1. /\ ready' \in Seq(Pollable) /\ Distinct(ready')
      /\ \A i \in 1..Len(ready') :
           ready'[i] \in Pollable \ F /\ \E j \in 1..Len(ready) : ready[j] = ready'[i]
  <2>1. ready \in Seq(Pollable) /\ Distinct(ready)
    BY DEF ReadyInv
  <2>2. PICK K : K = Pollable \ F
    BY Zenon
  <2>3. /\ Keep(ready, K) \in Seq(Pollable) /\ Distinct(Keep(ready, K))
        /\ \A i \in 1..Len(Keep(ready, K)) :
             Keep(ready, K)[i] \in K /\ \E j \in 1..Len(ready) : ready[j] = Keep(ready, K)[i]
    BY <2>1, KeepFacts
  <2>4. ready' = Keep(ready, K)
    BY <2>2 DEF Without
  <2> QED
    BY <2>2, <2>3, <2>4, Zenon
<1>2. FreeFds' = FreeFds \cup F
  BY DEF FreeFds, Types
<1>3. \A i \in 1..Len(ready') : ready'[i] \notin FreeFds'
  BY <1>1, <1>2, Zenon DEF ReadyInv
<1> QED
  BY <1>1, <1>3 DEF ReadyInv, Pollable, Distinct

\* The batch without its first event.
LEMMA TailFacts ==
  ASSUME BatchInv, batch # <<>>, batch' = Tail(batch)
  PROVE  /\ batch' \in Seq(Event)
         /\ \A i, j \in 1..Len(batch') : batch'[i].fd = batch'[j].fd => i = j
         /\ \A i \in 1..Len(batch') :
              /\ batch'[i].fd # Head(batch).fd
              /\ \E j \in 1..Len(batch) : batch'[i] = batch[j]
<1>1. /\ batch' \in Seq(Event) /\ Len(batch') = Len(batch) - 1 /\ Len(batch) \in Nat \ {0}
      /\ \A i \in 1..Len(batch') : batch'[i] = batch[i + 1] /\ i + 1 \in 1..Len(batch)
      /\ Head(batch) = batch[1]
  BY DEF BatchInv
<1>2. \A i, j \in 1..Len(batch) : batch[i].fd = batch[j].fd => i = j
  BY DEF BatchInv
<1>3. \A i, j \in 1..Len(batch') : batch'[i].fd = batch'[j].fd => i = j
  BY <1>1, <1>2
<1>4. ASSUME NEW i \in 1..Len(batch') PROVE batch'[i].fd # Head(batch).fd
  BY <1>1, <1>2
<1> QED
  BY <1>1, <1>3, <1>4

\* A step keeps the invariant of the batch if it keeps or drops events and closes no
\* descriptor an event is left for.
LEMMA SameOwners ==
  ASSUME Types, BatchInv, batch' \in Seq(Event), pc' = pc, draining' = draining,
         NEW F \in SUBSET Fds, table' = [f \in Fds |-> IF f \in F THEN "free" ELSE table[f]],
         \A i, j \in 1..Len(batch') : batch'[i].fd = batch'[j].fd => i = j,
         \A i \in 1..Len(batch') : batch'[i].fd \notin F
                                   /\ \E j \in 1..Len(batch) : batch'[i] = batch[j],
         pc \notin {"wait", "closing", "exited"} \/ batch' = <<>>
  PROVE  BatchInv'
<1>1. \A f \in Fds \ F : (f \in FreeFds' <=> f \in FreeFds) /\ (f \in conns' <=> f \in conns)
                         /\ table'[f] = table[f]
  BY DEF FreeFds, conns, Types
<1>2. FreeFds' \subseteq Fds /\ conns' \subseteq Fds
  BY DEF FreeFds, conns
<1>3. \A i \in 1..Len(batch') : batch'[i].fd \in FreeFds' => draining
  BY <1>1, <1>2 DEF BatchInv
<1>4. \A i \in 1..Len(batch') : batch'[i].fd \in conns' => batch'[i].who = table'[batch'[i].fd]
  BY <1>1, <1>2 DEF BatchInv, EventsMatch
<1> QED
  BY <1>3, <1>4 DEF BatchInv, EventsMatch, Event, Pollable

\* Clients, other threads and the passing of time.
LEMMA OutsideEvents ==
  ASSUME IInv, EventInv, Advance \/ Outside
  PROVE  EventInv'
<1> USE DEF IInv, EventInv
<1>1. UNCHANGED <<table, listener, batch, pc, draining, tries>>
  BY Zenon DEF Advance, Outside, Stop, Connect, Act, fdVars
<1>2. FreeFds' = FreeFds /\ conns' = conns
  BY <1>1 DEF FreeFds, conns
<1>3. BatchInv'
  BY <1>1, <1>2, ZenonT(40) DEF BatchInv, EventsMatch, Event, Pollable
<1>4. acted' \subseteq Clients \cup {"stop"} /\ stops' \in BOOLEAN
  BY Zenon DEF RestTypes, Advance, Outside, Stop, Connect, Act
<1>5. ready' = ready \/ \E f \in Pollable \ FreeFds : ready' = Listen(ready, f)
  <2>1. CASE Advance
    BY <2>1 DEF Advance
  <2>2. CASE Stop
    BY <2>2, ConstantsAssumption, Zenon DEF Stop, Pollable, FreeFds
  <2>3. ASSUME NEW c \in Clients, Connect(c)
        PROVE  ready' = ready \/ \E f \in Pollable \ FreeFds : ready' = Listen(ready, f)
    <3>1. listener # NoFd => listener \in Pollable \ FreeFds
      BY ConstantsAssumption DEF Types, Pollable, FreeFds
    <3> QED
      BY <2>3, <3>1 DEF Connect
  <2>4. ASSUME NEW c \in Clients, Act(c)
        PROVE  ready' = ready \/ \E f \in Pollable \ FreeFds : ready' = Listen(ready, f)
    <3>1. \E f \in Fds : table[f] = c
      BY <2>4 DEF Act, Open
    <3>2. FdOf(c) \in Fds /\ table[FdOf(c)] = c
      BY <3>1, Zenon DEF FdOf
    <3>3. FdOf(c) \in Pollable \ FreeFds
      BY <3>2, ConstantsAssumption DEF Pollable, FreeFds
    <3> QED
      BY <2>4, <3>3, Zenon DEF Act
  <2> QED
    BY <2>1, <2>2, <2>3, <2>4 DEF Outside
<1>6. ReadyInv'
  <2>1. CASE ready' = ready
    BY <2>1, <1>2, ZenonT(40) DEF ReadyInv, Distinct, Pollable
  <2>2. ASSUME NEW f \in Pollable \ FreeFds, ready' = Listen(ready, f) PROVE ReadyInv'
    <3>1. /\ ready' \in Seq(Pollable) /\ Distinct(ready')
          /\ \A i \in 1..Len(ready') :
               ready'[i] = f \/ \E j \in 1..Len(ready) : ready[j] = ready'[i]
      <4>1. ready \in Seq(Pollable) /\ Distinct(ready) /\ f \in Pollable
        BY DEF ReadyInv
      <4>2. /\ Listen(ready, f) \in Seq(Pollable) /\ Distinct(Listen(ready, f))
            /\ \A i \in 1..Len(Listen(ready, f)) :
                 Listen(ready, f)[i] = f \/ \E j \in 1..Len(ready) : ready[j] = Listen(ready, f)[i]
        BY <4>1, ListenFacts
      <4> QED
        BY <2>2, <4>2
    <3>2. \A i \in 1..Len(ready') : ready'[i] \notin FreeFds'
      BY <1>2, <2>2, <3>1 DEF ReadyInv
    <3> QED
      BY <3>1, <3>2, Zenon DEF ReadyInv, Distinct, Pollable
  <2> QED
    BY <1>5, <2>1, <2>2
<1> QED
  BY <1>1, <1>3, <1>4, <1>6 DEF RestTypes

\* epoll_wait: what it reports becomes the batch, in the order of the ready list.
LEMMA EpollWaitEvents ==
  ASSUME IInv, EventInv, EpollWait
  PROVE  EventInv'
<1> USE DEF IInv, EventInv
<1>1. UNCHANGED <<table, acted, stops, tries>> /\ pc' = "events"
  BY DEF EpollWait, clientVars, fdVars
<1>2. FreeFds' = FreeFds /\ conns' = conns
  BY <1>1 DEF FreeFds, conns
<1>3. /\ Live \in Seq(Pollable) /\ Distinct(Live)
      /\ \A i \in 1..Len(Live) : Live[i] \notin FreeFds
  <2>1. ready \in Seq(Pollable) /\ Distinct(ready)
    BY DEF ReadyInv
  <2>2. PICK K : K = {f \in Pollable : StillReady(f)}
    BY Zenon
  <2>3. /\ Keep(ready, K) \in Seq(Pollable) /\ Distinct(Keep(ready, K))
        /\ \A i \in 1..Len(Keep(ready, K)) : \E j \in 1..Len(ready) : ready[j] = Keep(ready, K)[i]
    BY <2>1, KeepFacts
  <2>4. Live = Keep(ready, K)
    BY <2>2 DEF Live
  <2> QED
    BY <2>3, <2>4 DEF ReadyInv
<1>4. PICK n \in 0..Len(Live) :
        /\ batch' = [i \in 1..n |-> [fd |-> Live[i],
                                     who |-> IF Live[i] = WakeFd THEN "wake" ELSE table[Live[i]]]]
        /\ ready' = SubSeq(Live, n + 1, Len(Live)) \o Again(n)
  <2>1. Smaller(Len(Live), MaxEvents) \in 0..Len(Live)
    BY <1>3, ConstantsAssumption DEF Smaller
  <2> QED
    BY <2>1, Zenon DEF EpollWait
<1>5. n \in Nat /\ n <= Len(Live) /\ Len(Live) \in Nat
  BY <1>3, <1>4
<1>6. batch' \in Seq(Event) /\ Len(batch') = n /\ \A i \in 1..n : batch'[i].fd = Live[i]
  <2>1. ASSUME NEW i \in 1..n
        PROVE  [fd |-> Live[i],
                who |-> IF Live[i] = WakeFd THEN "wake" ELSE table[Live[i]]] \in Event
    <3>1. Live[i] \in Pollable \ FreeFds
      BY <1>3, <1>5
    <3>2. Live[i] # WakeFd => table[Live[i]] \in Clients \cup {"listener"}
      BY <3>1 DEF Pollable, FreeFds, Types
    <3> QED
      BY <3>1, <3>2 DEF Event
  <2> QED
    BY <1>4, <1>5, <2>1
<1>7. BatchInv'
  <2>1. \A i, j \in 1..Len(batch') : batch'[i].fd = batch'[j].fd => i = j
    BY <1>3, <1>5, <1>6 DEF Distinct
  <2>2. \A i \in 1..Len(batch') : batch'[i].fd \notin FreeFds'
    BY <1>2, <1>3, <1>5, <1>6
  <2>3. EventsMatch'
    <3>1. WakeFd \notin conns
      BY ConstantsAssumption DEF conns
    <3> QED
      BY <1>1, <1>2, <1>4, <1>6, <3>1 DEF EventsMatch
  <2> QED
    BY <1>1, <1>6, <2>1, <2>2, <2>3 DEF BatchInv, Event, Pollable
<1>8. ReadyInv'
  <2> DEFINE first == SubSeq(Live, 1, n)
             last == SubSeq(Live, n + 1, Len(Live))
  <2>1. /\ first \in Seq(Pollable) /\ Len(first) = n /\ \A i \in 1..n : first[i] = Live[i]
        /\ last \in Seq(Pollable) /\ Len(last) = Len(Live) - n
        /\ \A i \in 1..Len(last) : last[i] = Live[n + i]
    BY <1>3, <1>5
  <2>2. Distinct(first)
    BY <1>3, <1>5, <2>1 DEF Distinct
  <2> HIDE DEF first, last
  <2>3. PICK again : /\ again = Again(n) /\ again \in Seq(Pollable) /\ Distinct(again)
                     /\ \A i \in 1..Len(again) : \E j \in 1..Len(first) : first[j] = again[i]
    <3>1. PICK K : K = LevelTriggered
      OBVIOUS
    <3>2. /\ Keep(first, K) \in Seq(Pollable) /\ Distinct(Keep(first, K))
          /\ \A i \in 1..Len(Keep(first, K)) : \E j \in 1..Len(first) : first[j] = Keep(first, K)[i]
      BY <2>1, <2>2, KeepFacts
    <3>3. Again(n) = Keep(first, K)
      BY <3>1 DEF Again, first
    <3> QED
      BY <3>2, <3>3
  <2>4. ready' = last \o again
    BY <1>4, <2>3 DEF last
  <2>5. /\ ready' \in Seq(Pollable) /\ Len(ready') = Len(last) + Len(again)
        /\ \A i \in 1..Len(ready') :
             IF i <= Len(last) THEN ready'[i] = last[i] /\ i \in 1..Len(last)
             ELSE ready'[i] = again[i - Len(last)] /\ i - Len(last) \in 1..Len(again)
    BY <2>1, <2>3, <2>4
  <2>6. \A i \in 1..Len(last), j \in 1..Len(again) : last[i] # again[j]
    <3> SUFFICES ASSUME NEW i \in 1..Len(last), NEW j \in 1..Len(again), last[i] = again[j]
                 PROVE  FALSE
      OBVIOUS
    <3>0. PICK k \in 1..Len(first) : first[k] = again[j]
      BY <2>3, Zenon
    <3>1. k \in 1..n /\ Live[k] = again[j]
      BY <2>1, <3>0
    <3>2. last[i] = Live[n + i] /\ n + i \in 1..Len(Live) /\ k \in 1..Len(Live) /\ k # n + i
      BY <1>5, <2>1
    <3> QED
      BY <1>3, <3>1, <3>2 DEF Distinct
  <2>7. Distinct(last)
    BY <1>3, <1>5, <2>1 DEF Distinct
  <2>8. Distinct(ready')
    <3> SUFFICES ASSUME NEW i \in 1..Len(ready'), NEW j \in 1..Len(ready'), ready'[i] = ready'[j]
                 PROVE  i = j
      BY DEF Distinct
    <3>0. Len(last) \in Nat /\ Len(again) \in Nat
      BY <2>1, <2>3
    <3>1. CASE i <= Len(last) /\ j <= Len(last)
      BY <2>5, <2>7, <3>1 DEF Distinct
    <3>2. CASE i > Len(last) /\ j > Len(last)
      <4>1. /\ i - Len(last) \in 1..Len(again) /\ j - Len(last) \in 1..Len(again)
            /\ again[i - Len(last)] = again[j - Len(last)]
        BY <2>5, <3>0, <3>2
      <4>2. i - Len(last) = j - Len(last)
        BY <2>3, <4>1, Zenon DEF Distinct
      <4> QED
        BY <3>0, <4>2
    <3>3. CASE i <= Len(last) /\ j > Len(last)
      BY <2>5, <2>6, <3>0, <3>3
    <3>4. CASE i > Len(last) /\ j <= Len(last)
      BY <2>5, <2>6, <3>0, <3>4
    <3> QED
      BY <3>0, <3>1, <3>2, <3>3, <3>4
  <2>9. ASSUME NEW i \in 1..Len(ready') PROVE ready'[i] \notin FreeFds'
    <3>1. \E k \in 1..Len(Live) : ready'[i] = Live[k]
      <4>1. CASE i <= Len(last)
        <5>1. ready'[i] = Live[n + i] /\ n + i \in 1..Len(Live)
          BY <1>5, <2>1, <2>5, <4>1
        <5> QED
          BY <5>1
      <4>2. CASE ~(i <= Len(last))
        <5>1. ready'[i] = again[i - Len(last)] /\ i - Len(last) \in 1..Len(again)
          BY <2>5, <4>2
        <5>2. PICK j \in 1..n : Live[j] = again[i - Len(last)]
          BY <2>1, <2>3, <5>1, Zenon
        <5>3. j \in 1..Len(Live)
          BY <1>5
        <5> QED
          BY <5>1, <5>2, <5>3
      <4> QED
        BY <4>1, <4>2
    <3> QED
      BY <1>2, <1>3, <3>1
  <2> QED
    BY <2>5, <2>8, <2>9, Zenon DEF ReadyInv, Distinct, Pollable
<1> QED
  BY <1>1, <1>7, <1>8 DEF RestTypes

\* The first event is handled, and nothing is opened or closed.
LEMMA TailEvents ==
  ASSUME IInv, EventInv, HandleListener \/ SkipEvent
  PROVE  EventInv'
<1> USE DEF IInv, EventInv
<1>1. /\ UNCHANGED <<table, listener, ready, acted, stops, draining>>
      /\ batch # <<>> /\ batch' = Tail(batch) /\ pc' \in {"events", "accept"}
      /\ tries' \in 0..AcceptBatch
  BY ConstantsAssumption DEF HandleListener, SkipEvent, fdVars, clientVars, RestTypes
<1>2. FreeFds' = FreeFds /\ conns' = conns
  BY <1>1 DEF FreeFds, conns
<1>3. ReadyInv'
  BY <1>1, <1>2, ZenonT(40) DEF ReadyInv, Distinct, Pollable
<1>4. /\ batch' \in Seq(Event)
      /\ \A i, j \in 1..Len(batch') : batch'[i].fd = batch'[j].fd => i = j
      /\ \A i \in 1..Len(batch') : \E j \in 1..Len(batch) : batch'[i] = batch[j]
  BY <1>1, TailFacts
<1>5. \A i \in 1..Len(batch') : batch'[i].fd \in FreeFds' => draining'
  BY <1>1, <1>2, <1>4 DEF BatchInv
<1>6. EventsMatch'
  BY <1>1, <1>2, <1>4 DEF BatchInv, EventsMatch
<1>7. BatchInv'
  BY <1>1, <1>4, <1>5, <1>6 DEF BatchInv, Event, Pollable
<1> QED
  BY <1>1, <1>3, <1>7 DEF RestTypes

\* The eventfd: a drain closes the listener, whose event may be left in the batch.
LEMMA HandleWakeEvents ==
  ASSUME IInv, EventInv, HandleWake
  PROVE  EventInv'
<1> USE DEF IInv, EventInv
<1>1. /\ UNCHANGED <<acted, tries, pc>> /\ pc = "events" /\ stops' = FALSE
      /\ batch # <<>> /\ batch' = Tail(batch)
  BY DEF HandleWake
<1>2. /\ batch' \in Seq(Event)
      /\ \A i, j \in 1..Len(batch') : batch'[i].fd = batch'[j].fd => i = j
      /\ \A i \in 1..Len(batch') : \E j \in 1..Len(batch) : batch'[i] = batch[j]
  BY <1>1, TailFacts
<1>3. draining' = TRUE
  BY DEF HandleWake, BeginDrain, Types
<1>4. conns' \subseteq conns /\ \A f \in conns' : table'[f] = table[f]
  <2>1. table' = table \/ table' = [f \in Fds |-> IF f = listener THEN "free" ELSE table[f]]
    BY DEF HandleWake, BeginDrain, fdVars
  <2> QED
    BY <2>1, ConstantsAssumption, ZenonT(40) DEF conns, Types
<1>5. EventsMatch'
  BY <1>2, <1>4 DEF BatchInv, EventsMatch
<1>6. BatchInv'
  BY <1>1, <1>2, <1>3, <1>5 DEF BatchInv, Event, Pollable
<1>7. ReadyInv'
  <2>1. CASE draining
    <3>1. UNCHANGED <<table, ready>>
      BY <2>1 DEF HandleWake, BeginDrain, fdVars
    <3> QED
      BY <3>1, ZenonT(40) DEF ReadyInv, Distinct, Pollable, FreeFds
  <2>2. CASE ~draining
    <3>1. listener \in Fds
      BY <2>2, ConstantsAssumption DEF Types, Stages
    <3>2. PICK F \in SUBSET Fds : F = {listener}
      BY <3>1, Zenon
    <3>3. /\ ready' = Without(ready, F)
          /\ table' = [f \in Fds |-> IF f \in F THEN "free" ELSE table[f]]
      BY <2>2, <3>2 DEF HandleWake, BeginDrain
    <3> QED
      BY <3>3, ClosedNotReady
  <2> QED
    BY <2>1, <2>2
<1> QED
  BY <1>1, <1>6, <1>7, Zenon DEF RestTypes

\* An event of a connection: drive() may close it, and this was its only event.
LEMMA DriveEvents ==
  ASSUME IInv, EventInv, Drive
  PROVE  EventInv'
<1> USE DEF IInv, EventInv
<1>1. /\ UNCHANGED <<acted, stops, tries, pc, draining>> /\ pc = "events"
      /\ batch # <<>> /\ batch' = Tail(batch)
  BY DEF Drive, clientVars
<1>2. PICK f \in Fds : f = Head(batch).fd
  BY DEF Drive, conns
<1>3. \/ UNCHANGED <<ready, table>>
      \/ Forget({f}) /\ ready' = Without(ready, {f})
  BY <1>2, Zenon DEF Drive
<1>4. PICK F \in SUBSET Fds : F = {f}
  BY Zenon
<1>5. /\ batch' \in Seq(Event)
      /\ \A i, j \in 1..Len(batch') : batch'[i].fd = batch'[j].fd => i = j
      /\ \A i \in 1..Len(batch') :
           batch'[i].fd \notin F /\ \E j \in 1..Len(batch) : batch'[i] = batch[j]
  BY <1>1, <1>2, <1>4, TailFacts, Zenon
<1>6. CASE UNCHANGED <<ready, table>>
  <2>1. ReadyInv'
    BY <1>6, ZenonT(40) DEF ReadyInv, Distinct, Pollable, FreeFds
  <2>2. PICK E \in SUBSET Fds : E = {}
    BY Zenon
  <2>3. table' = [g \in Fds |-> IF g \in E THEN "free" ELSE table[g]]
    BY <1>6, <2>2 DEF Types
  <2>4. \A i \in 1..Len(batch') :
           batch'[i].fd \notin E /\ \E j \in 1..Len(batch) : batch'[i] = batch[j]
    BY <1>5, <2>2
  <2>5. BatchInv'
    BY <1>1, <1>5, <2>3, <2>4, SameOwners, Zenon
  <2> QED
    BY <1>1, <2>1, <2>5, Zenon DEF RestTypes
<1>7. CASE Forget({f}) /\ ready' = Without(ready, {f})
  <2>1. /\ table' = [g \in Fds |-> IF g \in F THEN "free" ELSE table[g]]
        /\ ready' = Without(ready, F)
    BY <1>4, <1>7 DEF Forget
  <2>2. ReadyInv'
    BY <2>1, ClosedNotReady
  <2>3. BatchInv'
    BY <1>1, <1>5, <2>1, SameOwners, Zenon
  <2> QED
    BY <1>1, <2>2, <2>3, Zenon DEF RestTypes
<1> QED
  BY <1>3, <1>6, <1>7

\* accept4() gives a new connection a descriptor that no event and no place on the
\* ready list belongs to.
LEMMA AcceptEvents ==
  ASSUME IInv, EventInv, AcceptOne \/ AcceptAborted \/ AcceptDone
  PROVE  EventInv'
<1> USE DEF IInv, EventInv
<1>1. UNCHANGED <<acted, stops, batch, draining>> /\ pc = "accept" /\ pc' \in {"accept", "events"}
  BY DEF AcceptOne, AcceptAborted, AcceptDone, clientVars
<1>2. ~draining
  BY <1>1 DEF Stages
<1>3. tries' \in 0..AcceptBatch
  BY ConstantsAssumption DEF AcceptOne, AcceptAborted, AcceptDone, RestTypes
<1>4. \A i \in 1..Len(batch) : batch[i].fd \notin FreeFds
  BY <1>2 DEF BatchInv
<1>5. CASE UNCHANGED <<ready, table>>
  <2>1. FreeFds' = FreeFds /\ conns' = conns
    BY <1>5 DEF FreeFds, conns
  <2>2. ReadyInv'
    BY <1>5, <2>1, ZenonT(40) DEF ReadyInv, Distinct, Pollable
  <2>3. BatchInv'
    BY <1>1, <1>5, <2>1, ZenonT(40) DEF BatchInv, EventsMatch, Event, Pollable
  <2> QED
    BY <1>1, <1>3, <2>2, <2>3, Zenon DEF RestTypes
<1>6. ASSUME NEW c \in backlog, NEW f \in Fds, f \in FreeFds, AcceptRegistered(c, f) PROVE EventInv'
  <2>1. table' = [table EXCEPT ![f] = c] /\ ready' = Append(ready, f) /\ c \in Clients
    BY <1>6 DEF AcceptRegistered, Types
  <2>2. /\ conns' \subseteq conns \cup {f} /\ FreeFds' \subseteq FreeFds /\ f \notin FreeFds'
        /\ \A g \in conns : table'[g] = table[g]
    BY <1>6, <2>1, ConstantsAssumption DEF conns, FreeFds, Types
  <2>3. ReadyInv'
    <3>1. \A i \in 1..Len(ready) : ready[i] # f
      BY <1>6 DEF ReadyInv
    <3>2. ready \in Seq(Pollable) /\ Distinct(ready) /\ f \in Pollable
      BY DEF Pollable, ReadyInv
    <3>3. /\ Listen(ready, f) \in Seq(Pollable) /\ Distinct(Listen(ready, f))
          /\ \A i \in 1..Len(Listen(ready, f)) :
               Listen(ready, f)[i] = f \/ \E j \in 1..Len(ready) : ready[j] = Listen(ready, f)[i]
      BY <3>2, ListenFacts
    <3>4. ready' = Listen(ready, f)
      BY <2>1, <3>1 DEF Listen, Listed
    <3>5. \A i \in 1..Len(ready') : ready'[i] \notin FreeFds'
      BY <2>2, <3>3, <3>4 DEF ReadyInv
    <3> QED
      BY <3>3, <3>4, <3>5, Zenon DEF ReadyInv, Distinct, Pollable
  <2>4. EventsMatch'
    BY <1>1, <1>4, <1>6, <2>2 DEF BatchInv, EventsMatch
  <2>5. BatchInv'
    BY <1>1, <1>4, <2>2, <2>4 DEF BatchInv, Event, Pollable
  <2> QED
    BY <1>1, <1>3, <2>3, <2>5, Zenon DEF RestTypes
<1>7. \/ UNCHANGED <<ready, table>>
      \/ \E c \in backlog, f \in Fds : f \in FreeFds /\ AcceptRegistered(c, f)
  BY Zenon DEF AcceptOne, AcceptAborted, AcceptDone, AcceptUnregistered, Lowest, fdVars
<1> QED
  BY <1>5, <1>6, <1>7

\* The sweep and the end of run() close connections while no event is left.
LEMMA CloseEvents ==
  ASSUME IInv, EventInv, EndBatch \/ CloseAll
  PROVE  EventInv'
<1> USE DEF IInv, EventInv
<1>1. UNCHANGED <<acted, stops, tries, batch>> /\ batch = <<>>
  BY DEF EndBatch, CloseAll, clientVars, BatchInv
<1>2. PICK F \in SUBSET Fds : /\ ready' = Without(ready, F)
                              /\ table' = [f \in Fds |-> IF f \in F THEN "free" ELSE table[f]]
  <2>1. CASE EndBatch
    <3>1. PICK F \in SUBSET Fds : F = {f \in conns : SweepDue /\ Expired(table[f])}
      BY ZenonT(40) DEF conns
    <3> QED
      BY <2>1, <3>1, Zenon DEF EndBatch, Forget
  <2>2. CASE CloseAll
    <3>1. PICK F \in SUBSET Fds : F = conns
      BY ZenonT(40) DEF conns
    <3> QED
      BY <2>2, <3>1, Zenon DEF CloseAll, Forget
  <2> QED
    BY <2>1, <2>2
<1>3. ReadyInv'
  BY <1>2, ClosedNotReady
<1>4. BatchInv'
  BY <1>1 DEF BatchInv, EventsMatch
<1> QED
  BY <1>1, <1>3, <1>4, Zenon DEF RestTypes

\* The loop begins with nothing ready and no event.
LEMMA InitEvents == Init => EventInv
<1> SUFFICES ASSUME Init PROVE EventInv
  OBVIOUS
<1>1. ReadyInv /\ BatchInv
  BY DEF Init, ReadyInv, BatchInv, EventsMatch, Distinct
<1>2. RestTypes
  <2>1. acted = {} /\ stops = FALSE /\ tries = 0 /\ 0 \in 0..AcceptBatch
    BY ConstantsAssumption DEF Init
  <2> QED
    BY <2>1, Zenon DEF RestTypes
<1> QED
  BY <1>1, <1>2 DEF EventInv

\* Every step keeps the invariant of the ready list and the batch.
LEMMA StepEvents == IInv /\ EventInv /\ [Next]_vars => EventInv'
<1> SUFFICES ASSUME IInv, EventInv, [Next]_vars PROVE EventInv'
  OBVIOUS
<1>1. CASE UNCHANGED vars
  <2>1. UNCHANGED <<table, ready, batch, acted, stops, tries, pc, draining>>
    BY <1>1 DEF vars, fdVars, clientVars
  <2>2. FreeFds' = FreeFds /\ conns' = conns
    BY <2>1 DEF FreeFds, conns
  <2>3. ReadyInv'
    BY <2>1, <2>2, ZenonT(40) DEF EventInv, ReadyInv, Distinct, Pollable
  <2>4. BatchInv'
    BY <2>1, <2>2, ZenonT(40) DEF EventInv, BatchInv, EventsMatch, Event, Pollable
  <2> QED
    BY <2>1, <2>3, <2>4, Zenon DEF EventInv, RestTypes
<1> QED
  BY <1>1, OutsideEvents, EpollWaitEvents, TailEvents, HandleWakeEvents, DriveEvents, AcceptEvents,
     CloseEvents
     DEF Next, Loop

\* For any number of clients, descriptors and events per batch, an event is handled for
\* the connection it was reported for, whatever is closed and accepted before its turn.
THEOREM EventsAreNotMisdelivered == Spec => []EventsMatch
<1>1. EventInv => EventsMatch
  BY DEF EventInv, BatchInv
<1> QED
  BY <1>1, Invariant, InitEvents, StepEvents, PTL DEF Spec

\* The state of the event loop is well typed: no connection has two descriptors, none
\* is in the accept queue and open, and the listener's descriptor is not a connection's.
THEOREM LoopIsTyped == Spec => []TypeOK
<1>1. IInv /\ EventInv => TypeOK
  BY DEF IInv, EventInv, ReadyInv, BatchInv, RestTypes, Types, TypeOK
<1> QED
  BY <1>1, Invariant, InitEvents, StepEvents, PTL DEF Spec

=============================================================================
