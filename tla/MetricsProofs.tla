---------------------------- MODULE MetricsProofs ----------------------------
(***************************************************************************)
(* The counters and the page that a scrape renders, for any number of      *)
(* workers and buckets, all latencies and all interleavings of bumps and   *)
(* loads.                                                                  *)
(***************************************************************************)
EXTENDS ServerProofs

\* The cumulative counts grow with the counters.
LEMMA CumulativeGrows ==
  ASSUME NEW m \in [Writers -> [Counters -> Nat]], NEW k \in [Writers -> [Counters -> Nat]],
         NEW b \in 0..(Buckets - 1), \A w \in Writers, c \in Counters : m[w][c] <= k[w][c]
  PROVE  Cumulative(m, b) <= Cumulative(k, b)
<1>1. ASSUME NEW i \in 0..b PROVE Total(m, <<"bucket", i>>) <= Total(k, <<"bucket", i>>)
  <2>1. <<"bucket", i>> \in Counters
    BY BucketCounter
  <2>2. PICK f, g : f = [w \in Writers |-> m[w][<<"bucket", i>>]] /\ g = [w \in Writers |-> k[w][<<"bucket", i>>]]
    BY Zenon
  <2>3. f \in [Writers -> Nat] /\ g \in [Writers -> Nat] /\ \A w \in Writers : f[w] <= g[w]
    BY <2>1, <2>2, Zenon
  <2>4. SumFunction(f) <= SumFunction(g)
    BY <2>3, MetricsAssumption, SumMono
  <2> QED
    BY <2>2, <2>4 DEF Total
<1>2. PICK f, g : f = [i \in 0..b |-> Total(m, <<"bucket", i>>)] /\ g = [i \in 0..b |-> Total(k, <<"bucket", i>>)]
  BY Zenon
<1>3. f \in [0..b -> Nat] /\ g \in [0..b -> Nat]
  BY <1>2, CumulativeFacts, Zenon
<1>4. \A i \in 0..b : f[i] <= g[i]
  BY <1>1, <1>2, Zenon
<1>5. SumFunction(f) <= SumFunction(g)
  <2>1. PICK S : S = 0..b /\ IsFiniteSet(S)
    BY FS_Interval
  <2>2. f \in [S -> Nat] /\ g \in [S -> Nat] /\ \A i \in S : f[i] <= g[i]
    BY <1>3, <1>4, <2>1
  <2> QED
    BY <2>1, <2>2, SumMono, Zenon
<1> QED
  BY <1>2, <1>5 DEF Cumulative

\* k is m with one more sample of w in bucket x.
OneSample(m, k, w, x) ==
  \A v \in Writers, i \in 0..(Buckets - 1) :
    k[v][<<"bucket", i>>] =
      IF v = w /\ i = x THEN m[v][<<"bucket", i>>] + 1 ELSE m[v][<<"bucket", i>>]

\* A bump of bucket x adds one to every cumulative count from x on.
LEMMA CumulativeStep ==
  ASSUME NEW m \in [Writers -> [Counters -> Nat]], NEW k \in [Writers -> [Counters -> Nat]],
         NEW w \in Writers, NEW x \in 0..(Buckets - 1), NEW b \in 0..(Buckets - 1),
         OneSample(m, k, w, x)
  PROVE  /\ x <= b => Cumulative(k, b) = Cumulative(m, b) + 1
         /\ ~(x <= b) => Cumulative(k, b) = Cumulative(m, b)
<1>1. ASSUME NEW i \in 0..b
      PROVE  Total(k, <<"bucket", i>>) = IF i = x THEN Total(m, <<"bucket", i>>) + 1 ELSE Total(m, <<"bucket", i>>)
  <2>1. <<"bucket", i>> \in Counters /\ i \in 0..(Buckets - 1)
    BY BucketCounter
  <2>2. PICK f, g : f = [v \in Writers |-> m[v][<<"bucket", i>>]] /\ g = [v \in Writers |-> k[v][<<"bucket", i>>]]
    BY Zenon
  <2>3. f \in [Writers -> Nat] /\ g \in [Writers -> Nat]
    BY <2>1, <2>2, ZenonT(40)
  <2>4. CASE i = x
    <3>1. OneMore(f, g, Writers, w)
      BY <2>1, <2>2, <2>4 DEF OneMore, OneSample
    <3>2. SumFunction(g) = SumFunction(f) + 1
      BY <2>3, <3>1, MetricsAssumption, SumStep, Zenon
    <3> QED
      BY <2>2, <2>4, <3>2 DEF Total
  <2>5. CASE i # x
    <3>1. \A v \in Writers : k[v][<<"bucket", i>>] = m[v][<<"bucket", i>>]
      BY <2>1, <2>5, Zenon DEF OneSample
    <3>2. g = f
      BY <2>2, <3>1, Zenon
    <3> QED
      BY <2>2, <2>5, <3>2, Zenon DEF Total
  <2> QED
    BY <2>4, <2>5
<1>2. PICK f, g : f = [i \in 0..b |-> Total(m, <<"bucket", i>>)] /\ g = [i \in 0..b |-> Total(k, <<"bucket", i>>)]
  BY Zenon
<1>3. PICK S : S = 0..b /\ IsFiniteSet(S)
  BY FS_Interval
<1>4. f \in [S -> Nat] /\ g \in [S -> Nat]
  BY <1>2, <1>3, CumulativeFacts, Zenon
<1>5. \A i \in S : g[i] = IF i = x THEN f[i] + 1 ELSE f[i]
  BY <1>1, <1>2, <1>3, Zenon
<1>6. CASE x <= b
  <2>1. x \in S
    BY <1>3, <1>6
  <2>2. OneMore(f, g, S, x)
    BY <1>5, Zenon DEF OneMore
  <2>3. SumFunction(g) = SumFunction(f) + 1
    BY <1>3, <1>4, <2>1, <2>2, SumStep, Zenon
  <2> QED
    BY <1>2, <1>6, <2>3 DEF Cumulative
<1>7. CASE ~(x <= b)
  <2>1. \A i \in S : g[i] = f[i]
    BY <1>3, <1>5, <1>7
  <2>2. g = f
    BY <1>4, <2>1
  <2> QED
    BY <1>2, <1>7, <2>2, Zenon DEF Cumulative
<1> QED
  BY <1>6, <1>7

\* g counts one more of w than f.
LEMMA CountStep ==
  ASSUME NEW f, NEW g, NEW S, IsFiniteSet(S), f \in [S -> Nat], g = [v \in S |-> g[v]],
         NEW w \in S, OneMore(f, g, S, w)
  PROVE  SumFunction(g) = SumFunction(f) + 1
<1>1. ASSUME NEW v \in S PROVE g[v] \in Nat
  <2>1. f[v] \in Nat /\ (g[v] = f[v] \/ g[v] = f[v] + 1)
    BY Zenon DEF OneMore
  <2> QED
    BY <2>1
<1>2. PICK h \in [S -> Nat] : h = g
  BY <1>1, Zenon
<1>3. PICK e \in [S -> Nat] : e = f
  BY Zenon
<1>4. OneMore(e, h, S, w)
  BY <1>2, <1>3, Zenon
<1>5. SumFunction(h) = SumFunction(e) + 1
  BY <1>4, SumStep, Zenon
<1> QED
  BY <1>2, <1>3, <1>5, Zenon

\* A count of the responses of each worker is a natural number.
LEMMA AtMostFacts ==
  ASSUME samples \in [Writers -> Seq(Nat)], NEW v \in Writers, NEW us \in Nat
  PROVE  /\ IsFiniteSet(AtMost(v, us)) /\ Cardinality(AtMost(v, us)) \in Nat
         /\ AtMost(v, us) \in SUBSET (1..Len(samples[v])) /\ Len(samples[v]) \in Nat
<1>1. AtMost(v, us) \in SUBSET (1..Len(samples[v])) /\ Len(samples[v]) \in Nat
  BY DEF AtMost
<1>2. IsFiniteSet(1..Len(samples[v]))
  BY <1>1, FS_Interval
<1> QED
  BY <1>1, <1>2, FS_Subset, FS_CardinalityType, Zenon

\* One more response of w.
LEMMA AtMostStep ==
  ASSUME NEW w \in Writers, NEW took \in Nat, samples \in [Writers -> Seq(Nat)],
         samples' = [samples EXCEPT ![w] = Append(@, took)], NEW us \in Nat
  PROVE  SumFunction([v \in Writers |-> Cardinality(AtMost(v, us))])'
           = IF took <= us * Tick
             THEN SumFunction([v \in Writers |-> Cardinality(AtMost(v, us))]) + 1
             ELSE SumFunction([v \in Writers |-> Cardinality(AtMost(v, us))])
<1>1. \A v \in Writers : v # w => AtMost(v, us)' = AtMost(v, us)
  BY DEF AtMost
<1>2. PICK n \in Nat : n = Len(samples[w])
  OBVIOUS
<1>3. /\ DOMAIN samples[w] = 1..n /\ DOMAIN samples'[w] = 1..(n + 1)
      /\ samples'[w][n + 1] = took /\ \A i \in 1..n : samples'[w][i] = samples[w][i]
  BY <1>2
<1>4. 1..(n + 1) = (1..n) \cup {n + 1} /\ n + 1 \notin 1..n
  OBVIOUS
<1>5. CASE took <= us * Tick
  <2>1. AtMost(w, us)' = AtMost(w, us) \cup {n + 1} /\ n + 1 \notin AtMost(w, us)
    BY <1>3, <1>4, <1>5 DEF AtMost
  <2>2. Cardinality(AtMost(w, us))' = Cardinality(AtMost(w, us)) + 1
    BY <2>1, AtMostFacts, FS_AddElement, Zenon
  <2>3. PICK f, g : /\ f = [v \in Writers |-> Cardinality(AtMost(v, us))]
                    /\ g = [v \in Writers |-> Cardinality(AtMost(v, us))]'
    BY Zenon
  <2>4. f \in [Writers -> Nat] /\ g = [v \in Writers |-> g[v]]
    BY <2>3, AtMostFacts, Zenon
  <2>5. OneMore(f, g, Writers, w)
    BY <1>1, <2>2, <2>3 DEF OneMore
  <2>6. SumFunction(g) = SumFunction(f) + 1
    BY <2>4, <2>5, MetricsAssumption, CountStep, Zenon
  <2> QED
    BY <1>5, <2>3, <2>6
<1>6. CASE ~(took <= us * Tick)
  <2>1. AtMost(w, us)' = AtMost(w, us)
    BY <1>3, <1>4, <1>6 DEF AtMost
  <2>2. \A v \in Writers : AtMost(v, us)' = AtMost(v, us)
    BY <1>1, <2>1
  <2>3. [v \in Writers |-> Cardinality(AtMost(v, us))]' = [v \in Writers |-> Cardinality(AtMost(v, us))]
    BY <2>2
  <2> QED
    BY <1>6, <2>3
<1> QED
  BY <1>5, <1>6

\* One more response of w, however long it took.
LEMMA LengthStep ==
  ASSUME NEW w \in Writers, NEW took \in Nat, samples \in [Writers -> Seq(Nat)],
         samples' = [samples EXCEPT ![w] = Append(@, took)]
  PROVE  SumFunction([v \in Writers |-> Len(samples[v])])' = SumFunction([v \in Writers |-> Len(samples[v])]) + 1
<1>1. PICK f, g : /\ f = [v \in Writers |-> Len(samples[v])]
                  /\ g = [v \in Writers |-> Len(samples[v])]'
  BY Zenon
<1>2. f \in [Writers -> Nat] /\ g = [v \in Writers |-> g[v]]
  BY <1>1
<1>3. OneMore(f, g, Writers, w)
  BY <1>1 DEF OneMore
<1>4. SumFunction(g) = SumFunction(f) + 1
  BY <1>2, <1>3, MetricsAssumption, CountStep, Zenon
<1> QED
  BY <1>1, <1>4

\* us is what the clock makes of a response that took that long.
Measured(us, took) == us * Tick <= took + (Tick - 1) /\ took < us * Tick + Tick

\* Cutting both clock values off errs by less than a microsecond.
LEMMA LatencyFacts ==
  ASSUME NEW phase \in 0..(Tick - 1), NEW took \in Durations
  PROVE  /\ took \in Nat /\ Latency(phase, took) \in 0..MaxLatency
         /\ Measured(Latency(phase, took), took)
<1>1. PICK t \in Nat, n \in Nat : t = Tick /\ t > 0 /\ n = took /\ phase \in 0..(t - 1)
  <2>1. Tick \in Nat /\ Tick > 0 /\ took \in Nat
    BY MetricsAssumption
  <2> QED
    BY <2>1, Zenon
<1>2. PICK us : us = (phase + n) \div t
  OBVIOUS
<1>3. us \in Nat /\ us * t <= phase + n /\ phase + n < us * t + t
  BY <1>1, <1>2
<1>4. PICK d \in Nat : d = n \div t /\ n < d * t + t
  BY <1>1
<1>5. us <= d + 1
  <2>1. us * t < (d + 2) * t
    BY <1>1, <1>3, <1>4
  <2> QED
    BY <1>1, <1>3, <1>4, <2>1
<1>6. d < MaxLatency /\ MaxLatency \in Nat
  BY <1>1, <1>4, MetricsAssumption, LimitFacts
<1>7. us = Latency(phase, took) /\ us \in 0..MaxLatency
  BY <1>1, <1>2, <1>3, <1>4, <1>5, <1>6 DEF Latency
<1>8. Measured(us, took)
  BY <1>1, <1>3 DEF Measured
<1> QED
  BY <1>1, <1>7, <1>8, Zenon

\* A response that is counted below a bound took at most that long, and one that took at
\* least a microsecond less is counted.
LEMMA MeasuredBound ==
  ASSUME NEW us \in Nat, NEW took \in Nat, Measured(us, took), NEW le \in Nat \ {0}
  PROVE  /\ us < le => took <= le * Tick
         /\ took <= (le - 1) * Tick => us < le
<1>1. PICK t \in Nat : t = Tick /\ t > 0
  BY MetricsAssumption
<1>2. us * t <= took + (t - 1) /\ took < us * t + t
  BY <1>1 DEF Measured
<1>3. ASSUME us < le PROVE took <= le * t
  <2>1. PICK d \in Nat : le = us + 1 + d
    <3>1. le - (us + 1) \in Nat /\ le = us + 1 + (le - (us + 1))
      BY <1>3
    <3> QED
      BY <3>1
  <2>2. le * t = us * t + t + d * t /\ d * t \in Nat /\ us * t \in Nat
    BY <2>1
  <2> QED
    BY <1>2, <2>2
<1>4. ASSUME took <= (le - 1) * t, ~(us < le) PROVE FALSE
  <2>1. PICK d \in Nat : us = le + d
    <3>1. us - le \in Nat /\ us = le + (us - le)
      BY <1>4
    <3> QED
      BY <3>1
  <2>2. us * t = (le - 1) * t + t + d * t /\ d * t \in Nat /\ (le - 1) * t \in Nat
    BY <2>1
  <2> QED
    BY <1>2, <1>4, <2>2
<1> QED
  BY <1>1, <1>3, <1>4, Zenon

\* What a scrape loads are counters.
LEMMA LoadFacts ==
  /\ \A l \in Loads : Loaded(l) \in Counters
  /\ \A c \in Counters : c \in Loads /\ Loaded(c) = c
  /\ Gauge \in Loads /\ Loaded(Gauge) = Opened
<1>1. Gauge \notin Counters
  BY DEF Gauge, Counters
<1>2. Opened \in Counters
  BY CounterFacts
<1> QED
  BY <1>1, <1>2 DEF Loads, Loaded, Opened

\* A bump that a worker still has to do.
Bumps == [counter : Counters, n : 0..MaxLatency, took : Nat]

\* The bump of the bucket that a response belongs into.
Sampled(e) ==
  e.n = 1 /\ \E us \in Nat : e.counter = <<"bucket", BucketOf(us)>> /\ Measured(us, e.took)

\* The types of the counters and of what a scrape has loaded.
MetricsTypes ==
  /\ val \in [Writers -> [Counters -> Nat]] /\ before \in [Writers -> [Counters -> Nat]]
  /\ todo \in [Writers -> Seq(Bumps)] /\ reg \in [Writers -> Int]
  /\ events \in 0..MaxEvents /\ samples \in [Writers -> Seq(Nat)]
  /\ page \in [Writers -> [Loads -> Int]]

\* What is still to be bumped: different counters, with room for it; a connection that is
\* closed was accepted before; a bucket is bumped for a response that belongs into it.
TodoInv(w, t) ==
  /\ \A i, j \in 1..Len(t) : t[i].counter = t[j].counter => i = j
  /\ \A i \in 1..Len(t) :
       /\ truth[w][t[i].counter] + MaxLatency <= Limit(events)
       /\ t[i].counter = Ended => t[i].n = 1 /\ truth[w][Ended] < truth[w][Opened]
       /\ t[i].counter[1] = "bucket" => Sampled(t[i])

\* Every counter is what it should be; the bump at work has loaded the current value; there is
\* room for what is to come; no more connections are closed than were accepted.
WriterInv ==
  /\ val = truth
  /\ \A w \in Writers :
       /\ TodoInv(w, todo[w])
       /\ reg[w] # -1 => todo[w] # <<>> /\ reg[w] = val[w][Head(todo[w]).counter]
       /\ \A c \in Counters : truth[w][c] <= Limit(events)
       /\ truth[w][Ended] <= truth[w][Opened]

\* What a scrape has loaded lies between what was there when it began and what is there now.
ScrapeInv ==
  scraper # 0 =>
    \A w \in Writers :
      /\ before[w][Ended] <= before[w][Opened]
      /\ \A c \in Counters : before[w][c] <= truth[w][c]
      /\ \A l \in Loads : page[w][l] # -1 => page[w][l] \in before[w][Loaded(l)]..truth[w][Loaded(l)]

MetricsInv == MetricsTypes /\ WriterInv /\ ScrapeInv

\* Fresh counters satisfy the invariant.
LEMMA InitMetrics == MetricsInit => MetricsInv
<1> SUFFICES ASSUME MetricsInit PROVE MetricsInv
  OBVIOUS
<1>1. MetricsTypes
  BY MetricsAssumption DEF MetricsInit, MetricsTypes, Zero
<1>2. WriterInv
  <2>1. ASSUME NEW w \in Writers PROVE todo[w] = <<>> /\ reg[w] = -1 /\ events = 0
                                      /\ \A c \in Counters : truth[w][c] = 0
    BY DEF MetricsInit, Zero
  <2>2. Limit(0) \in Nat
    BY LimitFacts
  <2> QED
    BY <2>1, <2>2, CounterFacts DEF MetricsInit, WriterInv, TodoInv
<1>3. ScrapeInv
  BY DEF MetricsInit, ScrapeInv
<1> QED
  BY <1>1, <1>2, <1>3 DEF MetricsInv

\* A worker starts an event.
LEMMA BeginStep ==
  ASSUME MetricsInv, NEW w \in Writers, NEW t \in Seq(Bumps), Begin(w, t),
         \A i, j \in 1..Len(t) : t[i].counter = t[j].counter => i = j,
         \A i \in 1..Len(t) :
           /\ t[i].counter = Ended => t[i].n = 1 /\ truth[w][Ended] < truth[w][Opened]
           /\ t[i].counter[1] = "bucket" => Sampled(t[i])
  PROVE  MetricsInv'
<1>inv. MetricsTypes /\ WriterInv /\ ScrapeInv
  BY DEF MetricsInv
<1>1. /\ todo' = [todo EXCEPT ![w] = t] /\ events' = events + 1
      /\ todo[w] = <<>> /\ events + 1 \in 0..MaxEvents
      /\ val' = val /\ reg' = reg /\ truth' = truth /\ samples' = samples /\ scraper' = scraper
      /\ before' = before /\ page' = page
  <2>1. events \in 0..MaxEvents
    BY <1>inv DEF MetricsTypes
  <2> QED
    BY <2>1, MetricsAssumption DEF Begin
<1>2. MetricsTypes'
  BY <1>inv, <1>1 DEF MetricsTypes
<1>3. /\ Limit(events) \in Nat /\ Limit(events + 1) = Limit(events) + MaxLatency
      /\ MaxLatency \in Nat
  <2>1. events \in Nat
    BY <1>inv, MetricsAssumption DEF MetricsTypes
  <2> QED
    BY <2>1, LimitFacts, Zenon
<1>4. \A i \in 1..Len(t) : t[i].counter \in Counters
  <2>1. \A i \in 1..Len(t) : t[i] \in Bumps
    OBVIOUS
  <2> QED
    BY <2>1 DEF Bumps
<1>5. \A v \in Writers, c \in Counters : truth[v][c] \in Nat /\ truth[v][c] <= Limit(events)
  BY <1>inv DEF WriterInv, MetricsTypes
<1>6. WriterInv'
  <2>1. val' = truth'
    BY <1>inv, <1>1 DEF WriterInv
  <2>2. ASSUME NEW v \in Writers, v # w
        PROVE  /\ TodoInv(v, todo[v])'
               /\ (reg[v] # -1 => todo[v] # <<>> /\ reg[v] = val[v][Head(todo[v]).counter])'
               /\ (\A c \in Counters : truth[v][c] <= Limit(events))'
               /\ (truth[v][Ended] <= truth[v][Opened])'
    <3>1. todo'[v] = todo[v]
      BY <1>inv, <1>1, <2>2 DEF MetricsTypes
    <3>2. TodoInv(v, todo[v]) /\ todo[v] \in Seq(Bumps)
      BY <1>inv DEF WriterInv, MetricsTypes
    <3>3. ASSUME NEW i \in 1..Len(todo[v])
          PROVE  truth[v][todo[v][i].counter] + MaxLatency <= Limit(events')
      <4>1. todo[v][i] \in Bumps
        BY <3>2
      <4>2. PICK c \in Counters : c = todo[v][i].counter
        BY <4>1 DEF Bumps
      <4>3. truth[v][c] + MaxLatency <= Limit(events)
        BY <3>2, <4>2, Zenon DEF TodoInv
      <4>4. PICK x \in Nat, y \in Nat, z \in Nat : x = truth[v][c] /\ y = Limit(events) /\ z = MaxLatency
        BY <1>3, <1>5, Zenon
      <4>5. x + z <= y /\ Limit(events') = y + z
        BY <1>1, <1>3, <4>3, <4>4, Zenon
      <4>6. x + z <= y + z
        BY <4>5
      <4> QED
        BY <4>2, <4>4, <4>5, <4>6, Zenon
    <3>4. TodoInv(v, todo[v])'
      <4>1. PICK t0 : t0 = todo[v] /\ t0 = todo'[v]
        BY <3>1, Zenon
      <4>2. \A i \in 1..Len(t0) : truth'[v][t0[i].counter] + MaxLatency <= Limit(events')
        BY <1>1, <3>3, <4>1, Zenon
      <4>3. /\ \A i, j \in 1..Len(t0) : t0[i].counter = t0[j].counter => i = j
            /\ \A i \in 1..Len(t0) :
                 /\ t0[i].counter = Ended => t0[i].n = 1 /\ truth'[v][Ended] < truth'[v][Opened]
                 /\ t0[i].counter[1] = "bucket" => Sampled(t0[i])
        BY <1>1, <3>2, <4>1, Zenon DEF TodoInv
      <4> QED
        BY <4>1, <4>2, <4>3, Zenon DEF TodoInv
    <3>5. (\A c \in Counters : truth[v][c] <= Limit(events))'
      BY <1>1, <1>3, <1>5
    <3> QED
      BY <1>inv, <1>1, <2>2, <3>1, <3>4, <3>5, Zenon DEF WriterInv
  <2>3. todo'[w] = t /\ events' = events + 1
    BY <1>inv, <1>1 DEF MetricsTypes
  <2>4. TodoInv(w, todo[w])'
    BY <1>1, <1>3, <1>4, <1>5, <2>3 DEF TodoInv
  <2>5. reg'[w] = -1
    BY <1>inv, <1>1 DEF WriterInv
  <2>6. (\A c \in Counters : truth[w][c] <= Limit(events))' /\ (truth[w][Ended] <= truth[w][Opened])'
    BY <1>inv, <1>1, <1>3, <1>5, <2>3 DEF WriterInv
  <2> QED
    BY <1>inv, <2>1, <2>2, <2>4, <2>5, <2>6 DEF WriterInv
<1>7. ScrapeInv'
  BY <1>inv, <1>1 DEF ScrapeInv
<1> QED
  BY <1>2, <1>6, <1>7 DEF MetricsInv

\* A worker accepts, closes, or records a response.
LEMMA EventStep ==
  ASSUME MetricsInv, NEW w \in Writers, Event(w)
  PROVE  MetricsInv'
<1>0. 1 \in 0..MaxLatency
  BY LimitFacts
<1>1. CASE Begin(w, Accepting)
  <2>1. PICK t : t = Accepting
    OBVIOUS
  <2>2. Len(t) = 1 /\ t[1].counter = Opened /\ t[1].n = 1
    BY <2>1 DEF Accepting, Add, Opened
  <2>3. t \in Seq(Bumps)
    BY <1>0, <2>1, CounterFacts DEF Accepting, Add, Bumps, Opened
  <2>4. Begin(w, t)
    BY <1>1, <2>1
  <2>5. Opened # Ended /\ Opened[1] # "bucket"
    BY DEF Opened, Ended
  <2> QED
    BY <2>2, <2>3, <2>4, <2>5, BeginStep
<1>2. CASE truth[w][<<"closed", 0>>] < truth[w][<<"accepted", 0>>] /\ Begin(w, Closing)
  <2>1. PICK t : t = Closing
    OBVIOUS
  <2>2. Len(t) = 1 /\ t[1].counter = Ended /\ t[1].n = 1
    BY <2>1 DEF Closing, Add, Ended
  <2>3. t \in Seq(Bumps)
    BY <1>0, <2>1, CounterFacts DEF Closing, Add, Bumps, Ended
  <2>4. Begin(w, t) /\ truth[w][Ended] < truth[w][Opened]
    BY <1>2, <2>1 DEF Opened, Ended
  <2>5. Ended[1] # "bucket"
    BY DEF Ended
  <2> QED
    BY <2>2, <2>3, <2>4, <2>5, BeginStep
<1>3. ASSUME NEW phase \in 0..(Tick - 1), NEW took \in Durations,
             Begin(w, Recording(Latency(phase, took), took))
      PROVE  MetricsInv'
  <2>us. PICK us : us = Latency(phase, took)
    BY Zenon
  <2>0. us \in 0..MaxLatency /\ us = Latency(phase, took) /\ Measured(us, took) /\ took \in Nat
    BY <1>3, <2>us, LatencyFacts, Zenon
  <2>a. us \in Nat /\ BucketOf(us) \in 0..(Buckets - 1)
    BY <2>0, LimitFacts, BucketFacts
  <2>1. PICK t : t = Recording(us, took)
    OBVIOUS
  <2>2. /\ Len(t) = 3 /\ t[1].counter = <<"requests", 0>> /\ t[2].counter = <<"bucket", BucketOf(us)>>
        /\ t[2].n = 1 /\ t[2].took = took /\ t[3].counter = <<"sum", 0>> /\ t[3].n = us
    BY <2>1 DEF Recording, Add
  <2>3. t \in Seq(Bumps)
    <3>1. /\ Add(<<"requests", 0>>, 1, took) \in Bumps /\ Add(<<"bucket", BucketOf(us)>>, 1, took) \in Bumps
          /\ Add(<<"sum", 0>>, us, took) \in Bumps
      BY <1>0, <2>0, <2>a, CounterFacts DEF Add, Bumps
    <3> QED
      BY <2>1, <3>1 DEF Recording
  <2>4. Begin(w, t)
    BY <1>3, <2>0, <2>1, Zenon
  <2>5. \A i, j \in 1..Len(t) : t[i].counter = t[j].counter => i = j
    BY <2>2
  <2>6. \A i \in 1..Len(t) : t[i].counter # Ended /\ (t[i].counter[1] = "bucket" => i = 2)
    BY <2>2 DEF Ended
  <2>7. Sampled(t[2])
    BY <2>0, <2>a, <2>2, Zenon DEF Sampled
  <2>8. \A i \in 1..Len(t) : t[i].counter[1] = "bucket" => Sampled(t[i])
    BY <2>6, <2>7, Zenon
  <2> QED
    BY <2>3, <2>4, <2>5, <2>6, <2>8, BeginStep
<1> QED
  BY <1>1, <1>2, <1>3 DEF Event

\* A bump loads.
LEMMA LoadStep ==
  ASSUME MetricsInv, NEW w \in Writers, BumpLoad(w)
  PROVE  MetricsInv'
<1>inv. MetricsTypes /\ WriterInv /\ ScrapeInv
  BY DEF MetricsInv
<1>1. /\ todo[w] # <<>> /\ reg' = [reg EXCEPT ![w] = val[w][Head(todo[w]).counter]]
      /\ todo' = todo /\ events' = events /\ val' = val /\ truth' = truth /\ samples' = samples
      /\ scraper' = scraper /\ before' = before /\ page' = page
  BY DEF BumpLoad, Block
<1>2. MetricsTypes'
  <2>1. Head(todo[w]) \in Bumps
    BY <1>inv, <1>1 DEF MetricsTypes
  <2>2. val[w][Head(todo[w]).counter] \in Int
    <3>1. PICK c \in Counters : c = Head(todo[w]).counter
      BY <2>1 DEF Bumps
    <3>2. val[w][c] \in Nat
      <4>1. val \in [Writers -> [Counters -> Nat]]
        BY <1>inv, Zenon DEF MetricsTypes
      <4> QED
        BY <4>1, Zenon
    <3> QED
      BY <3>1, <3>2
  <2> QED
    BY <1>inv, <1>1, <2>2 DEF MetricsTypes
<1>3. WriterInv'
  <2>1. \A v \in Writers : reg'[v] = IF v = w THEN val[w][Head(todo[w]).counter] ELSE reg[v]
    BY <1>inv, <1>1 DEF MetricsTypes
  <2> QED
    BY <1>inv, <1>1, <2>1, ZenonT(40) DEF WriterInv, TodoInv
<1>4. ScrapeInv'
  BY <1>inv, <1>1 DEF ScrapeInv
<1> QED
  BY <1>2, <1>3, <1>4 DEF MetricsInv

\* What a store of n more in c does: the counter is as much more as it should be, for the
\* sum fits in.
Stored(w, c, n) ==
  /\ todo[w] # <<>> /\ c = todo[w][1].counter /\ n = todo[w][1].n
  /\ val' \in [Writers -> [Counters -> Nat]] /\ truth' = val'
  /\ \A v \in Writers, d \in Counters :
       val'[v][d] = IF v = w /\ d = c THEN val[v][d] + n ELSE val[v][d]
  /\ samples' = [samples EXCEPT ![w] = IF c[1] = "bucket" THEN Append(@, todo[w][1].took) ELSE @]
  /\ truth[w][c] + n <= Limit(events)

\* A store is one.
LEMMA StoreFacts ==
  ASSUME MetricsInv, NEW w \in Writers, BumpStore(w)
  PROVE  \E c \in Counters, n \in 0..MaxLatency : Stored(w, c, n)
<1>1. todo[w] \in Seq(Bumps) /\ todo[w] # <<>> /\ reg[w] # -1
  BY DEF MetricsInv, MetricsTypes, BumpStore
<1>2. Head(todo[w]) = todo[w][1] /\ todo[w][1] \in Bumps /\ 1 \in 1..Len(todo[w])
  BY <1>1
<1>3. PICK c \in Counters, n \in 0..MaxLatency : c = todo[w][1].counter /\ n = todo[w][1].n
  BY <1>2 DEF Bumps
<1>4. val = truth /\ TodoInv(w, todo[w]) /\ reg[w] = val[w][c]
  BY <1>1, <1>2, <1>3, Zenon DEF MetricsInv, WriterInv
<1>5. val[w][c] \in Nat /\ MaxLatency \in Nat /\ events \in 0..MaxEvents
  BY LimitFacts DEF MetricsInv, MetricsTypes
<1>6. truth[w][c] + MaxLatency <= Limit(events)
  BY <1>2, <1>3, <1>4, Zenon DEF TodoInv
<1>7. Limit(events) \in Nat /\ Limit(events) < Word
  <2>1. events \in Nat
    BY <1>5, MetricsAssumption
  <2> QED
    BY <1>5, <2>1, LimitFacts, Zenon
<1>8. val[w][c] + n < Word /\ truth[w][c] + n <= Limit(events) /\ n \in Nat
  BY <1>4, <1>5, <1>6, <1>7, MetricsAssumption
<1>9. (reg[w] + n) % Word = val[w][c] + n /\ val[w][c] + n \in Nat
  <2>1. PICK y \in Nat : y = val[w][c] + n
    BY <1>5, <1>8
  <2>2. reg[w] + n = y /\ y < Word
    BY <1>4, <1>8, <2>1, Zenon
  <2>3. y % Word = y
    BY <2>2, MetricsAssumption
  <2> QED
    BY <2>1, <2>2, <2>3, Zenon
<1>10. /\ val' = [val EXCEPT ![w][c] = (reg[w] + n) % Word]
       /\ truth' = [truth EXCEPT ![w][c] = @ + n]
       /\ samples' = [samples EXCEPT ![w] = IF c[1] = "bucket" THEN Append(@, todo[w][1].took) ELSE @]
  BY <1>2, <1>3 DEF BumpStore, Block
<1>11. PICK x \in Nat : x = val[w][c] + n
  BY <1>9
<1>12. val' = [val EXCEPT ![w][c] = x] /\ truth' = val'
  BY <1>4, <1>9, <1>10, <1>11, Zenon
<1>13. val \in [Writers -> [Counters -> Nat]]
  BY DEF MetricsInv, MetricsTypes
<1>14. val' \in [Writers -> [Counters -> Nat]]
  BY <1>12, <1>13
<1>15. \A v \in Writers, d \in Counters :
         val'[v][d] = IF v = w /\ d = c THEN val[v][d] + n ELSE val[v][d]
  BY <1>11, <1>12, <1>13
<1>16. Stored(w, c, n)
  BY <1>1, <1>3, <1>8, <1>10, <1>12, <1>14, <1>15, Zenon DEF Stored
<1> QED
  BY <1>16, Zenon

\* A bump stores.
LEMMA StoreStep ==
  ASSUME MetricsInv, NEW w \in Writers, BumpStore(w)
  PROVE  MetricsInv'
<1>inv. MetricsTypes /\ WriterInv /\ ScrapeInv
  BY DEF MetricsInv
<1>0. PICK c \in Counters, n \in 0..MaxLatency : Stored(w, c, n)
  BY StoreFacts, Zenon
<1>1. /\ todo[w] # <<>> /\ c = todo[w][1].counter /\ n = todo[w][1].n
      /\ truth[w][c] + n <= Limit(events) /\ truth' = val'
  BY <1>0, Zenon DEF Stored
<1>2. /\ todo' = [todo EXCEPT ![w] = Tail(@)] /\ reg' = [reg EXCEPT ![w] = -1]
      /\ events' = events /\ scraper' = scraper /\ before' = before /\ page' = page
  BY DEF BumpStore
<1>3. MaxLatency \in Nat /\ n \in Nat
  BY LimitFacts
<1>4. val = truth /\ \A v \in Writers, d \in Counters : truth[v][d] \in Nat
  BY <1>inv DEF WriterInv, MetricsTypes
<1>5. \A v \in Writers, d \in Counters :
        truth'[v][d] = IF v = w /\ d = c THEN truth[v][d] + n ELSE truth[v][d]
  BY <1>0, <1>4, Zenon DEF Stored
<1>51. \A v \in Writers, d \in Counters : truth'[v][d] \in Nat /\ truth'[v][d] >= truth[v][d]
  <2>1. ASSUME NEW v \in Writers, NEW d \in Counters
        PROVE  truth'[v][d] \in Nat /\ truth'[v][d] >= truth[v][d]
    <3>1. truth[v][d] \in Nat /\ truth'[v][d] = IF v = w /\ d = c THEN truth[v][d] + n ELSE truth[v][d]
      BY <1>4, <1>5, Zenon
    <3>2. PICK x \in Nat : x = truth[v][d]
      BY <3>1, Zenon
    <3>5. PICK y : y = truth'[v][d]
      BY Zenon
    <3>3. y = IF v = w /\ d = c THEN x + n ELSE x
      BY <3>1, <3>2, <3>5, Zenon
    <3>4. y \in Nat /\ y >= x
      BY <1>3, <3>3
    <3> QED
      BY <3>2, <3>4, <3>5, Zenon
  <2> QED
    BY <2>1, Zenon
<1>6. PICK t \in Seq(Bumps) : t = todo[w]
  BY <1>inv DEF MetricsTypes
<1>7. /\ Tail(t) \in Seq(Bumps) /\ Len(Tail(t)) = Len(t) - 1 /\ Len(t) \in Nat \ {0}
      /\ \A i \in 1..Len(Tail(t)) : i + 1 \in 1..Len(t) /\ Tail(t)[i] = t[i + 1]
  BY <1>1, <1>6
<1>8. TodoInv(w, t)
  BY <1>inv, <1>6 DEF WriterInv
<1>9. \A i \in 1..Len(t) : t[i] \in Bumps /\ t[i].counter \in Counters
  <2>1. \A i \in 1..Len(t) : t[i] \in Bumps
    OBVIOUS
  <2> QED
    BY <2>1 DEF Bumps
<1>10. MetricsTypes'
  <2>1. val' \in [Writers -> [Counters -> Nat]]
    BY <1>0, Zenon DEF Stored
  <2>0. samples' = [samples EXCEPT ![w] = IF c[1] = "bucket" THEN Append(@, todo[w][1].took) ELSE @]
    BY <1>0, Zenon DEF Stored
  <2>2. samples' \in [Writers -> Seq(Nat)]
    <3>1. CASE c[1] = "bucket"
      <4>1. t[1] \in Bumps
        BY <1>7
      <4>2. t[1].took \in Nat
        BY <4>1 DEF Bumps
      <4>3. Append(samples[w], t[1].took) \in Seq(Nat)
        BY <1>inv, <4>2 DEF MetricsTypes
      <4> QED
        BY <1>inv, <1>6, <2>0, <3>1, <4>3 DEF MetricsTypes
    <3>2. CASE c[1] # "bucket"
      BY <1>inv, <2>0, <3>2 DEF MetricsTypes
    <3> QED
      BY <3>1, <3>2
  <2>3. todo' \in [Writers -> Seq(Bumps)]
    BY <1>inv, <1>2, <1>6, <1>7 DEF MetricsTypes
  <2> QED
    BY <1>inv, <1>2, <2>1, <2>2, <2>3 DEF MetricsTypes
<1>11. \A v \in Writers : v # w => todo'[v] = todo[v] /\ reg'[v] = reg[v]
  BY <1>inv, <1>2 DEF MetricsTypes
<1>12. todo'[w] = Tail(t) /\ reg'[w] = -1
  BY <1>inv, <1>2, <1>6 DEF MetricsTypes
<1>13. ASSUME NEW v \in Writers, v # w PROVE val'[v] = val[v] /\ truth'[v] = truth[v]
  <2>1. val[v] \in [Counters -> Nat] /\ val'[v] \in [Counters -> Nat]
    BY <1>inv, <1>0, Zenon DEF MetricsTypes, Stored
  <2>2. \A d \in Counters : val'[v][d] = val[v][d]
    BY <1>1, <1>4, <1>5, <1>13, Zenon
  <2> QED
    BY <1>1, <1>4, <2>1, <2>2
<1>14. WriterInv'
  <2>1. ASSUME NEW v \in Writers, v # w
        PROVE  /\ TodoInv(v, todo[v])'
               /\ (reg[v] # -1 => todo[v] # <<>> /\ reg[v] = val[v][Head(todo[v]).counter])'
               /\ (\A d \in Counters : truth[v][d] <= Limit(events))'
               /\ (truth[v][Ended] <= truth[v][Opened])'
    <3>1. /\ todo'[v] = todo[v] /\ reg'[v] = reg[v] /\ val'[v] = val[v] /\ truth'[v] = truth[v]
          /\ events' = events
      BY <1>2, <1>11, <1>13, <2>1
    <3> QED
      BY <1>inv, <3>1 DEF WriterInv, TodoInv
  <2>2. TodoInv(w, todo[w])'
    <3>1. ASSUME NEW i \in 1..Len(Tail(t)) PROVE Tail(t)[i].counter \in Counters \ {c}
      <4>1. i + 1 # 1 /\ i + 1 \in 1..Len(t) /\ 1 \in 1..Len(t) /\ Tail(t)[i] = t[i + 1]
        BY <1>7
      <4>2. t[i + 1].counter # t[1].counter
        BY <1>8, <4>1, Zenon DEF TodoInv
      <4> QED
        BY <1>1, <1>6, <1>9, <4>1, <4>2, Zenon
    <3>2. \A i \in 1..Len(Tail(t)) : truth'[w][Tail(t)[i].counter] = truth[w][t[i + 1].counter]
      BY <1>5, <1>7, <3>1
    <3>3. \A i, j \in 1..Len(Tail(t)) : Tail(t)[i].counter = Tail(t)[j].counter => i = j
      BY <1>7, <1>8 DEF TodoInv
    <3>4. ASSUME NEW i \in 1..Len(Tail(t))
          PROVE  truth'[w][Tail(t)[i].counter] + MaxLatency <= Limit(events')
      BY <1>2, <1>7, <1>8, <3>2, Zenon DEF TodoInv
    <3>5. ASSUME NEW i \in 1..Len(Tail(t)), Tail(t)[i].counter = Ended
          PROVE  Tail(t)[i].n = 1 /\ truth'[w][Ended] < truth'[w][Opened]
      <4>1. t[i + 1].n = 1 /\ truth[w][Ended] < truth[w][Opened]
        BY <1>7, <1>8, <3>5 DEF TodoInv
      <4>2. Ended \in Counters \ {c} /\ Opened \in Counters
        BY <3>1, <3>5, CounterFacts
      <4>3. /\ truth'[w][Ended] = truth[w][Ended] /\ truth'[w][Opened] >= truth[w][Opened]
            /\ truth'[w][Opened] \in Nat /\ truth[w][Opened] \in Nat /\ truth[w][Ended] \in Nat
        BY <1>4, <1>5, <1>51, <4>2
      <4> QED
        BY <1>7, <4>1, <4>3
    <3>6. ASSUME NEW i \in 1..Len(Tail(t)), Tail(t)[i].counter[1] = "bucket" PROVE Sampled(Tail(t)[i])
      <4>1. i + 1 \in 1..Len(t) /\ Tail(t)[i] = t[i + 1]
        BY <1>7, Zenon
      <4> QED
        BY <1>8, <3>6, <4>1, Zenon DEF TodoInv
    <3> QED
      BY <1>12, <3>3, <3>4, <3>5, <3>6, Zenon DEF TodoInv
  <2>3. \A d \in Counters : truth'[w][d] <= Limit(events')
    <3>1. \A d \in Counters : truth[w][d] <= Limit(events)
      BY <1>inv, Zenon DEF WriterInv
    <3> QED
      BY <1>1, <1>2, <1>5, <3>1, Zenon
  <2>4. truth'[w][Ended] <= truth'[w][Opened]
    <3>0. PICK x \in Nat, y \in Nat : x = truth[w][Ended] /\ y = truth[w][Opened]
      BY <1>4, CounterFacts, Zenon
    <3>a. PICK p, q : p = truth'[w][Ended] /\ q = truth'[w][Opened]
      BY Zenon
    <3>b. /\ p = IF c = Ended THEN x + n ELSE x
          /\ q = IF c = Opened THEN y + n ELSE y
      <4>1. /\ truth'[w][Ended] = IF w = w /\ Ended = c THEN truth[w][Ended] + n ELSE truth[w][Ended]
            /\ truth'[w][Opened] = IF w = w /\ Opened = c THEN truth[w][Opened] + n ELSE truth[w][Opened]
        BY <1>5, CounterFacts, Zenon
      <4> QED
        BY <3>0, <3>a, <4>1, Zenon
    <3>c. Opened # Ended
      BY CounterFacts, Zenon
    <3>1. CASE c = Ended
      <4>1. n = 1 /\ truth[w][Ended] < truth[w][Opened]
        <5>1. 1 \in 1..Len(t) /\ t[1].counter = Ended /\ t[1].n = n
          BY <1>1, <1>6, <1>7, <3>1
        <5> QED
          BY <1>8, <5>1, Zenon DEF TodoInv
      <4> QED
        <5>1. n = 1 /\ x < y /\ p = x + n /\ q = y
          BY <3>0, <3>b, <3>c, <3>1, <4>1, Zenon
        <5>2. p <= q
          BY <5>1
        <5> QED
          BY <3>a, <5>2, Zenon
    <3>2. CASE c # Ended
      <4>1. truth[w][Ended] <= truth[w][Opened]
        BY <1>inv, Zenon DEF WriterInv
      <4>2. x <= y /\ p = x /\ (q = y + n \/ q = y)
        BY <3>0, <3>b, <3>2, <4>1, Zenon
      <4>3. p <= q
        BY <1>3, <4>2
      <4> QED
        BY <3>a, <4>3, Zenon
    <3> QED
      BY <3>1, <3>2, Zenon
  <2> QED
    BY <1>inv, <1>1, <1>12, <2>1, <2>2, <2>3, <2>4, ZenonT(40) DEF WriterInv
<1>15. ScrapeInv'
  <2> SUFFICES ASSUME scraper # 0, NEW v \in Writers
               PROVE  /\ before[v][Ended] <= before[v][Opened]
                      /\ \A d \in Counters : before[v][d] <= truth'[v][d]
                      /\ \A l \in Loads :
                           page[v][l] # -1 => page[v][l] \in before[v][Loaded(l)]..truth'[v][Loaded(l)]
    BY <1>2, Zenon DEF ScrapeInv
  <2>1. /\ before[v][Ended] <= before[v][Opened] /\ \A d \in Counters : before[v][d] <= truth[v][d]
        /\ \A l \in Loads :
             page[v][l] # -1 => page[v][l] \in before[v][Loaded(l)]..truth[v][Loaded(l)]
    BY <1>inv, Zenon DEF ScrapeInv
  <2>2. \A d \in Counters :
          before[v][d] \in Nat /\ truth[v][d] \in Nat /\ truth'[v][d] \in Nat /\ truth'[v][d] >= truth[v][d]
    BY <1>inv, <1>4, <1>51 DEF MetricsTypes
  <2>3. \A d \in Counters : before[v][d] <= truth'[v][d]
    BY <2>1, <2>2
  <2>4. ASSUME NEW l \in Loads, page[v][l] # -1
        PROVE  page[v][l] \in before[v][Loaded(l)]..truth'[v][Loaded(l)]
    <3>1. PICK d \in Counters : d = Loaded(l)
      BY LoadFacts
    <3>2. page[v][l] \in before[v][d]..truth[v][d]
      BY <2>1, <2>4, <3>1, Zenon
    <3> QED
      BY <2>2, <3>1, <3>2
  <2> QED
    BY <2>1, <2>3, <2>4, Zenon
<1> QED
  BY <1>10, <1>14, <1>15 DEF MetricsInv

\* A scrape does not touch what the writers do.
LEMMA SameWriters ==
  ASSUME WriterInv, UNCHANGED <<val, todo, reg, events, truth>>
  PROVE  WriterInv'
BY ZenonT(40) DEF WriterInv, TodoInv

\* A scrape begins with the scraper's own counters.
LEMMA ScrapeBeginStep ==
  ASSUME MetricsInv, NEW w \in Writers, ScrapeBegin(w)
  PROVE  MetricsInv'
<1>inv. MetricsTypes /\ WriterInv /\ ScrapeInv
  BY DEF MetricsInv
<1>1. /\ before' = truth /\ val' = val /\ todo' = todo /\ reg' = reg /\ events' = events
      /\ truth' = truth /\ samples' = samples
      /\ page' = [v \in Writers |-> [l \in Loads |-> IF v = w THEN val[w][Loaded(l)] ELSE -1]]
  BY DEF ScrapeBegin
<1>2. val = truth
  BY <1>inv DEF WriterInv
<1>3. \A v \in Writers, c \in Counters : truth[v][c] \in Nat
  BY <1>inv, <1>2 DEF MetricsTypes
<1>4. \A l \in Loads : Loaded(l) \in Counters
  BY LoadFacts
<1>5. MetricsTypes'
  <2>1. \A v \in Writers, l \in Loads : (IF v = w THEN val[w][Loaded(l)] ELSE -1) \in Int
    BY <1>2, <1>3, <1>4
  <2>2. page' \in [Writers -> [Loads -> Int]]
    BY <1>1, <2>1, Zenon
  <2> QED
    BY <1>inv, <1>1, <1>2, <2>2 DEF MetricsTypes
<1>6. WriterInv'
  BY <1>inv, <1>1, SameWriters
<1>7. ScrapeInv'
  <2>1. \A v \in Writers, l \in Loads : page'[v][l] # -1 => page'[v][l] = truth[v][Loaded(l)]
    BY <1>1, <1>2
  <2>2. \A v \in Writers : truth[v][Ended] <= truth[v][Opened]
    BY <1>inv DEF WriterInv
  <2>3. \A v \in Writers, c \in Counters :
          before'[v][c] <= truth'[v][c] /\ truth[v][c] \in before'[v][c]..truth'[v][c]
    BY <1>1, <1>3
  <2> QED
    BY <1>1, <1>4, <2>1, <2>2, <2>3, Zenon DEF ScrapeInv
<1> QED
  BY <1>5, <1>6, <1>7 DEF MetricsInv

\* A scrape loads a counter, in any order.
LEMMA ScrapeLoadStep ==
  ASSUME MetricsInv, NEW w \in Writers, NEW c \in Loads, ScrapeLoad(w, c)
  PROVE  MetricsInv'
<1>inv. MetricsTypes /\ WriterInv /\ ScrapeInv
  BY DEF MetricsInv
<1>1. /\ before' = before /\ val' = val /\ todo' = todo /\ reg' = reg /\ events' = events
      /\ truth' = truth /\ samples' = samples /\ scraper' = scraper /\ scraper # 0
      /\ page' = [page EXCEPT ![w][c] = val[w][Loaded(c)]]
  BY DEF ScrapeLoad
<1>2. val = truth
  BY <1>inv DEF WriterInv
<1>3. \A v \in Writers, d \in Counters : truth[v][d] \in Nat /\ before[v][d] \in Nat
  BY <1>inv, <1>2 DEF MetricsTypes
<1>4. \A l \in Loads : Loaded(l) \in Counters
  BY LoadFacts
<1>5. MetricsTypes'
  <2>1. val[w][Loaded(c)] \in Int
    BY <1>2, <1>3, <1>4
  <2>2. page' \in [Writers -> [Loads -> Int]]
    BY <1>inv, <1>1, <2>1 DEF MetricsTypes
  <2> QED
    BY <1>inv, <1>1, <2>2 DEF MetricsTypes
<1>6. WriterInv'
  BY <1>inv, <1>1, SameWriters
<1>7. ScrapeInv'
  <2>1. page \in [Writers -> [Loads -> Int]]
    BY <1>inv, Zenon DEF MetricsTypes
  <2>2. \A v \in Writers, l \in Loads :
          page'[v][l] = IF v = w /\ l = c THEN truth[v][Loaded(l)] ELSE page[v][l]
    BY <1>1, <1>2, <2>1
  <2>3. ASSUME NEW v \in Writers, NEW l \in Loads, page'[v][l] # -1
        PROVE  page'[v][l] \in before[v][Loaded(l)]..truth[v][Loaded(l)]
    <3>1. PICK d \in Counters : d = Loaded(l)
      BY <1>4, Zenon
    <3>2. /\ before[v][d] <= truth[v][d]
          /\ page[v][l] # -1 => page[v][l] \in before[v][d]..truth[v][d]
      BY <1>inv, <1>1, <3>1, Zenon DEF ScrapeInv
    <3> QED
      BY <1>3, <2>2, <2>3, <3>1, <3>2
  <2> QED
    BY <1>inv, <1>1, <2>3, Zenon DEF ScrapeInv
<1> QED
  BY <1>5, <1>6, <1>7 DEF MetricsInv

\* A scrape is over.
LEMMA ScrapeEndStep ==
  ASSUME MetricsInv, ScrapeEnd
  PROVE  MetricsInv'
<1>inv. MetricsTypes /\ WriterInv /\ ScrapeInv
  BY DEF MetricsInv
<1>1. /\ val' = val /\ todo' = todo /\ reg' = reg /\ events' = events
      /\ truth' = truth /\ samples' = samples /\ scraper' = 0
      /\ page' = [v \in Writers |-> [l \in Loads |-> -1]]
      /\ before' = [v \in Writers |-> [c \in Counters |-> 0]]
  BY DEF ScrapeEnd
<1>2. MetricsTypes'
  <2>1. page' \in [Writers -> [Loads -> Int]] /\ before' \in [Writers -> [Counters -> Nat]]
    BY <1>1
  <2> QED
    BY <1>inv, <1>1, <2>1, Zenon DEF MetricsTypes
<1>3. WriterInv'
  BY <1>inv, <1>1, SameWriters
<1>4. ScrapeInv'
  BY <1>inv, <1>1 DEF ScrapeInv
<1> QED
  BY <1>2, <1>3, <1>4 DEF MetricsInv

\* The invariant holds of every reachable state.
LEMMA MetricsInvariant == MetricsSpec => []MetricsInv
<1>1. MetricsInit => MetricsInv
  BY InitMetrics
<1>2. MetricsInv /\ [MetricsNext]_metricsVars => MetricsInv'
  <2> SUFFICES ASSUME MetricsInv, [MetricsNext]_metricsVars PROVE MetricsInv'
    OBVIOUS
  <2>1. CASE MetricsNext
    BY <2>1, EventStep, LoadStep, StoreStep, ScrapeBeginStep, ScrapeLoadStep, ScrapeEndStep
       DEF MetricsNext
  <2>2. CASE UNCHANGED metricsVars
    <3>1. MetricsTypes' /\ ScrapeInv'
      BY <2>2, Zenon DEF metricsVars, MetricsInv, MetricsTypes, ScrapeInv
    <3> QED
      BY <2>2, <3>1, SameWriters DEF metricsVars, MetricsInv
  <2> QED
    BY <2>1, <2>2
<1> QED
  BY <1>1, <1>2, PTL DEF MetricsSpec

\* Whatever the workers do while a page is rendered, each counter on it, and each cumulative
\* bucket, lies between its value when the scrape began and its value when it ended.
THEOREM PagesAreCurrent == MetricsSpec => []PageIsCurrent
<1>1. MetricsInv => PageIsCurrent
  <2> SUFFICES ASSUME MetricsInv, Complete PROVE PageIsCurrent
    BY DEF PageIsCurrent
  <2>1. \A w \in Writers, l \in Loads : page[w][l] \in before[w][Loaded(l)]..truth[w][Loaded(l)]
    BY Zenon DEF MetricsInv, ScrapeInv, Complete
  <2>2. /\ before \in [Writers -> [Counters -> Nat]] /\ truth \in [Writers -> [Counters -> Nat]]
        /\ page \in [Writers -> [Loads -> Int]]
    BY DEF MetricsInv, MetricsTypes, WriterInv
  <2>3. \A w \in Writers, c \in Counters : page[w][c] \in before[w][c]..truth[w][c]
    BY <2>1, LoadFacts, Zenon
  <2>4. PICK m : m = [w \in Writers |-> [c \in Counters |-> page[w][c]]]
    BY Zenon
  <2>5. \A w \in Writers, c \in Counters : m[w][c] = page[w][c]
    BY <2>4, Zenon
  <2>6. \A w \in Writers, c \in Counters :
          page[w][c] \in Nat /\ before[w][c] <= m[w][c] /\ m[w][c] <= truth[w][c]
    <3> TAKE w \in Writers, c \in Counters
    <3>1. before[w][c] \in Nat /\ truth[w][c] \in Nat
      BY <2>2
    <3>2. m[w][c] = page[w][c] /\ page[w][c] \in before[w][c]..truth[w][c]
      BY <2>3, <2>5, Zenon
    <3> QED
      BY <3>1, <3>2
  <2>7. m \in [Writers -> [Counters -> Nat]]
    BY <2>4, <2>6, Zenon
  <2>8. ASSUME NEW b \in 0..(Buckets - 1)
        PROVE  Cumulative(page, b) \in Cumulative(before, b)..Cumulative(truth, b)
    <3>1. Cumulative(page, b) = Cumulative(m, b)
      <4>1. \A i \in 0..b : <<"bucket", i>> \in Counters
        BY BucketCounter, Zenon
      <4>2. \A i \in 0..b : [w \in Writers |-> page[w][<<"bucket", i>>]] = [w \in Writers |-> m[w][<<"bucket", i>>]]
        BY <2>5, <4>1
      <4>3. \A i \in 0..b : Total(page, <<"bucket", i>>) = Total(m, <<"bucket", i>>)
        BY <4>2, Zenon DEF Total
      <4>4. [i \in 0..b |-> Total(page, <<"bucket", i>>)] = [i \in 0..b |-> Total(m, <<"bucket", i>>)]
        BY <4>3
      <4> QED
        BY <4>4, Zenon DEF Cumulative
    <3>2. Cumulative(before, b) \in Nat /\ Cumulative(m, b) \in Nat /\ Cumulative(truth, b) \in Nat
      BY <2>2, <2>7, CumulativeFacts, Zenon
    <3>3. Cumulative(before, b) <= Cumulative(m, b)
      BY <2>2, <2>6, <2>7, CumulativeGrows, Zenon
    <3>4. Cumulative(m, b) <= Cumulative(truth, b)
      BY <2>2, <2>6, <2>7, CumulativeGrows, ZenonT(40)
    <3> QED
      BY <3>1, <3>2, <3>3, <3>4
  <2> QED
    BY <2>3, <2>8, Zenon DEF PageIsCurrent
<1> QED
  BY <1>1, MetricsInvariant, PTL

\* The gauge of open connections does not wrap around, and errs by no more than what was
\* accepted and closed during the scrape.
THEOREM GaugeIsSane == MetricsSpec => []GaugeSane
<1>1. MetricsInv => GaugeSane
  <2> SUFFICES ASSUME MetricsInv, Complete, NEW w \in Writers
               PROVE  Active(w) \in (before[w][Opened] - truth[w][Ended])..(truth[w][Opened] - before[w][Ended])
    BY DEF GaugeSane, Opened, Ended
  <2>1. \A l \in Loads : page[w][l] \in before[w][Loaded(l)]..truth[w][Loaded(l)]
    BY Zenon DEF MetricsInv, ScrapeInv, Complete
  <2>2. page[w][Gauge] \in before[w][Opened]..truth[w][Opened] /\ page[w][Ended] \in before[w][Ended]..truth[w][Ended]
    BY <2>1, LoadFacts, CounterFacts
  <2>3. \A c \in Counters : before[w][c] \in Nat /\ truth[w][c] \in Nat
    BY DEF MetricsInv, MetricsTypes, WriterInv
  <2>4. before[w][Ended] <= before[w][Opened] /\ truth[w][Ended] <= truth[w][Opened]
    BY DEF MetricsInv, WriterInv, ScrapeInv, Complete
  <2>5. Active(w) = IF page[w][Gauge] >= page[w][Ended] THEN page[w][Gauge] - page[w][Ended] ELSE 0
    BY DEF Active, Ended
  <2> QED
    BY <2>2, <2>3, <2>4, <2>5, CounterFacts
<1> QED
  BY <1>1, MetricsInvariant, PTL

\* How many responses took at most us microseconds, and how many there were.
Count(us) == SumFunction([w \in Writers |-> Cardinality(AtMost(w, us))])
CountAll == SumFunction([w \in Writers |-> Len(samples[w])])

\* A count is a natural number.
LEMMA CountNat ==
  ASSUME samples \in [Writers -> Seq(Nat)], NEW us \in Nat
  PROVE  Count(us) \in Nat
<1>1. PICK f : f = [w \in Writers |-> Cardinality(AtMost(w, us))]
  BY Zenon
<1>2. f \in [Writers -> Nat]
  BY <1>1, AtMostFacts, Zenon
<1>3. SumFunction(f) \in Nat
  BY <1>2, MetricsAssumption, SumNat, Zenon
<1> QED
  BY <1>1, <1>3, Zenon DEF Count

\* A bump of a bucket counts the response in the buckets whose bound is above it.
LEMMA BoundsStep ==
  ASSUME MetricsInv, BucketBounds, NEW w \in Writers, BumpStore(w)
  PROVE  BucketBounds'
<1>0. PICK c \in Counters, n \in 0..MaxLatency : Stored(w, c, n)
  BY StoreFacts, Zenon
<1>1. /\ todo[w] # <<>> /\ c = todo[w][1].counter /\ n = todo[w][1].n
      /\ samples' = [samples EXCEPT ![w] = IF c[1] = "bucket" THEN Append(@, todo[w][1].took) ELSE @]
  BY <1>0, Zenon DEF Stored
<1>2. MetricsTypes /\ MetricsTypes' /\ TodoInv(w, todo[w])
  BY StoreStep, Zenon DEF MetricsInv, WriterInv
<1>3. val \in [Writers -> [Counters -> Nat]] /\ val' \in [Writers -> [Counters -> Nat]]
  BY <1>2, Zenon DEF MetricsTypes
<1>4. \A v \in Writers, i \in 0..(Buckets - 1) : <<"bucket", i>> \in Counters
  BY CounterFacts, Zenon
<1>7. \A v \in Writers, d \in Counters :
        val'[v][d] = IF v = w /\ d = c THEN val[v][d] + n ELSE val[v][d]
  BY <1>0, Zenon DEF Stored
<1>5. CASE c[1] = "bucket"
  <2>1. todo[w] \in Seq(Bumps) /\ 1 \in 1..Len(todo[w])
    BY <1>1, <1>2 DEF MetricsTypes
  <2>2. Sampled(todo[w][1]) /\ todo[w][1] \in Bumps
    BY <1>1, <1>2, <1>5, <2>1 DEF TodoInv
  <2>3. PICK took \in Nat : took = todo[w][1].took
    BY <2>2 DEF Bumps
  <2>4. PICK us \in Nat : c = <<"bucket", BucketOf(us)>> /\ Measured(us, took) /\ n = 1
    BY <1>1, <2>2, <2>3, Zenon DEF Sampled
  <2>6. PICK x \in 0..(Buckets - 1) : x = BucketOf(us) /\ c = <<"bucket", x>>
    BY <2>4, BucketFacts
  <2>7. \A v \in Writers, i \in 0..(Buckets - 1) :
          val'[v][<<"bucket", i>>] = IF v = w /\ i = x THEN val[v][<<"bucket", i>>] + 1 ELSE val[v][<<"bucket", i>>]
    <3>1. \A i \in 0..(Buckets - 1) : <<"bucket", i>> = c <=> i = x
      BY <2>6
    <3> QED
      BY <1>4, <1>7, <2>4, <3>1, Zenon
  <2>8. samples' = [samples EXCEPT ![w] = Append(@, took)] /\ samples \in [Writers -> Seq(Nat)]
    BY <1>1, <1>2, <1>5, <2>3 DEF MetricsTypes
  <2>9. ASSUME NEW b \in 0..(Buckets - 1)
        PROVE  IF b = Buckets - 1 THEN Cumulative(val', b) = CountAll'
               ELSE Cumulative(val', b) \in Count(2^b - 1)'..Count(2^b)'
    <3>0. PICK m \in [Writers -> [Counters -> Nat]], k \in [Writers -> [Counters -> Nat]] :
             m = val /\ k = val'
      BY <1>3, Zenon
    <3>1. /\ x <= b => Cumulative(val', b) = Cumulative(val, b) + 1
          /\ ~(x <= b) => Cumulative(val', b) = Cumulative(val, b)
      <4>1. OneSample(m, k, w, x)
        BY <2>7, <3>0, Zenon DEF OneSample
      <4>2. /\ x <= b => Cumulative(k, b) = Cumulative(m, b) + 1
            /\ ~(x <= b) => Cumulative(k, b) = Cumulative(m, b)
        BY <4>1, CumulativeStep, Zenon
      <4> QED
        BY <3>0, <4>2, Zenon
    <3>2. x <= b <=> (b = Buckets - 1 \/ us < 2^b)
      BY <2>6, BucketFacts
    <3>3. CASE b = Buckets - 1
      <4>1. Cumulative(val, b) = CountAll
        BY <3>3, Zenon DEF BucketBounds, CountAll
      <4>2. CountAll' = CountAll + 1
        BY <2>8, LengthStep, Zenon DEF CountAll
      <4> QED
        BY <3>1, <3>2, <3>3, <4>1, <4>2, Zenon
    <3>4. CASE b # Buckets - 1
      <4>1. PICK le \in Nat \ {0} : le = 2^b
        BY TwoTo, TwoToGrows
      <4>2. le - 1 \in Nat /\ le \in Nat
        OBVIOUS
      <4>3. /\ Count(le - 1)' = IF took <= (le - 1) * Tick THEN Count(le - 1) + 1 ELSE Count(le - 1)
            /\ Count(le)' = IF took <= le * Tick THEN Count(le) + 1 ELSE Count(le)
        BY <2>8, <4>2, AtMostStep, Zenon DEF Count
      <4>4. Cumulative(val, b) \in Count(le - 1)..Count(le)
        BY <3>4, <4>1, Zenon DEF BucketBounds, Count
      <4>5. (us < le => took <= le * Tick) /\ (took <= (le - 1) * Tick => us < le)
        BY <2>4, MeasuredBound, Zenon
      <4>6. x <= b <=> us < le
        BY <3>2, <3>4, <4>1, Zenon
      <4>7. PICK p \in Nat, q \in Nat : p = Count(le - 1) /\ q = Count(le)
        BY <2>8, <4>2, CountNat, Zenon
      <4>8. PICK p1, q1 : p1 = Count(le - 1)' /\ q1 = Count(le)'
        BY Zenon
      <4>9. /\ p1 = IF took <= (le - 1) * Tick THEN p + 1 ELSE p
            /\ q1 = IF took <= le * Tick THEN q + 1 ELSE q
        BY <4>3, <4>7, <4>8, Zenon
      <4>10. PICK y \in p..q : y = Cumulative(val, b)
        BY <4>4, <4>7, Zenon
      <4>11. Cumulative(val', b) = IF us < le THEN y + 1 ELSE y
        BY <3>1, <4>6, <4>10, Zenon
      <4>12. Cumulative(val', b) \in p1..q1
        BY <4>5, <4>9, <4>11
      <4> QED
        BY <3>4, <4>1, <4>8, <4>12, Zenon
    <3> QED
      BY <3>3, <3>4
  <2> QED
    BY <2>9, ZenonT(40) DEF BucketBounds, Count, CountAll
<1>6. CASE c[1] # "bucket"
  <2>1. samples' = samples
    BY <1>1, <1>2, <1>6 DEF MetricsTypes
  <2>2. \A v \in Writers, i \in 0..(Buckets - 1) : val'[v][<<"bucket", i>>] = val[v][<<"bucket", i>>]
    <3>1. \A i \in 0..(Buckets - 1) : <<"bucket", i>> # c
      BY <1>6
    <3> QED
      BY <1>4, <1>7, <3>1, Zenon
  <2>3. ASSUME NEW b \in 0..(Buckets - 1) PROVE Cumulative(val', b) = Cumulative(val, b)
    <3>1. \A i \in 0..b : i \in 0..(Buckets - 1)
      BY BucketCounter, Zenon
    <3>2. \A i \in 0..b : Total(val', <<"bucket", i>>) = Total(val, <<"bucket", i>>)
      <4>1. ASSUME NEW i \in 0..b
            PROVE  [v \in Writers |-> val'[v][<<"bucket", i>>]] = [v \in Writers |-> val[v][<<"bucket", i>>]]
        BY <2>2, <3>1
      <4> QED
        BY <4>1 DEF Total
    <3>3. [i \in 0..b |-> Total(val', <<"bucket", i>>)] = [i \in 0..b |-> Total(val, <<"bucket", i>>)]
      BY <3>2
    <3> QED
      BY <3>3, Zenon DEF Cumulative
  <2> QED
    BY <2>1, <2>3, ZenonT(40) DEF BucketBounds, AtMost
<1> QED
  BY <1>5, <1>6

\* Whatever the responses took and however the clock cut it off: what is rendered with
\* le = 2^b us counts none that took longer and all that took a microsecond less, for every
\* number of buckets.
THEOREM BucketsAreBounded == MetricsSpec => []BucketBounds
<1>1. MetricsInit => BucketBounds
  <2> SUFFICES ASSUME MetricsInit, NEW b \in 0..(Buckets - 1)
               PROVE  IF b = Buckets - 1 THEN Cumulative(val, b) = CountAll
                      ELSE Cumulative(val, b) \in Count(2^b - 1)..Count(2^b)
    BY Zenon DEF BucketBounds, Count, CountAll
  <2>1. SumFunction([w \in Writers |-> 0]) = 0
    BY SumZero, MetricsAssumption
  <2>2. ASSUME NEW us PROVE Count(us) = 0
    <3>1. \A v \in Writers : AtMost(v, us) = {}
      BY DEF MetricsInit, AtMost
    <3>2. [w \in Writers |-> Cardinality(AtMost(w, us))] = [w \in Writers |-> 0]
      BY <3>1, FS_EmptySet
    <3> QED
      BY <2>1, <3>2, Zenon DEF Count
  <2>3. CountAll = 0
    <3>1. [w \in Writers |-> Len(samples[w])] = [w \in Writers |-> 0]
      BY DEF MetricsInit
    <3> QED
      BY <2>1, <3>1, Zenon DEF CountAll
  <2>4. \A i \in 0..b : Total(val, <<"bucket", i>>) = 0
    <3>1. \A i \in 0..b : <<"bucket", i>> \in Counters
      BY BucketCounter, Zenon
    <3>2. \A i \in 0..b : [w \in Writers |-> val[w][<<"bucket", i>>]] = [w \in Writers |-> 0]
      BY <3>1, Zenon DEF MetricsInit, Zero
    <3> QED
      BY <2>1, <3>2 DEF Total
  <2>5. [i \in 0..b |-> Total(val, <<"bucket", i>>)] = [i \in 0..b |-> 0]
    BY <2>4
  <2>6. SumFunction([i \in 0..b |-> 0]) = 0
    <3>1. IsFiniteSet(0..b)
      BY FS_Interval
    <3> QED
      BY <3>1, SumZero, Zenon
  <2>7. Cumulative(val, b) = 0
    BY <2>5, <2>6, ZenonT(40) DEF Cumulative
  <2> QED
    BY <2>2, <2>3, <2>7
<1>2. MetricsInv /\ BucketBounds /\ [MetricsNext]_metricsVars => BucketBounds'
  <2> SUFFICES ASSUME MetricsInv, BucketBounds, [MetricsNext]_metricsVars PROVE BucketBounds'
    OBVIOUS
  <2>1. CASE val' = val /\ samples' = samples
    BY <2>1, Zenon DEF BucketBounds, AtMost, Cumulative, Total
  <2>2. CASE \E w \in Writers : BumpStore(w)
    BY <2>2, BoundsStep
  <2> QED
    BY <2>1, <2>2 DEF MetricsNext, metricsVars, Event, Begin, BumpLoad, ScrapeBegin, ScrapeLoad, ScrapeEnd
<1> QED
  BY <1>1, <1>2, MetricsInvariant, PTL DEF MetricsSpec

=============================================================================
