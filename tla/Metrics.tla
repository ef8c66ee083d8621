------------------------------- MODULE Metrics -------------------------------
(***************************************************************************)
(* The counters of the workers and a scrape (src/obs/metrics.hpp,          *)
(* src/obs/metrics.cpp).  bump() is a load and a store of the one writer;  *)
(* render_prometheus() runs in a handler of some worker, and its loads are *)
(* relaxed: they may be performed in any order, between any two stores of  *)
(* the other workers.                                                      *)
(***************************************************************************)
EXTENDS Integers, Sequences, FiniteSets, Functions

CONSTANTS
  Writers,    \* the workers
  Buckets,    \* kLatencyBuckets
  Tick,       \* steps of the steady clock in a microsecond
  Durations,  \* what a request may take, in those steps
  MaxEvents,  \* events of all workers (bound)
  MaxScrapes, \* scrapes (bound)
  Word        \* 2^w for the width of a counter

\* What every event may add to a counter without wrapping it around in this many events:
\* 64 bits hold half a million years of latency.
MaxLatency == (Word - 1) \div MaxEvents

ASSUME MetricsAssumption ==
  /\ IsFiniteSet(Writers) /\ 0 \notin Writers /\ Buckets \in Nat \ {0}
  /\ MaxEvents \in Nat \ {0} /\ Word \in Nat /\ MaxEvents < Word
  /\ Tick \in Nat \ {0} /\ \A took \in Durations : took \in Nat /\ took \div Tick < MaxLatency

\* The counters that a scrape relates to each other; the others are bumped and loaded in
\* the same way.
Counters ==
  {<<"accepted", 0>>, <<"closed", 0>>, <<"requests", 0>>, <<"sum", 0>>}
    \cup {<<"bucket", b>> : b \in 0..(Buckets - 1)}

\* The loads of a scrape: each counter, and the accepted connections once more, for the gauge.
Gauge == <<"gauge", 0>>
Loads == Counters \cup {Gauge}
Loaded(l) == IF l = Gauge THEN <<"accepted", 0>> ELSE l

VARIABLES
  val,             \* the counters: val[w][c]
  todo, reg,       \* bumps a worker still has to do; the value its bump loaded, or -1
  events, truth,   \* events so far; what the counters of a worker should say
  samples,         \* the responses whose bucket a worker has bumped
  scraper,         \* the worker that runs render_prometheus(), 0 if none
  before,          \* `truth` when the scrape began
  page, scrapes    \* what the scrape has loaded so far; finished scrapes

metricsVars == <<val, todo, reg, events, truth, samples, scraper, before, page, scrapes>>

-----------------------------------------------------------------------------
(* Writers.                                                                *)

\* Faulty variant: the position of the highest bit, one less than the width.
BucketOf_HighBit(us) ==
  LET bit == CHOOSE k \in 0..us : us < 2^(k + 1) /\ (k = 0 \/ 2^k <= us) IN
  IF bit >= Buckets THEN Buckets - 1 ELSE bit

\* bit_width(us), the last bucket being open-ended.
BucketOf(us) ==
  LET width == CHOOSE k \in 0..us : 2^k > us /\ (k = 0 \/ 2^(k - 1) <= us) IN
  IF width >= Buckets THEN Buckets - 1 ELSE width

\* mono_us() - request_start_us, for a request whose first byte was read on a wake-up that
\* came `phase` into a microsecond: either clock value is cut off to microseconds.
Latency(phase, took) == (phase + took) \div Tick

\* A bump of c by n, for a response that took that long.
Add(c, n, took) == [counter |-> c, n |-> n, took |-> took]

\* The bumps of on_accept(), of close_connection(), and of record_response() with
\* observe_latency_us().
Accepting == <<Add(<<"accepted", 0>>, 1, 0)>>
Closing == <<Add(<<"closed", 0>>, 1, 0)>>
Recording(us, took) ==
  <<Add(<<"requests", 0>>, 1, took), Add(<<"bucket", BucketOf(us)>>, 1, took), Add(<<"sum", 0>>, us, took)>>

Begin(w, bumps) ==
  /\ scraper # w /\ todo[w] = <<>> /\ events < MaxEvents
  /\ todo' = [todo EXCEPT ![w] = bumps] /\ events' = events + 1
  /\ UNCHANGED <<val, reg, truth, samples, scraper, before, page, scrapes>>

Event(w) ==
  \/ Begin(w, Accepting)
  \/ truth[w][<<"closed", 0>>] < truth[w][<<"accepted", 0>>] /\ Begin(w, Closing)
  \/ \E phase \in 0..(Tick - 1), took \in Durations : Begin(w, Recording(Latency(phase, took), took))

\* Faulty variant: all workers count in one block.
Block_Shared(w) == CHOOSE v \in Writers : TRUE

\* metrics_: each worker is the sole writer of its own block.
Block(w) == w

BumpLoad(w) ==
  /\ todo[w] # <<>> /\ reg[w] = -1
  /\ reg' = [reg EXCEPT ![w] = val[Block(w)][Head(todo[w]).counter]]
  /\ UNCHANGED <<val, todo, events, truth, samples, scraper, before, page, scrapes>>

BumpStore(w) ==
  LET c == Head(todo[w]).counter
      n == Head(todo[w]).n
  IN
  /\ todo[w] # <<>> /\ reg[w] # -1
  /\ val' = [val EXCEPT ![Block(w)][c] = (reg[w] + n) % Word]
  /\ truth' = [truth EXCEPT ![Block(w)][c] = @ + n]
  /\ todo' = [todo EXCEPT ![w] = Tail(@)] /\ reg' = [reg EXCEPT ![w] = -1]
  /\ samples' = [samples EXCEPT ![w] = IF c[1] = "bucket" THEN Append(@, Head(todo[w]).took) ELSE @]
  /\ UNCHANGED <<events, scraper, before, page, scrapes>>

-----------------------------------------------------------------------------
(* render_prometheus().                                                    *)

\* The handler of /metrics; the scraper's own block does not change meanwhile.
ScrapeBegin(w) ==
  /\ scraper = 0 /\ todo[w] = <<>> /\ scrapes < MaxScrapes
  /\ scraper' = w /\ before' = truth
  /\ page' = [v \in Writers |-> [l \in Loads |-> IF v = w THEN val[w][Loaded(l)] ELSE -1]]
  /\ UNCHANGED <<val, todo, reg, events, truth, samples, scrapes>>

\* The loads are performed in any order, but two of the same counter in that of the program:
\* the gauge's comes first.
ScrapeLoad(w, l) ==
  /\ scraper # 0 /\ page[w][l] = -1
  /\ l = <<"accepted", 0>> => page[w][Gauge] # -1
  /\ page' = [page EXCEPT ![w][l] = val[w][Loaded(l)]]
  /\ UNCHANGED <<val, todo, reg, events, truth, samples, scraper, before, scrapes>>

Complete == scraper # 0 /\ \A w \in Writers, l \in Loads : page[w][l] # -1

ScrapeEnd ==
  /\ Complete
  /\ scraper' = 0 /\ scrapes' = scrapes + 1
  /\ page' = [v \in Writers |-> [l \in Loads |-> -1]]
  /\ before' = [v \in Writers |-> [c \in Counters |-> 0]]
  /\ UNCHANGED <<val, todo, reg, events, truth, samples>>

Total(m, c) == SumFunction([w \in Writers |-> m[w][c]])

\* Faulty variant: without the clamp.
Active_Unclamped(w) == (page[w][Gauge] - page[w][<<"closed", 0>>]) % Word

\* httpd_connections_active.
Active(w) ==
  IF page[w][Gauge] >= page[w][<<"closed", 0>>]
  THEN page[w][Gauge] - page[w][<<"closed", 0>>] ELSE 0

\* httpd_request_duration_seconds_bucket with le = 2^b us; +Inf is the last one.
Cumulative(m, b) == SumFunction([i \in 0..b |-> Total(m, <<"bucket", i>>)])

-----------------------------------------------------------------------------

Zero == [w \in Writers |-> [c \in Counters |-> 0]]

MetricsInit ==
  /\ val = Zero /\ truth = Zero /\ before = Zero
  /\ todo = [w \in Writers |-> <<>>] /\ reg = [w \in Writers |-> -1]
  /\ events = 0 /\ samples = [w \in Writers |-> <<>>]
  /\ scraper = 0 /\ scrapes = 0 /\ page = [w \in Writers |-> [l \in Loads |-> -1]]

MetricsNext ==
  \/ \E w \in Writers : Event(w) \/ BumpLoad(w) \/ BumpStore(w) \/ ScrapeBegin(w)
  \/ \E w \in Writers, l \in Loads : ScrapeLoad(w, l)
  \/ ScrapeEnd

MetricsSpec == MetricsInit /\ [][MetricsNext]_metricsVars

-----------------------------------------------------------------------------
(* Properties.                                                             *)

\* Every counter on a page, per worker and summed, is a value the workers had really
\* counted at some moment of the scrape: not less than when it began, not more than
\* now.  So no bump is lost, and no counter goes backwards from one scrape to the next,
\* whichever workers serve them.
PageIsCurrent ==
  Complete =>
    /\ \A w \in Writers, c \in Counters : page[w][c] \in before[w][c]..truth[w][c]
    /\ \A b \in 0..(Buckets - 1) :
         Cumulative(page, b) \in Cumulative(before, b)..Cumulative(truth, b)

\* The gauge of open connections never wraps around, and errs by no more than what was
\* accepted and closed during the scrape.
GaugeSane ==
  Complete =>
    \A w \in Writers :
      Active(w) \in (before[w][<<"accepted", 0>>] - truth[w][<<"closed", 0>>])
                      ..(truth[w][<<"accepted", 0>>] - before[w][<<"closed", 0>>])

\* The responses of w that took at most us microseconds.
AtMost(w, us) == {i \in DOMAIN samples[w] : samples[w][i] <= us * Tick}

\* The exposition format: what is rendered with le = 2^b us counts responses that took at most
\* that long.  It counts none that took longer, and misses only some that took less than a
\* microsecond, the resolution of the clock, below that or exactly that: a latency of 2^b us
\* goes to the next bucket.  The open-ended last bucket counts all of them.
BucketBounds ==
  \A b \in 0..(Buckets - 1) :
    IF b = Buckets - 1
    THEN Cumulative(val, b) = SumFunction([w \in Writers |-> Len(samples[w])])
    ELSE Cumulative(val, b) \in SumFunction([w \in Writers |-> Cardinality(AtMost(w, 2^b - 1))])
                                 ..SumFunction([w \in Writers |-> Cardinality(AtMost(w, 2^b))])

==============================================================================
