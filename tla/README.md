# TLA+ models of the epoll HTTP server

These modules model the HTTP/1.1 server in `src/` at the places where it is hard
to test: one connection driven by edge-triggered events next to a client that may
act between any two system calls, the event loop with its descriptors and clocks,
the life of the process, the incremental request parser, the input buffer, the
counters and their scrape, the load generator, and the sequential library code. TLC checks
small instances, TLAPS proves the safety properties of the first six, and of the route
table, for every value of the constants.

## 1. The system

| Part | State | Operations | Code |
|---|---|---|---|
| Connection | input buffer, parser, output queue, body source (file or producer), readiness flags, clocks | `drive`, `do_read`, `process`, `dispatch`, `queue_error`, `do_write`, `refill_from_producer` | `src/server/server.cpp` 114–145, 313–561 |
| Worker | epoll set, connections by descriptor, listener, eventfd, drain deadline | `run`, `on_accept`, `sweep`, `begin_drain`, `close_connection` | `src/server/server.cpp` 196–311, 563–599 |
| Server | list of workers, port | `start`, `stop`, `wait`, `metrics_text` | `src/server/server.cpp` 601–647, `src/main.cpp` |
| Request parser | state, limits, header counters, remaining body | `feed`, `take`, `reset` | `src/http/request_parser.cpp` |
| Input buffer | array, capacity, two cursors | `prepare`, `commit`, `consume` | `src/util/byte_buffer.hpp` |
| Responses, headers | – | `write_head`, `append_chunk`, `append_last_chunk`, `Headers` | `src/http/response.cpp`, `src/http/headers.cpp` |
| Router, static files, routes, CRC-32 | route table | pure functions of a request | `src/server/router.cpp`, `src/app/`, `src/util/crc32.cpp` |
| Metrics | relaxed atomic counters, one set per worker | `bump`, `render_prometheus` | `src/obs/` |
| Load generator | connections of a benchmark client | send, receive, count | `tools/loadgen.cpp` |

Workers share nothing but the router, the configuration and the metrics. Inside a
worker everything is sequential; what runs concurrently with a connection is the
kernel and the client (and whoever changes a served file). The hard behaviour
follows from that: readiness is reported once per change, reads and writes are
short, requests arrive in any segmentation and pipelined, a client half-closes or
resets at any moment, bodies fail half-way, and a drain or a timeout may end a
connection between two events. `PROJECT.json` lists these hazards at their lines.

## 2. Modules

| Module | Models |
|---|---|
| `Connection` | one connection, its kernel socket and its client |
| `ConnectionLemmas`, `ConnectionProofs` | framing: the inductive invariant, the steps outside and inside `do_write()`, the theorem; the lingering close |
| `ConnectionEventProofs` | bounded buffers, orderly end, no lost wake-up |
| `Worker` | `run()`, `on_accept()`, `sweep()`, `begin_drain()` over several connections |
| `WorkerLife` | what a worker promises, abstractly; `Worker` implements it and `Server` builds on it |
| `WorkerProofs` | accounting, deadlines, bounded drain; the refinement |
| `WorkerEventProofs` | descriptor reuse within a batch; the types of the event loop |
| `Server`, `ServerProofs` | `main()`, `start()`, `stop()`, `wait()`, the destructor, signals; `ServerProofs` also has the lemmas on sums |
| `RequestParser` | `feed()`, one action per iteration of its loop, and its caller |
| `ByteQueue` | abstract specification of the input buffer |
| `ByteBuffer` | the buffer itself, which implements `ByteQueue` |
| `RequestProofs` | a request on its way in: the buffer, the parser, the route table |
| `Metrics`, `MetricsProofs` | `bump()` by several workers against `render_prometheus()` |
| `LoadGen` | a connection of `tools/loadgen.cpp` and the server it talks to |
| `Router`, `HeaderFields`, `StaticFiles` | `Router`, `Headers`, `sanitize()` and `serve()` |
| `Routes`, `Crc32` | the producers of `/bytes` and `/stream`, `crc32()` |
| `MCConnection`, `MCWorker`, `MCRequestParser`, `MCRequestSplit`, `MCByteBuffer`, `MCMetrics`, `MCLibrary` | instances for TLC |

The parts meet in three places. `Worker` reduces a connection to what the loop sees of
`drive()`: it parks idle, in the middle of a request head, or busy, or it is closed.
`Server` reduces a worker to `WorkerLife`. `Connection` takes from the parser only how
many units each state consumes, and `RequestParser` carries the assumption under which
`do_read()` never stops while the parser waits.

### Connection

Bytes are counted in units. A script fixes the requests: the lengths of their
parts, where the parser rejects them if it does, and the response the handler
builds. `hist` is every unit ever serialized, `sent` of them the kernel took and
`acked` the client read, so `out_pending()` is `Len(hist) - sent`. `klen` units
are unread in the kernel, `in_len` are in `Connection::in`.

`pc` follows `drive()`: `wait` (not being driven), `read`, `process`, `feed`,
`write`, `linger`, `close`, `closed`. Each system call is one step, so the
environment can act between any two. `Wake` is the event handling of `run()`,
`DoRead` one turn of `do_read()`, `ProcessLoop`, `Feed`, `NeedInput`,
`QueueError` and `Dispatch` are `process()` and what it calls, `DoWrite` is one
turn of `do_write()`, `DriveTurn` and `Linger` the end of `drive()`, `Sweep` the
sweep and the end of a drain.

External parts, modelled from how the code uses them: `armed` is membership in
epoll's ready list, re-polled by `Wake`; `nospace` is the kernel's note that a
writer ran out of space, without which reading raises no EPOLLOUT; closing a
socket with unread input, or sending to a closed one, produces RST.

Abstractions: a header block is consumed at once, as if it were one line (the
parser has its own module); a chunk has the size of its data; time is reduced to
whether a deadline may have passed, so `Sweep` may expire a connection whenever
`timeout` is among the faults; EINTR, which only repeats a call, is left out.

### RequestParser

Lines carry a length and a meaning instead of characters; a number in a
Content-Length or chunk-size line is its value, or -1 if malformed. `Receive`
appends a segment to the unconsumed tail and enters `feed()`; every branch of its
`switch` is an action; `Take` is `take()` with its `reset()`. The sum of
`parse_chunk_size` is taken modulo `SizeMod`, the word size.

### ByteBuffer

The array, its cursors, `prepare()` in its three branches with the doubling loop
step by step, `recv()` with `commit()`, and `consume()`. Bytes are stamps of their
position in the stream; fresh memory holds `Junk`.

### Worker

`table` maps descriptors to their owner, and a client connects at most once, so an
event that reaches the wrong connection is visible. `accept4()` takes the lowest free
descriptor. `batch` is what `epoll_wait()`
returned; each event is one step, and clients act between any two. Clocks are ages, and
time passes only while the worker is blocked in `epoll_wait()`: handlers take no time.
A client acts at most once per time unit. `EpollWait` returns at an event or at its
timeout; `EndBatch` is the sweep and the test that leaves the loop. Faults:
ECONNABORTED, EMFILE (the descriptors are shared with other threads), a failing
`epoll_ctl()`. EINTR repeats the wait and its other errors cannot occur with valid
arguments; both are left out.

### Server

One action per step of `main()`; `start()` may throw at each worker it creates or
launches, after which `main()` returns and the destructor stops and joins what there is.
A blocked signal stays pending, an unblocked one kills the process, and so does SIGPIPE
unless it is ignored. `stop()` may find workers that have no thread, whose eventfd is
then written and never read.

### Metrics

`bump()` is a load and a store. A scrape runs in one worker and loads every counter
once, and `connections_accepted` a second time for the gauge (`Gauge`), in any order,
since the loads are relaxed; only two loads of one counter keep their order. The
scraper's own block stands still meanwhile. A request takes some number of steps of the
steady clock, `Tick` of them a microsecond, and begins anywhere within a microsecond;
`Latency` is the difference of the two clock values that `mono_us()` cuts off to
microseconds, and `samples` keeps how long it really took. `truth` is what was counted, taken at the store. Counters that no property
relates to another (bytes, errors, wake-ups, status classes) are left out.

### LoadGen

A response is its head and `Length` body units, numbered by the request it belongs to;
the program only has positions, and the numbers show whether they are the right ones.
The server buffers `ServerRoom` responses before it stops reading, and closes or resets
at any moment. A request is one unit. The program's exit at a response without
Content-Length is left out.

### Library

`MCLibrary` puts four machines next to each other, of which one run explores one.
`Router`: every sequence of registrations, dispatched for every method and path. Allow
is a sequence of names, and `Within` says which method names are substrings of others,
because `allow.find()` looks for a substring.
`HeaderFields`: every sequence of `set()`, `add()` and `remove()`; values are sequences
of characters, because commas and blanks decide what `has_token()` sees. `StaticFiles`:
paths built from pieces (dots, slashes, escapes whole and cut short, a NUL, a
backslash), compared with a walk down the directories; whether the root could be
opened and what the two opens of `serve()` find is arbitrary. `Routes` and `Crc32`: the producers with scaled sizes; a word is its
set of one bits, and the reference is the remainder of a polynomial division. `Routes` may call the
producer of an empty `/bytes/0`, which the server does not.

## 3. What TLC checks

| Run | Configuration | Distinct states | Checks |
|---|---|---|---|
| `connection_safety` | `MCConnection_safety` | 767,721 | `Framed`, `NoLostWakeup`, `BuffersBounded`, `OrderlyClose`, `LingerSurvives` |
| `connection_live` | `MCConnection_live` | 89,860 | `Answered`, `Completes` (liveness) |
| `parser` | `MCRequestSplit` | 144,416 | `LimitsHold`, `NeverStalls`, `SegmentationIndependent`, `FeedReturns` (liveness) |
| `buffer` | `MCByteBuffer` | 4,425 | `InBounds`, `CapacityBounded`, `PrepareReturns` (liveness), `FirstInFirstOut` (refinement) |
| `worker` | `MCWorker` | 147,077 | `TypeOK`, `Accounted`, `EventsMatch`, `DeadlinesKept`, `DrainBounded`, `StopEnds`, `Admitted` (liveness), `LifeKept` (refinement) |
| `server` | `MCServer` | 730 | `ListComplete`, `OrderlyExit`, `NotKilled`, `SignalEnds` (liveness) |
| `metrics` | `MCMetrics` | 722,638 | `PageIsCurrent`, `GaugeSane`, `BucketBounds` |
| `loadgen` | `MCLoadGen` | 56,549 | `OwnResponse`, `InFlight`, `LoopRuns` (liveness) |
| `library` | `MCLibrary` | 75,956 | `AllowAccurate`, `FirstRegistered` (action property), `TokensKept`, `SanitizeExact`, `EscapeBlind`, `ProducerContract`, `TrailerMatches` |

**Bounds.**

* Connection: two requests. Each of 13 kinds (inline, file, sized and unsized
  producer, HEAD, no body, HTTP/1.0, close, uploads with and without `Expect`, three
  kinds of rejected request) comes before a file, after an upload that expects 100
  Continue, and before a rejected request in a burst. Buffers of two or three units
  are no larger than a request and smaller than the larger responses, so every read
  and every write can be short, input can fill the buffer, and the low-water mark
  differs from one free unit.
* Parser: 30 bytes, segments of one to four; limits small enough for each to be met
  exactly and exceeded by one, and chunk sizes that wrap around `SizeMod`. A second
  parser is given the same bytes at once, at every point where the first has nothing
  left to do.
* Buffer: reads of two bytes, growth from a first allocation of one, and five stamps,
  more than the buffer can hold live at once.
* Worker: two clients, and three descriptors for them and the listener, of which other
  threads may hold the free ones (EMFILE). A descriptor closed earlier in a batch is reused by
  an accept later in it, and the event of a listener closed by the drain is still to come. Batches
  of two events are filled, and a batch of one accept ends with a client still queued. Timeouts of one unit and a tick of two make the sweep fall
  between, on and after a deadline.
* Server: three workers, so that `start()` can fail at the first, a middle and the last.
* Metrics: two interchangeable workers (`SYMMETRY` over model values that no
  definition tells apart), two events between them, one scrape; three buckets and two
  clock steps to a microsecond, with durations of none, one, one and a half and three
  microseconds. Latencies of 0, of 1 and 2, where a bound is met, and of 3 occur, so that
  every bucket is used, the open-ended one included, and a duration is rounded both ways;
  counters modulo 16.
* LoadGen: five requests in flight, more than sockets (two units each way) and server
  (one response) hold together, which is what makes a mutual wait possible; two failures.
* Library: three routes over three paths of which one is a prefix of another, for GET,
  LOCK and UNLOCK, the second of which is a substring of the third; two header names
  in two spellings; paths of up to five pieces; bodies of up to four pieces whose size is
  no multiple of the alphabet.

**Deadlock** is checked for the buffer. Elsewhere the system may really stop: a
connection, a worker and a process end, a parser stops after an error, the load
generator at its deadline, and the counters and library machines at their bound.

**Fairness.** Weak fairness of the code itself (`Connection!Worker`, `Feed`, `Take`,
`Prepare`, `Worker!Loop`, `Server!Main`, `LoadGen!Client`): threads keep executing, and
epoll returns an event that is queued. `WF(Advance)`: the clock runs while a worker
waits. `SF(AcceptOne \/ AcceptAborted)`: `accept4()` fails for want of descriptors only
for a while, since other threads hold them; `Admitted` would be false otherwise.
`WF(WorkerStep)` in `Server` is `StopEnds` of `Worker`. `WF(ClientSend)`,
`WF(ClientRead)`, `WF(ServerRead)` and `WF(ServerWrite)` are assumptions about the
peer: `Answered`, `Completes` and `LoopRuns` speak of peers that go on. Nothing is
assumed of timeouts, resets and failures, so they do not help to satisfy a property.

Every property of a passing run is violated by at least one small change to the model,
given as a `Faulty variant` next to the definition it alters.

### Where comments and code differ

Each of these has a run whose counterexample shows it.

* `connection_truncated_file`: after a short `sendfile()` of a truncated file the
  connection waits for an EPOLLOUT that does not come, though the socket is
  writable, until the idle timeout ends it. The comment on `drive()`
  (`server.cpp:313`) says it stops when the socket would block or there is nothing
  to do. Framing is not affected, and this is the only lost wake-up:
  `NoLostWakeup` makes it its one exception.
* `connection_drain`: "a response is never destroyed by an RST" (`README.md:16`) does
  not hold for an idle connection that a drain closes while its next request is in the
  kernel. For clients that have sent everything, `LingerSurvives` shows it.
* `sweep_overshoot`: a deadline can be overshot by a tick and by the wait that follows,
  about half of the timeout; the comment on `tick_us_` (`server.cpp:204`) says
  "at most ~25%". `DeadlinesKept` is the bound that holds. With the default timeouts the
  clamp of the tick to one second keeps the overshoot at about 20%; it exceeds 25% when
  the smaller timeout is below 8 s.

Seen while modelling, without a run of their own:

* a blank line between requests starts `request_start_us`, "first byte of the request
  being parsed; 0 = none" (`server.cpp:140`);
* a close-delimited body whose producer throws ends with a FIN, like a complete one
  (`server.cpp:550` speaks of aborting);
* a client still sending a rejected upload can lose the response to an RST, since the
  lingering close drains only what has arrived;
* `httpd_requests_total` is described as "Requests dispatched to a handler." and also
  counts rejected ones;
* the bucket rendered with `le` counts latencies below that bound, and the exposition
  format means those up to it: a latency of exactly 2^b microseconds goes to the next
  bucket. `BucketBounds` says how much that can matter: nothing longer than `le` is
  counted, and only what took within a microsecond of it is missed;
* `stop()` is declared thread-safe (`server.hpp:48`) and reads the list of workers that
  a concurrent `start()` would be changing; `main()` calls both from one thread;
* the load generator drops complete responses that arrive together with a FIN;
* `allow.find()` in the router is a substring test: once UNLOCK is listed, a route for
  LOCK is left out of Allow. `AllowAccurate` says that nothing else is left out. The
  program registers GET and POST, of which neither lies within the other.

## 4. What TLAPS proves

For every script, size, limit, stream, route table, latency, number of clients,
descriptors, workers and buckets, and all timeouts that meet the named assumptions:

| Theorem | Statement |
|---|---|
| `FramingCorrect`, `LingerKeepsResponses` | `Spec => [](TypeOK /\ Framed)`, `[]LingerSurvives` of `Connection` |
| `BuffersAreBounded`, `EndIsOrderly`, `WakeupsAreNotLost` | `Spec => []BuffersBounded`, `[]OrderlyClose`, `[]NoLostWakeup` |
| `ParserIsBounded`, `ParserDoesNotStall` | `Spec => [](TypeOK /\ LimitsHold)`, `[]NeverStalls` of `RequestParser` |
| `BufferIsSafe`, `BufferIsBounded` | `BufferSpec => [](BufferTypeOK /\ InBounds)`, `[]CapacityBounded` |
| `BufferIsQueue` | `BufferSpec => FirstInFirstOut` |
| `AllowIsAccurate`, `EarlierRoutesWin` | `RouterSpec => []AllowAccurate`, `FirstRegistered` |
| `CountersAgree`, `SweepKeepsDeadlines`, `DrainIsBounded` | `Spec => []Accounted`, `[]DeadlinesKept`, `[]DrainBounded` of `Worker` |
| `EventsAreNotMisdelivered`, `LoopIsTyped` | `Spec => []EventsMatch`, `[]TypeOK` |
| `WorkerImplementsLife` | `Spec => LifeKept` |
| `Types`, `ListIsComplete`, `ExitIsOrderly`, `SignalsDoNotKill` | `Spec => []TypeOK`, `[]ListComplete`, `[]OrderlyExit`, `[]NotKilled` of `Server` |
| `PagesAreCurrent`, `GaugeIsSane`, `BucketsAreBounded` | `MetricsSpec => []PageIsCurrent`, `[]GaugeSane`, `[]BucketBounds` |

* *Framing.* `Framed` says nothing of what comes next, so it is not inductive.
  `SourceInv` ties `left` to the index of the last unit emitted while a body is in
  flight, `BetweenInv` says where the output ends between two responses,
  `ClosingInv` that a response announcing the close is the last, and `ParserInv`
  that requests are dispatched only between responses.
* *Lingering close.* `LingerInv`: after end of file nothing arrives any more, and a
  client that sent everything before the first response unit sends nothing after it, so
  what the drain of the lingering close has emptied is empty when `close()` looks.
* *Wake-ups.* `KernelInv`: a direction the worker believes blocked is blocked, or an
  event is queued, or a truncated file was taken for a full socket. `TurnInv`: a
  turn without progress found nothing to read, parse or write.
* *Parser.* `BodyInv` ties what remains of a body to the state. Two assumptions
  matter: `SizeMod > 2 * MaxBodyBytes`, without which the sum of two sizes within
  the limit could wrap, and `MaxChunkLine + 1 < max_in_buffer`, since
  `max_in_buffer_` (`server.cpp:200`) takes no account of `max_chunk_line`. The
  defaults satisfy both; the code enforces neither.
* *Buffer.* `WorkInv` bounds `new_cap` in the doubling loop; the refinement maps
  `queue` to the readable region and shows that sliding and growing are stutters.
* *Route table.* `Known` says what `dispatch()` knows after the first `k` routes: whether
  one of them has a handler, and, if not, that Allow names only methods they have, each
  once, and that each of them is found in it (`Covers`). One turn of the loop keeps it
  (`VisitFacts`), since a method is appended only when it is not found (`FoundNames`).
  That registering keeps earlier answers follows from `ScanAppend`: the loop over a longer
  table ends with the new route. `RouterAssumption` says that a name lies within itself,
  and that no route is registered for HEAD, which is how the program uses `add()`; the
  code does not enforce it.
* *Worker.* The deadlines follow from `Clocks`: a connection's age beyond its timeout
  is at most the time since the last sweep that could have closed it, and that time
  is below a tick plus what the worker has waited. So `since_sweep` and `waited` enter
  the invariant together with the place in `run()` (`Stages`), and the same shape
  bounds `drain_age`. `Unused` gives a client fresh clocks when it is accepted. `Accounted` rests on
  the cardinality of the set a sweep closes. The assumption `Milli <= MinTick` is the code's lower clamp on the tick.
* *Events.* `BatchInv`: a batch has one event per descriptor, and a descriptor is closed
  only while its own event is handled, so the events that are left are for open
  descriptors; the exception is the listener, which a drain closes, and after that
  nothing is accepted that could reuse its number. It needs `ReadyInv`: each descriptor
  is on the ready list at most once, and only while it is open.
* *Refinement.* `life` is read off `pc` and `draining`, `open` off `table`; accepting is
  `Admit`, the sweep, a closing event and the wake-up of a drain are `Release` and
  `Drain`, the final loop is `End`, and all other steps stutter.
* *Server.* `Progress` says how far the lists have come at each place of `main()`,
  `Threads` that a thread which is not joinable never ran or has ended, `SignalsOff` that the mask and the disposition of
  SIGPIPE precede every thread.

* *Metrics.* `WriterInv`: a counter is what was counted, since only its owner stores to it
  and a bump at work has loaded the current value; no worker has closed more than it
  accepted; and no counter wraps, because each event adds at most `MaxLatency` (part of
  `MetricsAssumption`: 64 bits outlast any uptime). `ScrapeInv`: what a scrape has loaded
  lies between the value when it began and the value now. The step from one counter to
  the totals and cumulative buckets is `SumMono` and `CumulativeGrows`; `BucketBounds`
  is kept because one bump of a bucket raises exactly the cumulative counts whose bound
  lies above the latency (`BucketFacts`, `CumulativeStep`), and the latency is within a
  microsecond of the duration (`LatencyFacts`), so that the counts of responses that took
  at most `2^b - 1` and at most `2^b` microseconds stay on either side (`AtMostStep`).

**Recursion.** `Keep` (ready list), `Scan` (routes) and the library's sums are recursive
functions. That such a function exists and obeys its equation is proved by induction in
the form "a set of numbers that contains 0 and every successor is `Nat`" (`Induct`,
from the well-foundedness of `<`), since the library's induction rules take an operator
as parameter. Facts about `2^n` come from `FS_SUBSET` of the library
(`Cardinality(SUBSET S) = 2^Cardinality(S)`); the library's own proof of it takes
`2^(n+1) = 2^n + 2^n` for granted, so `BucketsAreBounded` rests on that equation.

**Only model-checked:** the liveness properties (fairness and ENABLED are out of the
prover's reach); `SegmentationIndependent`, which compares two runs of the parser;
`OwnResponse` and `InFlight` of the load generator, the latter counting with
`SelectSeq`, which the provers do not interpret; and what the header container, the
path sanitizer, the producers and the CRC compute, which are recursive definitions over
characters and bits.

## 5. Not modelled

* Message texts, dates, MIME types, logging, CPU pinning and the option parsing of the
  two programs: no state depends on them.
* `UniqueFd`: its effect is the close of a connection, listener or file.
* `openat2()` and the file system: what an open may find is arbitrary in `StaticFiles`.
* Handlers that build a constant or echo the request; `Connection` covers every kind of
  response a handler can build.
* The random generator of the fuzz target. Its oracle is `SegmentationIndependent`.
* Threads and the final report of the load generator: its workers share nothing.
* The composition of a full `Connection` with `Worker`: the product is out of TLC's
  reach, which is why `Worker` sees a connection through the phases `drive()` leaves.
