------------------------------- MODULE Server -------------------------------
(***************************************************************************)
(* The life of the process (src/main.cpp) and of its Server                *)
(* (src/server/server.cpp): main() blocks the signals, start() creates and *)
(* launches the workers and may fail at each of them, main() waits for a   *)
(* signal, stop() and wait() end the workers, and the destructor does both *)
(* again.  Each worker is reduced to what WorkerLife promises of it.       *)
(***************************************************************************)
EXTENDS Integers

CONSTANTS
  N,        \* cfg_.threads
  Signals,  \* SIGINT, SIGTERM
  Faults    \* "create": a listener, epoll or eventfd cannot be had; "thread": no
            \*   thread; "pipe": a client leaves in the middle of a sendfile()

ASSUME ConstantsAssumption == N \in Nat \ {0}

Workers == 1..N

VARIABLES
  pc,                \* where main() is
  next,              \* the worker its loop is at
  created,           \* workers_.size()
  life,              \* each worker's thread: "none", "serving", "draining", "gone"
  joinable, wake,    \* thread_.joinable(); the eventfd is readable
  blocked, ignored,  \* the signal mask every thread inherits; SIGPIPE is ignored
  pending, killed,   \* signals not yet taken; the process died of one
  status             \* exit status, -1 while running

mainVars == <<pc, next, created, status>>
threadVars == <<life, joinable, wake>>
signalVars == <<blocked, ignored, pending, killed>>
vars == <<mainVars, threadVars, signalVars>>

-----------------------------------------------------------------------------
(* main() and Server::start().                                             *)

\* Faulty variant: the signals are left to their default action.
BlockSignals_Never ==
  /\ pc = "main" /\ pc' = "start"
  /\ UNCHANGED <<next, created, status, threadVars, signalVars>>

BlockSignals ==
  /\ pc = "main" /\ pc' = "start" /\ blocked' = TRUE
  /\ UNCHANGED <<next, created, status, threadVars, ignored, pending, killed>>

\* start() enters with an empty workers_.
StartBegin ==
  /\ pc = "start" /\ pc' = "create" /\ next' = 1 /\ ignored' = TRUE
  /\ UNCHANGED <<created, status, threadVars, blocked, pending, killed>>

\* Faulty variant: each worker is launched as soon as it exists.
CreateWorker_Launches ==
  /\ pc = "create"
  /\ created' = created + 1
  /\ life' = [life EXCEPT ![next] = "serving"] /\ joinable' = [joinable EXCEPT ![next] = TRUE]
  /\ IF next = N THEN pc' = "sigwait" /\ next' = 1 ELSE next' = next + 1 /\ UNCHANGED pc
  /\ UNCHANGED <<status, wake, signalVars>>

\* make_listener and the constructor of a worker, up to push_back.
CreateWorker ==
  /\ pc = "create"
  /\ created' = created + 1
  /\ IF next = N THEN pc' = "launch" /\ next' = 1 ELSE next' = next + 1 /\ UNCHANGED pc
  /\ UNCHANGED <<status, threadVars, signalVars>>

\* The second loop of start().
LaunchWorker ==
  /\ pc = "launch"
  /\ life' = [life EXCEPT ![next] = "serving"] /\ joinable' = [joinable EXCEPT ![next] = TRUE]
  /\ IF next = N THEN pc' = "sigwait" /\ next' = 1 ELSE next' = next + 1 /\ UNCHANGED pc
  /\ UNCHANGED <<created, status, wake, signalVars>>

\* start() throws; main() reports it, and returning destroys the server.
StartFails ==
  /\ \/ pc = "create" /\ "create" \in Faults
     \/ pc = "launch" /\ "thread" \in Faults
  /\ status' = 1 /\ pc' = "~stop" /\ next' = 1
  /\ UNCHANGED <<created, threadVars, signalVars>>

SigWait ==
  /\ pc = "sigwait"
  /\ \E s \in pending : pending' = pending \ {s}
  /\ pc' = "stop" /\ next' = 1
  /\ UNCHANGED <<created, status, threadVars, blocked, ignored, killed>>

-----------------------------------------------------------------------------
(* stop() and wait(), called by main() and again by the destructor.        *)

\* Faulty variant: the destructor does not wait.
After_NoJoin(p) ==
  CASE p = "stop" -> "wait" [] p = "wait" -> "~stop" [] OTHER -> "exit"

After(p) ==
  CASE p = "stop" -> "wait" [] p = "wait" -> "~stop" [] p = "~stop" -> "~wait" [] OTHER -> "exit"

\* Faulty variant: stop() passes over the last worker.
StopNext_OffByOne ==
  /\ pc \in {"stop", "~stop"}
  /\ IF next < created
     THEN wake' = [wake EXCEPT ![next] = TRUE] /\ next' = next + 1 /\ UNCHANGED pc
     ELSE pc' = After(pc) /\ next' = 1 /\ UNCHANGED wake
  /\ UNCHANGED <<created, status, life, joinable, signalVars>>

\* Worker::request_stop() for each worker.
StopNext ==
  /\ pc \in {"stop", "~stop"}
  /\ IF next <= created
     THEN wake' = [wake EXCEPT ![next] = TRUE] /\ next' = next + 1 /\ UNCHANGED pc
     ELSE pc' = After(pc) /\ next' = 1 /\ UNCHANGED wake
  /\ UNCHANGED <<created, status, life, joinable, signalVars>>

\* Worker::join() for each worker: blocks until its thread has ended.
JoinNext ==
  /\ pc \in {"wait", "~wait"}
  /\ IF next <= created
     THEN /\ joinable[next] => life[next] = "gone"
          /\ joinable' = [joinable EXCEPT ![next] = FALSE]
          /\ next' = next + 1 /\ UNCHANGED pc
     ELSE pc' = After(pc) /\ next' = 1 /\ UNCHANGED joinable
  /\ UNCHANGED <<created, status, life, wake, signalVars>>

\* main() returns: 0, or 1 after a failed start().
Exit ==
  /\ pc = "exit" /\ pc' = "returned"
  /\ status' = IF status = 1 THEN 1 ELSE 0
  /\ UNCHANGED <<next, created, threadVars, signalVars>>

-----------------------------------------------------------------------------
(* The workers, as WorkerLife describes them, and signals.                 *)

WorkerDrain(w) ==
  /\ life[w] = "serving" /\ wake[w]
  /\ life' = [life EXCEPT ![w] = "draining"] /\ wake' = [wake EXCEPT ![w] = FALSE]
  /\ UNCHANGED <<mainVars, joinable, signalVars>>

WorkerEnd(w) ==
  /\ life[w] = "draining"
  /\ life' = [life EXCEPT ![w] = "gone"]
  /\ UNCHANGED <<mainVars, joinable, wake, signalVars>>

\* A blocked signal stays pending; otherwise its default action ends the process.
Signal(s) ==
  /\ s \notin pending
  /\ IF blocked THEN pending' = pending \cup {s} /\ UNCHANGED killed
     ELSE killed' = TRUE /\ UNCHANGED pending
  /\ UNCHANGED <<mainVars, threadVars, blocked, ignored>>

BrokenPipe(w) ==
  /\ "pipe" \in Faults /\ life[w] \in {"serving", "draining"}
  /\ killed' = ~ignored
  /\ UNCHANGED <<mainVars, threadVars, blocked, ignored, pending>>

Init ==
  /\ pc = "main" /\ next = 1 /\ created = 0 /\ status = -1
  /\ life = [w \in Workers |-> "none"] /\ joinable = [w \in Workers |-> FALSE]
  /\ wake = [w \in Workers |-> FALSE]
  /\ blocked = FALSE /\ ignored = FALSE /\ pending = {} /\ killed = FALSE

Main ==
  \/ BlockSignals \/ StartBegin \/ CreateWorker \/ LaunchWorker \/ StartFails
  \/ SigWait \/ StopNext \/ JoinNext \/ Exit

WorkerStep(w) == WorkerDrain(w) \/ WorkerEnd(w)

\* Nothing happens in a process that was killed or has returned.
Next ==
  /\ ~killed /\ pc # "returned"
  /\ \/ Main
     \/ \E w \in Workers : WorkerStep(w) \/ BrokenPipe(w)
     \/ \E s \in Signals : Signal(s)

Spec == Init /\ [][Next]_vars

\* Every thread keeps running; a worker that was told to stop ends (Worker, StopEnds).
FairSpec == Spec /\ WF_vars(Next /\ Main) /\ \A w \in Workers : WF_vars(Next /\ WorkerStep(w))

-----------------------------------------------------------------------------
(* Properties.                                                             *)

\* Every variable of the process keeps its type.
TypeOK ==
  /\ pc \in {"main", "start", "create", "launch", "sigwait", "stop", "wait", "~stop", "~wait",
             "exit", "returned"}
  /\ next \in 1..(N + 1) /\ created \in 0..N /\ status \in {-1, 0, 1}
  /\ life \in [Workers -> {"none", "serving", "draining", "gone"}]
  /\ joinable \in [Workers -> BOOLEAN] /\ wake \in [Workers -> BOOLEAN]
  /\ blocked \in BOOLEAN /\ ignored \in BOOLEAN /\ pending \subseteq Signals
  /\ killed \in BOOLEAN

\* A worker serves requests, /metrics among them, only while workers_ is complete, so
\* metrics_text() never walks a list that start() is still filling.
ListComplete == \A w \in Workers : life[w] # "none" => created = N

\* No thread outlives the Server, and no joinable std::thread is destroyed, also when
\* start() failed with some workers created and some of them running; main() returns
\* 0 only after all workers have served and ended.
OrderlyExit ==
  pc \in {"exit", "returned"} =>
    /\ \A w \in Workers : life[w] \in {"none", "gone"} /\ ~joinable[w]
    /\ status # 1 => \A w \in Workers : life[w] = "gone"

\* Once main() has blocked the signals, neither a signal nor a client that disconnects
\* kills the process: workers inherit the mask, SIGPIPE is ignored before they run.
NotKilled == pc # "main" => ~killed

\* A signal that arrives at any moment after that, also before sigwait() and while
\* start() fails, makes main() return.
SignalEnds == pending # {} ~> pc = "returned"

=============================================================================
