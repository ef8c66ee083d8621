---------------------------- MODULE ServerProofs ----------------------------
(***************************************************************************)
(* The start and the end of the process, for any number of workers.        *)
(*                                                                         *)
(* OrderlyExit is not inductive: that no thread is left at the end follows *)
(* from which workers exist, run and are joined at each place of main(),   *)
(* which is what Progress says.                                            *)
(*                                                                         *)
(* The second half is about what main() and the workers share with a       *)
(* scrape: sums over workers and buckets, and the buckets of a latency.    *)
(***************************************************************************)
EXTENDS Server, Metrics, FiniteSetTheorems, TLAPS

Ending == {"~stop", "~wait", "exit", "returned"}

\* What main() has done to the workers when it is at pc.
Progress ==
  /\ pc \in {"main", "start"} => created = 0 /\ next = 1
  /\ pc = "create" => next = created + 1 /\ next <= N
  /\ pc = "launch" => created = N /\ next <= N
  /\ pc \in {"sigwait", "stop", "wait"} => created = N
  /\ pc \in {"main", "start", "create"} => \A w \in Workers : life[w] = "none"
  /\ pc = "launch" => \A w \in Workers : life[w] = "none" <=> w >= next
  /\ pc \in {"sigwait", "stop", "wait"} => \A w \in Workers : life[w] # "none"
  /\ pc \in {"wait", "~wait"} => \A w \in Workers : w < next => ~joinable[w]
  /\ pc \in {"exit", "returned"} => \A w \in Workers : ~joinable[w]
  /\ pc \notin Ending => status = -1
  /\ pc \in Ending /\ status # 1 => created = N /\ \A w \in Workers : life[w] = "gone"

\* A worker beyond created does not exist; one whose thread is not joinable has none, or
\* its thread has ended.
Threads ==
  \A w \in Workers : /\ life[w] # "none" => w <= created
                     /\ ~joinable[w] => life[w] \in {"none", "gone"}
                     /\ joinable[w] => life[w] # "none"

\* Signals are dealt with before any worker runs.
SignalsOff ==
  /\ pc # "main" => blocked
  /\ pc \notin {"main", "start"} => ignored
  /\ killed => pc = "main"

IInv == TypeOK /\ Progress /\ Threads /\ SignalsOff /\ ListComplete

\* The invariant holds when main() begins.
LEMMA InitInv == Init => IInv
<1> SUFFICES ASSUME Init PROVE IInv
  OBVIOUS
<1> USE ConstantsAssumption DEF Init, Workers
<1>1. TypeOK
  <2>1. status \in {-1, 0, 1} /\ next \in 1..(N + 1) /\ created \in 0..N
    OBVIOUS
  <2> QED
    BY <2>1, Zenon DEF TypeOK
<1>2. Progress
  BY DEF Progress, Ending
<1>3. Threads /\ SignalsOff /\ ListComplete
  BY DEF Threads, SignalsOff, ListComplete
<1> QED
  BY <1>1, <1>2, <1>3 DEF IInv

\* Every step of main(), of a worker, and every signal keeps the invariant.
LEMMA StepInv == IInv /\ [Next]_vars => IInv'
<1> USE ConstantsAssumption DEF Workers
<1> SUFFICES ASSUME IInv, [Next]_vars PROVE IInv'
  OBVIOUS
<1> USE DEF IInv
<1>1. CASE UNCHANGED vars
  BY <1>1 DEF vars, mainVars, threadVars, signalVars, TypeOK, Progress, Threads, SignalsOff,
     ListComplete, Ending
<1>2. ASSUME ~killed, BlockSignals PROVE IInv'
  <2> USE <1>2 DEF BlockSignals, threadVars
  <2>1. TypeOK'
    BY DEF TypeOK, Progress
  <2>2. Progress'
    BY DEF TypeOK, Progress, Threads, Ending
  <2>3. Threads' /\ ListComplete'
    BY DEF TypeOK, Threads, ListComplete
  <2>4. SignalsOff'
    BY DEF SignalsOff
  <2> QED
    BY <2>1, <2>2, <2>3, <2>4
<1>3. CASE StartBegin
  BY <1>3 DEF StartBegin, threadVars, TypeOK, Progress, Threads, SignalsOff, ListComplete, Ending
<1>4. CASE CreateWorker
  BY <1>4 DEF CreateWorker, threadVars, signalVars, TypeOK, Progress, Threads, SignalsOff,
     ListComplete, Ending
<1>5. CASE LaunchWorker
  BY <1>5 DEF LaunchWorker, signalVars, TypeOK, Progress, Threads, SignalsOff,
     ListComplete, Ending
<1>6. CASE StartFails
  BY <1>6 DEF StartFails, threadVars, signalVars, TypeOK, Progress, Threads, SignalsOff,
     ListComplete, Ending
<1>7. CASE SigWait
  BY <1>7 DEF SigWait, threadVars, TypeOK, Progress, Threads, SignalsOff, ListComplete, Ending
<1>8. CASE StopNext
  <2> USE <1>8 DEF StopNext, After, signalVars
  <2>1. TypeOK'
    <3>1. next' \in 1..(N + 1) /\ (next <= created => next \in Workers)
      BY DEF TypeOK
    <3>2. wake' \in [Workers -> BOOLEAN]
      BY <3>1, ZenonT(40) DEF TypeOK
    <3>3. pc' \in {"stop", "wait", "~stop", "~wait", "exit"}
      OBVIOUS
    <3> QED
      BY <3>1, <3>2, <3>3 DEF TypeOK
  <2>2. Progress'
    BY DEF TypeOK, Progress, Threads, Ending
  <2>3. Threads' /\ ListComplete'
    BY DEF TypeOK, Threads, ListComplete
  <2>4. SignalsOff'
    BY DEF SignalsOff
  <2> QED
    BY <2>1, <2>2, <2>3, <2>4
<1>9. CASE JoinNext
  <2> USE <1>9 DEF JoinNext, After, signalVars
  <2>1. TypeOK'
    <3>1. next' \in 1..(N + 1) /\ (next <= created => next \in Workers)
      BY DEF TypeOK
    <3>2. joinable' \in [Workers -> BOOLEAN]
      BY <3>1, ZenonT(40) DEF TypeOK
    <3>3. pc' \in {"stop", "wait", "~stop", "~wait", "exit"}
      OBVIOUS
    <3> QED
      BY <3>1, <3>2, <3>3 DEF TypeOK
  <2>2. Progress'
    BY SMTT(30) DEF TypeOK, Progress, Threads, Ending
  <2>3. Threads' /\ ListComplete'
    BY ZenonT(40) DEF TypeOK, Threads, ListComplete
  <2>4. SignalsOff'
    BY DEF SignalsOff
  <2> QED
    BY <2>1, <2>2, <2>3, <2>4
<1>10. CASE Exit
  BY <1>10 DEF Exit, threadVars, signalVars, TypeOK, Progress, Threads, SignalsOff,
     ListComplete, Ending
<1>11. ASSUME NEW w \in Workers, WorkerDrain(w) PROVE IInv'
  BY <1>11 DEF WorkerDrain, mainVars, signalVars, TypeOK, Progress, Threads, SignalsOff,
     ListComplete, Ending
<1>12. ASSUME NEW w \in Workers, WorkerEnd(w) PROVE IInv'
  BY <1>12 DEF WorkerEnd, mainVars, signalVars, TypeOK, Progress, Threads, SignalsOff,
     ListComplete, Ending
<1>13. ASSUME NEW w \in Workers, BrokenPipe(w) PROVE IInv'
  BY <1>13 DEF BrokenPipe, mainVars, threadVars, TypeOK, Progress, Threads, SignalsOff,
     ListComplete, Ending
<1>14. ASSUME NEW s \in Signals, Signal(s), ~killed PROVE IInv'
  BY <1>14, ZenonT(40) DEF Signal, mainVars, threadVars, TypeOK, Progress, Threads, SignalsOff,
     ListComplete, Ending
<1> QED
  BY <1>1, <1>2, <1>3, <1>4, <1>5, <1>6, <1>7, <1>8, <1>9, <1>10, <1>11, <1>12, <1>13, <1>14
  DEF Next, Main, WorkerStep

\* What holds of every reachable state of the process.
LEMMA Invariant == Spec => []IInv
BY InitInv, StepInv, PTL DEF Spec

\* Every variable keeps its type, for any number of workers.
THEOREM Types == Spec => []TypeOK
BY Invariant, PTL DEF IInv

\* For any number of workers, none of them runs before workers_ is complete, so that
\* metrics_text() reads a list that no longer changes.
THEOREM ListIsComplete == Spec => []ListComplete
BY Invariant, PTL DEF IInv

\* For any number of workers, and wherever start() fails, every thread has ended and is
\* joined when the Server is destroyed.
THEOREM ExitIsOrderly == Spec => []OrderlyExit
<1>1. IInv => OrderlyExit
  BY DEF IInv, TypeOK, Progress, Threads, OrderlyExit, Ending
<1> QED
  BY Invariant, <1>1, PTL

\* No signal and no broken pipe kills the process once main() has blocked the signals.
THEOREM SignalsDoNotKill == Spec => []NotKilled
<1>1. IInv => NotKilled
  BY DEF IInv, SignalsOff, NotKilled
<1> QED
  BY Invariant, <1>1, PTL

-----------------------------------------------------------------------------
(* What the counters of the workers are computed with: sums, and powers of *)
(* two.  Proofs by induction are stated of sets.                           *)

\* A set of natural numbers has a least element.
LEMMA Least ==
  ASSUME NEW T \in SUBSET Nat, T # {}
  PROVE  \E n \in T : \A m \in T : n <= m
<1>1. \E x \in T : \A y \in T : ~ (<<y, x>> \in OpToRel(<,Nat))
  BY NatLessThanWellFounded, WFMin, Zenon
<1>2. OpToRel(<,Nat) = {ss \in Nat \X Nat : ss[1] < ss[2]}
  BY Zenon DEF OpToRel
<1>3. PICK x \in T : \A y \in T : ~ (<<y, x>> \in {ss \in Nat \X Nat : ss[1] < ss[2]})
  BY <1>1, <1>2, Zenon
<1>4. \A y \in T : ~(y < x)
  BY <1>3, Zenon
<1> QED BY <1>4

\* Induction, stated of the set of the numbers for which something holds.
LEMMA Induct ==
  ASSUME NEW T \in SUBSET Nat, 0 \in T, \A n \in T : n + 1 \in T
  PROVE  T = Nat
<1> DEFINE U == Nat \ T
<1>1. SUFFICES ASSUME U # {} PROVE FALSE   BY Zenon
<1>2. PICK n \in U : \A m \in U : n <= m   BY <1>1, Least, Zenon
<1>3. n # 0 /\ n - 1 \in Nat /\ n - 1 \notin U   BY <1>2
<1> QED BY <1>3

\* The element that a fold takes next.
Some(s) == CHOOSE x \in s : TRUE

\* Smaller subsets by removing the chosen element.
LEMMA Remove ==
  ASSUME NEW S, IsFiniteSet(S), NEW s \in SUBSET S, s # {}, NEW n \in Nat, Cardinality(s) <= n + 1
  PROVE  s \ {Some(s)} \in SUBSET S /\ Cardinality(s \ {Some(s)}) <= n
<1>1. Some(s) \in s
  BY Zenon DEF Some
<1>2. IsFiniteSet(s)
  BY FS_Subset, Zenon
<1>3. Cardinality(s \ {Some(s)}) = Cardinality(s) - 1
  BY <1>1, <1>2, FS_RemoveElement, Zenon
<1>4. Cardinality(s) \in Nat
  BY <1>2, FS_CardinalityType, Zenon
<1> QED
  BY <1>3, <1>4

\* p holds the partial sums of f.
Partial(p, f, S) ==
  /\ SumFunctionOnSet(f, S) = p[S] /\ p[{}] = 0
  /\ \A s \in SUBSET S : s # {} => p[s] = f[Some(s)] + p[s \ {Some(s)}]

\* What the library's recursive sum computes: the partial sums exist, one term at a time.
LEMMA SumSteps ==
  ASSUME NEW S, IsFiniteSet(S), NEW f
  PROVE  \E p : Partial(p, f, S)
<1> DEFINE Pick(g, s) == IF s = {} THEN 0 ELSE f[Some(s)] + g[s \ {Some(s)}]
           Small(n) == {s \in SUBSET S : Cardinality(s) <= n}
           Rec(g, n) == g = [s \in Small(n) |-> Pick(g, s)]
           Sizes == {n \in Nat : \E g : Rec(g, n)}
<1>0. \A s \in SUBSET S : IsFiniteSet(s) /\ Cardinality(s) \in Nat /\ (Cardinality(s) = 0 <=> s = {})
  BY FS_Subset, FS_CardinalityType, FS_EmptySet
<1>1. 0 \in Sizes
  <2> DEFINE g == [s \in Small(0) |-> 0]
  <2>1. \A s \in Small(0) : s = {}
    BY <1>0
  <2>2. Rec(g, 0)
    BY <2>1
  <2>3. \E k : Rec(k, 0)
    <3> HIDE DEF g, Rec
    <3> QED BY <2>2
  <2> HIDE DEF Rec
  <2> QED
    BY <2>3
<1>2. ASSUME NEW n \in Sizes PROVE n + 1 \in Sizes
  <2>1. PICK g : Rec(g, n)
    BY Zenon
  <2>0. n \in Nat
    OBVIOUS
  <2> DEFINE h == [s \in Small(n + 1) |-> IF Cardinality(s) <= n THEN g[s] ELSE Pick(g, s)]
  <2>2. ASSUME NEW s \in Small(n + 1) PROVE h[s] = Pick(h, s)
    <3>0. s \in SUBSET S /\ Cardinality(s) <= n + 1 /\ Cardinality(s) \in Nat
      BY <1>0
    <3>1. CASE s = {}
      <4>1. Cardinality(s) <= n /\ s \in Small(n)
        BY <1>0, <2>0, <3>0, <3>1
      <4>2. h[s] = g[s] /\ g[s] = Pick(g, s)
        BY <2>1, <4>1, Zenon
      <4> QED
        BY <3>1, <4>2
    <3>2. CASE s # {}
      <4>1. s \ {Some(s)} \in Small(n)
        BY <2>0, <3>0, <3>2, Remove
      <4>2. s \ {Some(s)} \in Small(n + 1) /\ Cardinality(s \ {Some(s)}) <= n
        BY <1>0, <2>0, <4>1
      <4>3. h[s \ {Some(s)}] = g[s \ {Some(s)}]
        BY <4>2
      <4>4. h[s] = Pick(g, s)
        <5>1. CASE Cardinality(s) <= n
          <6>1. s \in Small(n) /\ h[s] = g[s]
            BY <3>0, <5>1
          <6> QED
            BY <2>1, <6>1, Zenon
        <5>2. CASE ~(Cardinality(s) <= n)
          BY <5>2
        <5> QED
          BY <5>1, <5>2
      <4> QED
        BY <3>2, <4>3, <4>4
    <3> QED
      BY <3>1, <3>2
  <2>3. Rec(h, n + 1)
    BY <2>2, Zenon
  <2>4. \E k : Rec(k, n + 1)
    <3> HIDE DEF h, Rec
    <3> QED BY <2>3
  <2> HIDE DEF Rec
  <2> QED
    BY <2>0, <2>4
<1>3. Sizes = Nat
  <2>1. Sizes \in SUBSET Nat
    OBVIOUS
  <2> HIDE DEF Sizes
  <2> QED
    BY <1>1, <1>2, <2>1, Induct, Zenon
<1>4. \E g : g = [s \in SUBSET S |-> Pick(g, s)]
  <2>1. Cardinality(S) \in Sizes
    BY <1>0, <1>3, Zenon
  <2>2. PICK g : Rec(g, Cardinality(S))
    BY <2>1, Zenon
  <2>3. Small(Cardinality(S)) = SUBSET S
    <3>1. \A s \in SUBSET S : Cardinality(s) <= Cardinality(S)
      BY FS_Subset, FS_CardinalityType
    <3> QED
      BY <3>1, Zenon
  <2>4. g = [s \in SUBSET S |-> Pick(g, s)]
    BY <2>2, <2>3, Zenon
  <2> QED
    BY <2>4, Zenon
<1> DEFINE p == CHOOSE g : g = [s \in SUBSET S |-> Pick(g, s)]
<1>5. p = [s \in SUBSET S |-> Pick(p, s)]
  BY <1>4, Zenon
<1>6. SumFunctionOnSet(f, S) = p[S]
  BY Zenon DEF SumFunctionOnSet, FoldFunctionOnSet, MapThenFoldSet, Some
<1>7. \A s \in SUBSET S : p[s] = Pick(p, s)
  BY <1>5, Zenon
<1> HIDE DEF p
<1>8. Partial(p, f, S)
  BY <1>6, <1>7, Zenon DEF Partial
<1> QED
  BY <1>8

\* Induction over the subsets of a finite set.
LEMMA SubsetInduct ==
  ASSUME NEW S, IsFiniteSet(S), NEW T \in SUBSET SUBSET S, {} \in T,
         \A s \in SUBSET S : s # {} /\ s \ {Some(s)} \in T => s \in T
  PROVE  S \in T
<1> DEFINE Sizes == {n \in Nat : \A s \in SUBSET S : Cardinality(s) <= n => s \in T}
<1>0. \A s \in SUBSET S : IsFiniteSet(s) /\ Cardinality(s) \in Nat /\ (Cardinality(s) = 0 <=> s = {})
  BY FS_Subset, FS_CardinalityType, FS_EmptySet
<1>1. 0 \in Sizes
  BY <1>0
<1>2. ASSUME NEW n \in Sizes PROVE n + 1 \in Sizes
  <2>1. SUFFICES ASSUME NEW s \in SUBSET S, Cardinality(s) <= n + 1, s # {} PROVE s \in T
    OBVIOUS
  <2>2. s \ {Some(s)} \in T
    BY <2>1, Remove
  <2> QED
    BY <2>1, <2>2
<1>3. Sizes = Nat
  <2>1. Sizes \in SUBSET Nat
    OBVIOUS
  <2> HIDE DEF Sizes
  <2> QED
    BY <1>1, <1>2, <2>1, Induct, Zenon
<1>4. S \in SUBSET S /\ Cardinality(S) \in Sizes
  BY <1>0, <1>3
<1> QED
  BY <1>0, <1>4

\* A sum of natural numbers is one.
LEMMA SumNat ==
  ASSUME NEW S, IsFiniteSet(S), NEW f \in [S -> Nat]
  PROVE  SumFunction(f) \in Nat
<1>1. PICK p : Partial(p, f, S)
  BY SumSteps, Zenon
<1> DEFINE T == {s \in SUBSET S : p[s] \in Nat}
<1>2. {} \in T
  BY <1>1 DEF Partial
<1>3. ASSUME NEW s \in SUBSET S, s # {}, s \ {Some(s)} \in T PROVE s \in T
  <2>1. Some(s) \in S
    BY <1>3, Zenon DEF Some
  <2>2. f[Some(s)] \in Nat /\ p[s \ {Some(s)}] \in Nat
    BY <1>3, <2>1
  <2>3. p[s] = f[Some(s)] + p[s \ {Some(s)}]
    BY <1>1, <1>3 DEF Partial
  <2> QED
    BY <2>2, <2>3
<1>4. S \in T
  <2>1. T \in SUBSET SUBSET S
    OBVIOUS
  <2> HIDE DEF T
  <2> QED
    BY <1>2, <1>3, <2>1, SubsetInduct, Zenon
<1>5. SumFunction(f) = SumFunctionOnSet(f, S)
  BY Zenon DEF SumFunction, SumFunctionOnSet, FoldFunction, FoldFunctionOnSet
<1> QED
  BY <1>1, <1>4, <1>5 DEF Partial

\* The sum of termwise sums.
LEMMA SumAdd ==
  ASSUME NEW S, IsFiniteSet(S), NEW f \in [S -> Nat], NEW g \in [S -> Nat], NEW h \in [S -> Nat],
         \A x \in S : h[x] = f[x] + g[x]
  PROVE  SumFunction(h) = SumFunction(f) + SumFunction(g)
<1>1. PICK p : Partial(p, f, S)
  BY SumSteps, Zenon
<1>2. PICK q : Partial(q, g, S)
  BY SumSteps, Zenon
<1>3. PICK r : Partial(r, h, S)
  BY SumSteps, Zenon
<1> DEFINE T == {s \in SUBSET S : p[s] \in Nat /\ q[s] \in Nat /\ r[s] = p[s] + q[s]}
<1>4. {} \in T
  BY <1>1, <1>2, <1>3 DEF Partial
<1>5. ASSUME NEW s \in SUBSET S, s # {}, s \ {Some(s)} \in T PROVE s \in T
  <2>1. PICK x \in S : x = Some(s)
    BY <1>5, Zenon DEF Some
  <2>2. PICK t : t = s \ {Some(s)}
    BY Zenon
  <2>3. p[s] = f[x] + p[t] /\ q[s] = g[x] + q[t] /\ r[s] = h[x] + r[t]
    BY <1>1, <1>2, <1>3, <1>5, <2>1, <2>2, Zenon DEF Partial
  <2>4. p[t] \in Nat /\ q[t] \in Nat /\ r[t] = p[t] + q[t]
    BY <1>5, <2>2, Zenon
  <2>5. f[x] \in Nat /\ g[x] \in Nat /\ h[x] = f[x] + g[x]
    OBVIOUS
  <2> QED
    BY <2>3, <2>4, <2>5
<1>6. S \in T
  <2>1. T \in SUBSET SUBSET S
    OBVIOUS
  <2> HIDE DEF T
  <2> QED
    BY <1>4, <1>5, <2>1, SubsetInduct, Zenon
<1>7. SumFunction(f) = SumFunctionOnSet(f, S) /\ SumFunction(g) = SumFunctionOnSet(g, S)
      /\ SumFunction(h) = SumFunctionOnSet(h, S)
  BY Zenon DEF SumFunction, SumFunctionOnSet, FoldFunction, FoldFunctionOnSet
<1> QED
  BY <1>1, <1>2, <1>3, <1>6, <1>7 DEF Partial

\* A single one among zeros.
LEMMA SumPoint ==
  ASSUME NEW S, IsFiniteSet(S), NEW w \in S
  PROVE  SumFunction([x \in S |-> IF x = w THEN 1 ELSE 0]) = 1
<1> DEFINE f == [x \in S |-> IF x = w THEN 1 ELSE 0]
<1>1. PICK p : Partial(p, f, S)
  BY SumSteps, Zenon
<1> DEFINE T == {s \in SUBSET S : p[s] = IF w \in s THEN 1 ELSE 0}
<1>2. {} \in T
  BY <1>1 DEF Partial
<1>3. ASSUME NEW s \in SUBSET S, s # {}, s \ {Some(s)} \in T PROVE s \in T
  <2>1. PICK x \in S : x = Some(s) /\ x \in s
    BY <1>3, Zenon DEF Some
  <2>2. p[s] = f[x] + p[s \ {x}]
    BY <1>1, <1>3, <2>1, Zenon DEF Partial
  <2>3. p[s \ {x}] = IF w \in s \ {x} THEN 1 ELSE 0
    BY <1>3, <2>1, Zenon
  <2> QED
    BY <2>1, <2>2, <2>3
<1>4. S \in T
  <2>1. T \in SUBSET SUBSET S
    OBVIOUS
  <2> HIDE DEF T
  <2> QED
    BY <1>2, <1>3, <2>1, SubsetInduct, Zenon
<1>5. SumFunction(f) = SumFunctionOnSet(f, S)
  <2>1. DOMAIN f = S
    OBVIOUS
  <2> HIDE DEF f
  <2> QED
    BY <2>1, Zenon DEF SumFunction, SumFunctionOnSet, FoldFunction, FoldFunctionOnSet
<1> QED
  BY <1>1, <1>4, <1>5 DEF Partial

\* g is f with one more at w.
OneMore(f, g, S, w) == \A x \in S : g[x] = IF x = w THEN f[x] + 1 ELSE f[x]

\* One term grows by one, and so does the sum.
LEMMA SumStep ==
  ASSUME NEW S, IsFiniteSet(S), NEW f \in [S -> Nat], NEW w \in S, NEW g \in [S -> Nat],
         OneMore(f, g, S, w)
  PROVE  SumFunction(g) = SumFunction(f) + 1
<1>1. PICK d : d = [x \in S |-> IF x = w THEN 1 ELSE 0]
  BY Zenon
<1>2. d \in [S -> Nat] /\ \A x \in S : g[x] = f[x] + d[x]
  BY <1>1 DEF OneMore
<1>3. SumFunction(d) = 1
  BY <1>1, SumPoint
<1>4. SumFunction(g) = SumFunction(f) + SumFunction(d)
  BY <1>2, SumAdd
<1> QED
  BY <1>3, <1>4

\* Larger terms, a larger sum.
LEMMA SumMono ==
  ASSUME NEW S, IsFiniteSet(S), NEW f \in [S -> Nat], NEW g \in [S -> Nat],
         \A x \in S : f[x] <= g[x]
  PROVE  SumFunction(f) <= SumFunction(g)
<1>1. PICK d : d = [x \in S |-> g[x] - f[x]]
  BY Zenon
<1>2. d \in [S -> Nat] /\ \A x \in S : g[x] = f[x] + d[x]
  BY <1>1
<1>3. SumFunction(g) = SumFunction(f) + SumFunction(d)
  BY <1>2, SumAdd
<1>4. SumFunction(f) \in Nat /\ SumFunction(g) \in Nat /\ SumFunction(d) \in Nat
  BY <1>2, SumNat, Zenon
<1> QED
  BY <1>3, <1>4

\* A sum of zeros.
LEMMA SumZero ==
  ASSUME NEW S, IsFiniteSet(S)
  PROVE  SumFunction([x \in S |-> 0]) = 0
<1>1. PICK f : f = [x \in S |-> 0]
  BY Zenon
<1>2. f \in [S -> Nat] /\ \A x \in S : f[x] = f[x] + f[x]
  BY <1>1
<1>3. SumFunction(f) = SumFunction(f) + SumFunction(f)
  BY <1>2, SumAdd
<1>4. PICK n \in Nat : n = SumFunction(f)
  BY <1>2, SumNat, Zenon
<1>5. n = n + n
  BY <1>3, <1>4, Zenon
<1>6. n = 0
  BY <1>5
<1> QED
  BY <1>1, <1>4, <1>6, Zenon

\* Powers of two double: the subsets of 1..n + 1 are those of 1..n, with and without n + 1.
LEMMA TwoTo ==
  ASSUME NEW n \in Nat
  PROVE  2^n \in Nat /\ 2^(n + 1) = 2^n + 2^n
<1> DEFINE S == 1..n
           P == SUBSET S
           Q == {s \cup {n + 1} : s \in P}
           f == [s \in P |-> s \cup {n + 1}]
<1>1. /\ IsFiniteSet(S) /\ Cardinality(S) = n
      /\ IsFiniteSet(1..(n + 1)) /\ Cardinality(1..(n + 1)) = n + 1
  BY FS_Interval
<1>2. IsFiniteSet(P) /\ Cardinality(P) = 2^n /\ Cardinality(P) \in Nat
  BY <1>1, FS_SUBSET, FS_CardinalityType, Zenon
<1>3. Cardinality(SUBSET (1..(n + 1))) = 2^(n + 1)
  BY <1>1, FS_SUBSET, Zenon
<1>4. n + 1 \notin S /\ 1..(n + 1) = S \cup {n + 1}
  OBVIOUS
<1>5. f \in Bijection(P, Q)
  <2>1. f \in [P -> Q] /\ \A t \in Q : \E s \in P : f[s] = t
    BY Zenon
  <2>2. ASSUME NEW s \in P, NEW t \in P, f[s] = f[t] PROVE s = t
    <3>1. s = f[s] \ {n + 1} /\ t = f[t] \ {n + 1}
      BY <1>4
    <3> QED
      BY <2>2, <3>1, Zenon
  <2> HIDE DEF P, Q, f
  <2>3. f \in Injection(P, Q)
    BY <2>1, <2>2, Zenon DEF Injection, IsInjective
  <2>4. f \in Surjection(P, Q)
    BY <2>1, Zenon DEF Surjection
  <2> QED
    BY <2>3, <2>4, Zenon DEF Bijection
<1>6. IsFiniteSet(Q) /\ Cardinality(Q) = 2^n
  <2> HIDE DEF P, Q, f
  <2> QED
    BY <1>2, <1>5, FS_Bijection, Zenon DEF ExistsBijection
<1>7. P \cup Q = SUBSET (1..(n + 1)) /\ P \cap Q = {}
  <2>1. ASSUME NEW t \in SUBSET (1..(n + 1)) PROVE t \in P \cup Q
    <3>1. CASE n + 1 \notin t
      BY <1>4, <3>1
    <3>2. CASE n + 1 \in t
      <4>1. t \ {n + 1} \in P /\ t = (t \ {n + 1}) \cup {n + 1}
        BY <1>4, <3>2
      <4> QED
        BY <4>1, Zenon
    <3> QED
      BY <3>1, <3>2
  <2>2. \A t \in P : t \in SUBSET (1..(n + 1)) /\ n + 1 \notin t
    BY <1>4
  <2>3. \A t \in Q : t \in SUBSET (1..(n + 1)) /\ n + 1 \in t
    BY <1>4, Zenon
  <2> HIDE DEF P, Q
  <2> QED
    BY <2>1, <2>2, <2>3, Zenon
<1>8. Cardinality(P \cup Q) = Cardinality(P) + Cardinality(Q) - 0
  <2> HIDE DEF P, Q
  <2>1. Cardinality(P \cup Q) = Cardinality(P) + Cardinality(Q) - Cardinality(P \cap Q)
    BY <1>2, <1>6, FS_Union, Zenon
  <2> QED
    BY <1>7, <2>1, FS_EmptySet, Zenon
<1>9. PICK x \in Nat : x = 2^n
  BY <1>2
<1>10. 2^(n + 1) = x + x - 0
  <2> HIDE DEF P, Q
  <2> QED
    BY <1>2, <1>3, <1>6, <1>7, <1>8, <1>9, Zenon
<1> QED
  BY <1>9, <1>10

\* They outgrow their exponents.
LEMMA TwoToGrows ==
  ASSUME NEW n \in Nat
  PROVE  2^n > n /\ \A k \in 0..n : 2^k <= 2^n
<1> DEFINE T == {m \in Nat : 2^m > m /\ \A k \in 0..m : 2^k <= 2^m}
<1>1. 0 \in T
  <2>1. 2^0 = 1
    OBVIOUS
  <2>2. \A k \in 0..0 : k = 0
    OBVIOUS
  <2>3. \A k \in 0..0 : 2^k <= 2^0
    BY <2>1, <2>2
  <2>4. 2^0 > 0
    BY <2>1
  <2> QED
    BY <2>3, <2>4, Zenon
<1>2. ASSUME NEW m \in T PROVE m + 1 \in T
  <2>1. 2^m \in Nat /\ 2^(m + 1) = 2^m + 2^m
    BY TwoTo
  <2>2. ASSUME NEW k \in 0..(m + 1) PROVE 2^k <= 2^(m + 1)
    <3>1. 2^k \in Nat
      BY TwoTo
    <3>2. CASE k = m + 1
      BY <2>1, <3>1, <3>2
    <3>3. CASE k \in 0..m
      <4>1. 2^k <= 2^m
        BY <3>3
      <4> QED
        BY <2>1, <3>1, <4>1
    <3> QED
      BY <3>2, <3>3
  <2>3. 2^(m + 1) > m + 1
    BY <2>1
  <2> QED
    BY <2>2, <2>3
<1>3. T = Nat
  <2>1. T \in SUBSET Nat
    OBVIOUS
  <2> HIDE DEF T
  <2> QED
    BY <1>1, <1>2, <2>1, Induct, Zenon
<1> QED
  BY <1>3

\* What a counter can have reached after e events.
Limit(e) == MaxLatency * e

\* The limit leaves room for one more latency per event, and never reaches the width of a
\* counter.
LEMMA LimitFacts ==
  /\ MaxLatency \in Nat \ {0}
  /\ \A e \in Nat : Limit(e) \in Nat /\ Limit(e + 1) = Limit(e) + MaxLatency
  /\ \A e \in 0..MaxEvents : Limit(e) < Word
<1>1. PICK m \in Nat : m = MaxLatency /\ m > 0 /\ MaxEvents * m <= Word - 1
  <2>1. PICK a \in Nat, b \in Nat : a = Word - 1 /\ b = MaxEvents /\ b > 0 /\ a >= b
    <3>1. Word - 1 \in Nat /\ MaxEvents \in Nat /\ MaxEvents > 0 /\ Word - 1 >= MaxEvents
      BY MetricsAssumption
    <3> QED
      BY <3>1
  <2>2. a \div b \in Nat /\ a \div b >= 1 /\ b * (a \div b) <= a
    BY <2>1
  <2> QED
    BY <2>1, <2>2 DEF MaxLatency
<1>3. \A e \in Nat : m * e \in Nat /\ m * (e + 1) = m * e + m
  OBVIOUS
<1>4. ASSUME NEW e \in 0..MaxEvents PROVE m * e < Word
  <2>1. PICK d \in Nat : MaxEvents = e + d
    <3>1. MaxEvents - e \in Nat /\ MaxEvents = e + (MaxEvents - e)
      BY MetricsAssumption
    <3> QED
      BY <3>1
  <2>2. MaxEvents * m = m * e + m * d /\ m * e \in Nat /\ m * d \in Nat
    BY <2>1
  <2> QED
    BY <1>1, <2>2, MetricsAssumption
<1> QED
  BY <1>1, <1>3, <1>4 DEF Limit

\* bit_width() puts a sample into the first bucket whose bound is above it.
LEMMA BucketFacts ==
  ASSUME NEW us \in Nat
  PROVE  /\ BucketOf(us) \in 0..(Buckets - 1)
         /\ \A b \in 0..(Buckets - 1) : BucketOf(us) <= b <=> (b = Buckets - 1 \/ us < 2^b)
<1> DEFINE K == {k \in Nat : 2^k > us}
<1>0. \A k \in Nat : 2^k \in Nat
  BY TwoTo
<1>1. PICK k \in K : \A j \in K : k <= j
  <2>1. us \in K
    BY TwoToGrows
  <2>2. K \in SUBSET Nat
    OBVIOUS
  <2> HIDE DEF K
  <2> QED
    BY <2>1, <2>2, Least, Zenon
<1>2. k \in 0..us /\ 2^k > us /\ (k = 0 \/ 2^(k - 1) <= us)
  <2>1. k <= us
    <3>1. us \in K
      BY TwoToGrows
    <3> QED
      BY <1>1, <3>1
  <2>2. ASSUME k # 0 PROVE 2^(k - 1) <= us
    <3>1. k - 1 \in Nat /\ k - 1 \notin K
      BY <1>1, <2>2
    <3>2. 2^(k - 1) \in Nat
      BY <1>0, <3>1
    <3> QED
      BY <3>1, <3>2
  <2> QED
    BY <2>1, <2>2
<1> DEFINE width == CHOOSE j \in 0..us : 2^j > us /\ (j = 0 \/ 2^(j - 1) <= us)
<1>3. width \in 0..us /\ 2^width > us /\ (width = 0 \/ 2^(width - 1) <= us)
  BY <1>2, Zenon
<1>4. PICK d \in Nat : d = width
  BY <1>3
<1>5. 2^d > us /\ (d = 0 \/ 2^(d - 1) <= us)
  BY <1>3, <1>4, Zenon
<1>6. BucketOf(us) = IF d >= Buckets THEN Buckets - 1 ELSE d
  BY <1>4 DEF BucketOf
<1>7. ASSUME NEW b \in Nat PROVE d <= b <=> us < 2^b
  <2>1. CASE d <= b
    <3>1. 2^d <= 2^b
      BY <2>1, TwoToGrows
    <3> QED
      BY <1>0, <1>5, <2>1, <3>1
  <2>2. CASE ~(d <= b)
    <3>1. d - 1 \in Nat /\ b \in 0..(d - 1) /\ 2^(d - 1) <= us
      BY <1>5, <2>2
    <3>2. 2^b <= 2^(d - 1)
      BY <3>1, TwoToGrows
    <3>3. 2^b \in Nat /\ 2^(d - 1) \in Nat
      BY <1>0, <3>1
    <3> QED
      BY <2>2, <3>1, <3>2, <3>3
  <2> QED
    BY <2>1, <2>2
<1> HIDE DEF width
<1>8. BucketOf(us) \in 0..(Buckets - 1)
  BY <1>6, MetricsAssumption
<1>9. ASSUME NEW b \in 0..(Buckets - 1)
      PROVE  BucketOf(us) <= b <=> (b = Buckets - 1 \/ us < 2^b)
  <2>1. d <= b <=> us < 2^b
    BY <1>7
  <2>2. CASE b = Buckets - 1
    BY <1>8, <2>2, MetricsAssumption
  <2>3. CASE b # Buckets - 1
    <3>1. BucketOf(us) <= b <=> d <= b
      BY <1>6, <2>3, MetricsAssumption
    <3> QED
      BY <2>1, <2>3, <3>1
  <2> QED
    BY <2>2, <2>3
<1> QED
  BY <1>8, <1>9

\* The two counters that the gauge of open connections is made of.
Opened == <<"accepted", 0>>
Ended == <<"closed", 0>>

\* The counters are different from each other.
LEMMA CounterFacts ==
  /\ Opened \in Counters /\ Ended \in Counters /\ Opened # Ended
  /\ <<"requests", 0>> \in Counters /\ <<"sum", 0>> \in Counters
  /\ \A b \in 0..(Buckets - 1) : <<"bucket", b>> \in Counters
  /\ \A c \in Counters : c[1] = "bucket" <=> \E b \in 0..(Buckets - 1) : c = <<"bucket", b>>
BY DEF Counters, Opened, Ended

\* The buckets up to b are counters.
LEMMA BucketCounter ==
  ASSUME NEW b \in 0..(Buckets - 1), NEW i \in 0..b
  PROVE  i \in 0..(Buckets - 1) /\ <<"bucket", i>> \in Counters
<1>1. i \in 0..(Buckets - 1)
  BY MetricsAssumption
<1> QED
  BY <1>1, CounterFacts

\* A sum over the buckets up to b is a natural number.
LEMMA CumulativeFacts ==
  ASSUME NEW m \in [Writers -> [Counters -> Nat]], NEW b \in 0..(Buckets - 1)
  PROVE  /\ \A i \in 0..b : Total(m, <<"bucket", i>>) \in Nat
         /\ Cumulative(m, b) \in Nat
<1>1. ASSUME NEW i \in 0..b PROVE Total(m, <<"bucket", i>>) \in Nat
  <2>1. <<"bucket", i>> \in Counters
    BY BucketCounter
  <2>2. PICK f : f = [w \in Writers |-> m[w][<<"bucket", i>>]]
    BY Zenon
  <2>3. f \in [Writers -> Nat]
    BY <2>1, <2>2
  <2>4. SumFunction(f) \in Nat
    BY <2>3, MetricsAssumption, SumNat, Zenon
  <2> QED
    BY <2>2, <2>4 DEF Total
<1>2. PICK g : g = [i \in 0..b |-> Total(m, <<"bucket", i>>)]
  BY Zenon
<1>3. g \in [0..b -> Nat] /\ IsFiniteSet(0..b)
  BY <1>1, <1>2, FS_Interval
<1>4. SumFunction(g) \in Nat
  BY <1>3, SumNat, Zenon
<1> QED
  BY <1>1, <1>2, <1>4 DEF Cumulative

=============================================================================
