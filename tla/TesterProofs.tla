---------------------------- MODULE TesterProofs ----------------------------
(***************************************************************************)
(* Proofs about Tester: its type invariant and its safety properties for   *)
(* every number of candidates, modes and slots, every limit, every         *)
(* assignment of hashes and every combination of faults.                   *)
(***************************************************************************)
EXTENDS Tester, FiniteSetTheorems, SequenceTheorems, TLAPS

\* Where a worker is says whether it was started and whether TestNode ended.
WorkerShape ==
  \A n \in Node :
    /\ worker[n] = "idle" <=> n >= next
    /\ verdict[n] = "none" <=> worker[n] \in {"idle", "check", "mode", "probe"}
    /\ worker[n] \in {"mode", "probe"} => mode[n] >= 1
    /\ worker[n] = "probe" => mode[n] <= NumModes

\* Where the loop is says why it is there.
DispatcherShape ==
  /\ dispatcher = "select" => next <= Total
  /\ dispatcher = "returned" => AllDone
  /\ dispatcher \in {"wait", "returned"} => Exhausted \/ LimitReached

Shape == TypeOK /\ WorkerShape /\ DispatcherShape

-----------------------------------------------------------------------------

LEMMA SlotsType == Slots \in Nat /\ (Total > 0 => Slots > 0)
  BY TesterAssumption DEF Slots, PoolSize, DefaultConcurrency

LEMMA InitShape == Init => Shape
<1> SUFFICES ASSUME Init PROVE Shape
  OBVIOUS
<1>1. TypeOK
  <2>1. next \in 1..(Total + 1) /\ sem \in 0..Slots /\ 0 \in 0..(NumModes + 1)
    BY TesterAssumption, SlotsType DEF Init
  <2>2. results \in Seq(Node)
    BY DEF Init
  <2> QED
    BY <2>1, <2>2
    DEF Init, TypeOK, DispatcherStates, WorkerStates, Outcomes, Verdicts
<1>2. WorkerShape /\ DispatcherShape
  BY TesterAssumption DEF Init, WorkerShape, DispatcherShape, Node
<1> QED
  BY <1>1, <1>2 DEF Shape

\* A function that is updated keeps its type.
LEMMA UpdateType ==
  ASSUME NEW S, NEW T, NEW f \in [S -> T], NEW x \in S, NEW y \in T
  PROVE  [f EXCEPT ![x] = y] \in [S -> T]
  OBVIOUS

LEMMA NextMode ==
  ASSUME NEW m \in 1..NumModes
  PROVE  m + 1 \in 0..(NumModes + 1)
  BY TesterAssumption

LEMMA TypeStep == Shape /\ [Next]_vars => TypeOK'
<1> SUFFICES ASSUME Shape, [Next]_vars PROVE TypeOK'
  OBVIOUS
<1> USE TesterAssumption, SlotsType
<1> USE DEF Shape, TypeOK, Node, Mode, Hash, Moves,
            DispatcherStates, WorkerStates, Outcomes, Verdicts,
            dispatchVars, nodeVars, counters
<1>1. CASE CheckLimit
  BY <1>1 DEF CheckLimit
<1>2. CASE DispatchWithSlot
  <2>1. next \in 1..Total
    BY <1>2 DEF DispatchWithSlot, DispatcherShape
  <2>2. next' \in 1..(Total + 1) /\ sem' \in 0..Slots
    BY <1>2, <2>1 DEF DispatchWithSlot, SlotFree
  <2>3. worker' \in [Node -> WorkerStates]
    BY <1>2, <2>1 DEF DispatchWithSlot
  <2> QED
    BY <1>2, <2>2, <2>3 DEF DispatchWithSlot
<1>3. CASE DispatchAfterCancel
  <2>1. next \in 1..Total
    BY <1>3 DEF DispatchAfterCancel, DispatcherShape
  <2>2. next' \in 1..(Total + 1) /\ unslotted' \subseteq Node
    BY <1>3, <2>1 DEF DispatchAfterCancel
  <2>3. worker' \in [Node -> WorkerStates]
    BY <1>3, <2>1 DEF DispatchAfterCancel
  <2> QED
    BY <1>3, <2>2, <2>3 DEF DispatchAfterCancel
<1>4. CASE Return
  BY <1>4 DEF Return
<1>5. CASE Cancel
  BY <1>5 DEF Cancel
<1>6. ASSUME NEW n \in Node, Work(n) PROVE TypeOK'
  <2>1. CASE SkipListed(n)
    <3>1. worker' \in [Node -> WorkerStates]
      BY <2>1 DEF SkipListed
    <3>2. verdict' \in [Node -> Verdicts]
      BY <2>1 DEF SkipListed
    <3> QED
      BY <2>1, <3>1, <3>2 DEF SkipListed
  <2>2. CASE StartModes(n)
    <3>1. worker' \in [Node -> WorkerStates]
      BY <2>2 DEF StartModes
    <3>2. mode' \in [Node -> 0..(NumModes + 1)]
      BY <2>2 DEF StartModes
    <3> QED
      BY <2>2, <3>1, <3>2 DEF StartModes
  <2>3. CASE AbortNode(n)
    <3>1. worker' \in [Node -> WorkerStates]
      BY <2>3 DEF AbortNode
    <3>2. verdict' \in [Node -> Verdicts]
      BY <2>3 DEF AbortNode
    <3> QED
      BY <2>3, <3>1, <3>2 DEF AbortNode
  <2>4. CASE SkipMode(n)
    <3>1. mode[n] \in 1..NumModes
      BY <2>4 DEF SkipMode, WorkerShape
    <3>2. mode' \in [Node -> 0..(NumModes + 1)]
      <4>1. mode' = [mode EXCEPT ![n] = mode[n] + 1]
        BY <2>4 DEF SkipMode
      <4>2. mode \in [Node -> 0..(NumModes + 1)]
        OBVIOUS
      <4> HIDE DEF Shape, TypeOK
      <4> QED
        BY <3>1, <4>1, <4>2, NextMode, UpdateType
    <3>3. outcome' \in [Node -> [Mode -> Outcomes]]
      BY <2>4, <3>1 DEF SkipMode
    <3> QED
      BY <2>4, <3>2, <3>3 DEF SkipMode
  <2>5. CASE StartProbe(n)
    BY <2>5 DEF StartProbe
  <2>6. CASE EndProbe(n)
    <3>1. mode[n] \in 1..NumModes
      BY <2>6 DEF EndProbe, WorkerShape
    <3>2. worker' \in [Node -> WorkerStates]
      BY <2>6 DEF EndProbe
    <3>3. mode' \in [Node -> 0..(NumModes + 1)]
      <4>1. mode' = [mode EXCEPT ![n] = mode[n] + 1]
        BY <2>6 DEF EndProbe
      <4>2. mode \in [Node -> 0..(NumModes + 1)]
        OBVIOUS
      <4> HIDE DEF Shape, TypeOK
      <4> QED
        BY <3>1, <4>1, <4>2, NextMode, UpdateType
    <3>4. outcome' \in [Node -> [Mode -> Outcomes]]
      BY <2>6, <3>1 DEF EndProbe, ProbeOutcomes
    <3> QED
      BY <2>6, <3>2, <3>3, <3>4 DEF EndProbe
  <2>7. CASE PanicAndRecover(n)
    BY <2>7 DEF PanicAndRecover
  <2>8. CASE MarkDead(n)
    BY <2>8 DEF MarkDead
  <2>9. CASE StoreResult(n)
    BY <2>9 DEF StoreResult
  <2>10. CASE CountResult(n)
    <3>1. worker' \in [Node -> WorkerStates] /\ completed' \in Nat
      BY <2>10 DEF CountResult
    <3>2. passed' \in Nat
      BY <2>10 DEF CountResult
    <3> QED
      BY <2>10, <3>1, <3>2 DEF CountResult
  <2>11. CASE Release(n)
    <3>1. sem' \in 0..Slots
      BY <2>11 DEF Release
    <3>2. worker' \in [Node -> WorkerStates]
      BY <2>11 DEF Release
    <3> QED
      BY <2>11, <3>1, <3>2 DEF Release
  <2> QED
    BY <1>6, <2>1, <2>2, <2>3, <2>4, <2>5, <2>6, <2>7, <2>8, <2>9, <2>10, <2>11
    DEF Work
<1>7. CASE UNCHANGED vars
  BY <1>7 DEF vars
<1> QED
  BY <1>1, <1>2, <1>3, <1>4, <1>5, <1>6, <1>7 DEF Next, Dispatch, Terminated

LEMMA WorkerStep == Shape /\ [Next]_vars => WorkerShape'
<1> SUFFICES ASSUME Shape, [Next]_vars PROVE WorkerShape'
  OBVIOUS
<1> USE TesterAssumption
<1> USE DEF Shape, WorkerShape, TypeOK, Node, Moves, WorkerStates, Verdicts,
            dispatchVars, nodeVars, counters
<1>1. CASE CheckLimit
  BY <1>1 DEF CheckLimit
<1>2. CASE DispatchWithSlot
  BY <1>2 DEF DispatchWithSlot, DispatcherShape
<1>3. CASE DispatchAfterCancel
  BY <1>3 DEF DispatchAfterCancel, DispatcherShape
<1>4. CASE Return
  BY <1>4 DEF Return
<1>5. CASE Cancel
  BY <1>5 DEF Cancel
<1>6. ASSUME NEW n \in Node, Work(n) PROVE WorkerShape'
  <2>1. CASE SkipListed(n)
    BY <2>1 DEF SkipListed
  <2>2. CASE StartModes(n)
    BY <2>2 DEF StartModes
  <2>3. CASE AbortNode(n)
    BY <2>3 DEF AbortNode
  <2>4. CASE SkipMode(n)
    BY <2>4 DEF SkipMode
  <2>5. CASE StartProbe(n)
    BY <2>5 DEF StartProbe
  <2>6. CASE EndProbe(n)
    BY <2>6 DEF EndProbe
  <2>7. CASE PanicAndRecover(n)
    BY <2>7 DEF PanicAndRecover
  <2>8. CASE MarkDead(n)
    BY <2>8 DEF MarkDead
  <2>9. CASE StoreResult(n)
    BY <2>9 DEF StoreResult
  <2>10. CASE CountResult(n)
    BY <2>10 DEF CountResult
  <2>11. CASE Release(n)
    BY <2>11 DEF Release
  <2> QED
    BY <1>6, <2>1, <2>2, <2>3, <2>4, <2>5, <2>6, <2>7, <2>8, <2>9, <2>10, <2>11
    DEF Work
<1>7. CASE UNCHANGED vars
  BY <1>7 DEF vars
<1> QED
  BY <1>1, <1>2, <1>3, <1>4, <1>5, <1>6, <1>7 DEF Next, Dispatch, Terminated

\* A worker leaves the loop of TestAll alone, moves from one place to another,
\* and never lowers the counter of passed nodes.
LEMMA WorkFrame ==
  ASSUME NEW n \in Node, Work(n), TypeOK
  PROVE  /\ UNCHANGED <<dispatcher, next, unslotted, cancelled>>
         /\ worker[n] \notin {"idle", "done"}
         /\ \E to \in WorkerStates \ {"idle"} :
              worker' = [worker EXCEPT ![n] = to]
         /\ passed' \in Nat /\ passed' >= passed
<1> USE DEF Moves, TypeOK, WorkerStates, dispatchVars, nodeVars, counters
<1>1. UNCHANGED <<dispatcher, next, unslotted, cancelled>>
  BY DEF Work, SkipListed, StartModes, AbortNode, SkipMode, StartProbe, EndProbe,
         PanicAndRecover, MarkDead, StoreResult, CountResult, Release
<1>2. worker[n] \notin {"idle", "done"}
  BY DEF Work, SkipListed, StartModes, AbortNode, SkipMode, StartProbe, EndProbe,
         PanicAndRecover, MarkDead, StoreResult, CountResult, Release
<1>3. \E to \in WorkerStates \ {"idle"} : worker' = [worker EXCEPT ![n] = to]
  <2>1. CASE SkipMode(n)
    <3>1. worker' = [worker EXCEPT ![n] = "mode"]
      BY <2>1 DEF SkipMode
    <3> QED
      BY <3>1
  <2>2. CASE ~SkipMode(n)
    BY <2>2 DEF Work, SkipListed, StartModes, AbortNode, StartProbe, EndProbe,
           PanicAndRecover, MarkDead, StoreResult, CountResult, Release
  <2> QED
    BY <2>1, <2>2
<1>4. passed' \in Nat /\ passed' >= passed
  <2>1. CASE CountResult(n)
    BY <2>1 DEF CountResult
  <2>2. CASE ~CountResult(n)
    BY <2>2 DEF Work, SkipListed, StartModes, AbortNode, SkipMode, StartProbe,
           EndProbe, PanicAndRecover, MarkDead, StoreResult, Release
  <2> QED
    BY <2>1, <2>2
<1> QED
  BY <1>1, <1>2, <1>3, <1>4

LEMMA DispatcherStep == Shape /\ [Next]_vars => DispatcherShape'
<1> SUFFICES ASSUME Shape, [Next]_vars PROVE DispatcherShape'
  OBVIOUS
<1> USE TesterAssumption
<1> USE DEF Shape, DispatcherShape, TypeOK, DispatcherStates, AllDone, Exhausted,
            LimitReached, Moves, dispatchVars, nodeVars, counters
<1>1. CASE CheckLimit
  BY <1>1 DEF CheckLimit
<1>2. CASE DispatchWithSlot
  BY <1>2 DEF DispatchWithSlot
<1>3. CASE DispatchAfterCancel
  BY <1>3 DEF DispatchAfterCancel
<1>4. CASE Return
  BY <1>4 DEF Return
<1>5. CASE Cancel
  BY <1>5 DEF Cancel
<1>6. ASSUME NEW n \in Node, Work(n) PROVE DispatcherShape'
  <2>1. /\ UNCHANGED <<dispatcher, next>> /\ ~AllDone
        /\ passed' \in Nat /\ passed' >= passed
    BY <1>6, WorkFrame DEF Node
  <2>2. LimitReached => LimitReached'
    BY <2>1
  <2> QED
    BY <2>1, <2>2
<1>7. CASE UNCHANGED vars
  BY <1>7 DEF vars
<1> QED
  BY <1>1, <1>2, <1>3, <1>4, <1>5, <1>6, <1>7 DEF Next, Dispatch, Terminated

LEMMA ShapeInvariant == Spec => []Shape
<1>1. Shape /\ [Next]_vars => Shape'
  BY TypeStep, WorkerStep, DispatcherStep DEF Shape
<1> QED
  BY <1>1, InitShape, PTL DEF Spec

\* The state of a verification run keeps its types, whatever the numbers of
\* candidates, modes and slots: TestAll never indexes past its candidates, and
\* sem never holds more than its capacity.
THEOREM TypeCorrect == Spec => []TypeOK
  BY ShapeInvariant, PTL DEF Shape

-----------------------------------------------------------------------------
\* Counting workers.

\* Workers whose result is not counted yet, and those of them that have one.
Uncounted ==
  {n \in Node : worker[n] \in {"check", "mode", "probe", "report"}}
Reporting == {n \in Node : worker[n] = "report" /\ verdict[n] = "passed"}

\* Why a run reports at most MaxNodes + Slots nodes: when the loop goes on to
\* wait for a slot, one node is still missing, and the workers in flight have
\* at most one slot each.
Counting ==
  /\ \A n \in unslotted : n < next
  /\ SlotAccounting
  /\ Len(results) = passed + Cardinality(Reporting)
  /\ MaxNodes > 0 /\ unslotted = {} =>
       /\ passed + Cardinality(Uncounted) <= MaxNodes + Slots
       /\ dispatcher = "select" =>
            passed + Cardinality(Uncounted) < MaxNodes + Slots

LEMMA SetTypes ==
  ASSUME TypeOK
  PROVE  /\ IsFiniteSet(unslotted) /\ Cardinality(unslotted) \in Nat
         /\ IsFiniteSet(Live) /\ Cardinality(Live) \in Nat
         /\ IsFiniteSet(Uncounted) /\ Cardinality(Uncounted) \in Nat
         /\ IsFiniteSet(Reporting) /\ Cardinality(Reporting) \in Nat
         /\ Cardinality(Reporting) <= Cardinality(Uncounted)
         /\ Cardinality(Uncounted) <= Cardinality(Live)
<1>1. IsFiniteSet(Node)
  <2>1. 1 \in Int /\ Total \in Int
    BY TesterAssumption
  <2>2. IsFiniteSet(1..Total)
    BY <2>1, FS_Interval
  <2> QED
    BY <2>2 DEF Node
<1>2. /\ unslotted \subseteq Node
      /\ Live \subseteq Node
      /\ Uncounted \subseteq Live
      /\ Reporting \subseteq Uncounted
  BY DEF TypeOK, Live, Uncounted, Reporting
<1>3. IsFiniteSet(unslotted) /\ IsFiniteSet(Live)
  BY <1>1, <1>2, FS_Subset
<1>4. IsFiniteSet(Uncounted) /\ Cardinality(Uncounted) <= Cardinality(Live)
  BY <1>2, <1>3, FS_Subset
<1>5. IsFiniteSet(Reporting) /\ Cardinality(Reporting) <= Cardinality(Uncounted)
  BY <1>2, <1>4, FS_Subset
<1> QED
  BY <1>3, <1>4, <1>5, FS_CardinalityType

LEMMA InitCounting == Init => Counting
<1> SUFFICES ASSUME Init PROVE Counting
  OBVIOUS
<1>1. Live = {} /\ Uncounted = {} /\ Reporting = {} /\ unslotted = {}
  BY DEF Init, Live, Uncounted, Reporting
<1>2. sem = 0 /\ passed = 0 /\ Len(results) = 0
  BY DEF Init
<1>3. Cardinality({}) = 0
  BY FS_EmptySet
<1> HIDE DEF Live, Uncounted, Reporting
<1>4. SlotAccounting
  BY <1>1, <1>2, <1>3 DEF SlotAccounting
<1>5. dispatcher = "limit"
  BY DEF Init
<1> QED
  BY <1>1, <1>2, <1>3, <1>4, <1>5, TesterAssumption, SlotsType DEF Counting

\* A start of a goroutine, with or without a slot.
LEMMA StartSets ==
  ASSUME Shape, next \in Node, Moves(next, "idle", "check"), verdict' = verdict
  PROVE  /\ next \notin Live /\ Live' = Live \union {next}
         /\ next \notin Uncounted /\ Uncounted' = Uncounted \union {next}
         /\ Reporting' = Reporting
  BY DEF Shape, TypeOK, Moves, Live, Uncounted, Reporting, WorkerStates

\* The steps of TestNode that neither store a result nor end the goroutine.
QuietWork(n) ==
  \/ SkipListed(n) \/ StartModes(n) \/ AbortNode(n) \/ SkipMode(n)
  \/ StartProbe(n) \/ EndProbe(n) \/ MarkDead(n)

LEMMA QuietSets ==
  ASSUME Shape, NEW n \in Node, QuietWork(n)
  PROVE  /\ Live' = Live /\ Uncounted' = Uncounted /\ Reporting' = Reporting
         /\ UNCHANGED <<dispatchVars, sem, results, passed>>
<1> USE DEF Shape, TypeOK, Moves, Live, Uncounted, Reporting, WorkerStates,
            dispatchVars, nodeVars, counters
<1>1. CASE SkipListed(n)
  BY <1>1 DEF SkipListed
<1>2. CASE StartModes(n)
  BY <1>2 DEF StartModes
<1>3. CASE AbortNode(n)
  BY <1>3 DEF AbortNode
<1>4. CASE SkipMode(n)
  BY <1>4 DEF SkipMode
<1>5. CASE StartProbe(n)
  BY <1>5 DEF StartProbe
<1>6. CASE EndProbe(n)
  BY <1>6 DEF EndProbe
<1>7. CASE MarkDead(n)
  BY <1>7 DEF MarkDead
<1> QED
  BY <1>1, <1>2, <1>3, <1>4, <1>5, <1>6, <1>7 DEF QuietWork

LEMMA StoreSets ==
  ASSUME Shape, NEW n \in Node, StoreResult(n)
  PROVE  /\ Live' = Live /\ Uncounted' = Uncounted
         /\ n \notin Reporting /\ Reporting' = Reporting \union {n}
         /\ Len(results') = Len(results) + 1
         /\ UNCHANGED <<dispatchVars, sem, passed>>
<1>1. Len(results') = Len(results) + 1
  BY DEF StoreResult, Shape, TypeOK
<1> QED
  BY <1>1 DEF StoreResult, Shape, TypeOK, Moves, Live, Uncounted, Reporting,
              WorkerStates, Verdicts, dispatchVars, counters

LEMMA PanicSets ==
  ASSUME Shape, NEW n \in Node, PanicAndRecover(n)
  PROVE  /\ Live' = Live /\ Reporting' = Reporting
         /\ n \in Uncounted /\ Uncounted' = Uncounted \ {n}
         /\ UNCHANGED <<dispatchVars, sem, results, passed>>
  BY DEF PanicAndRecover, Shape, TypeOK, Moves, Live, Uncounted, Reporting,
         WorkerStates, Verdicts, dispatchVars, nodeVars, counters

LEMMA CountSets ==
  ASSUME Shape, NEW n \in Node, CountResult(n)
  PROVE  /\ Live' = Live
         /\ n \in Uncounted /\ Uncounted' = Uncounted \ {n}
         /\ Reporting' = Reporting \ {n}
         /\ passed' = IF n \in Reporting THEN passed + 1 ELSE passed
         /\ UNCHANGED <<dispatchVars, sem, results>>
<1>1. passed' = IF n \in Reporting THEN passed + 1 ELSE passed
  BY DEF CountResult, Moves, Reporting, Succeeded
<1> QED
  BY <1>1 DEF CountResult, Shape, TypeOK, Moves, Live, Uncounted, Reporting,
              WorkerStates, dispatchVars, nodeVars

LEMMA ReleaseSets ==
  ASSUME Shape, NEW n \in Node, Release(n)
  PROVE  /\ n \in Live /\ Live' = Live \ {n}
         /\ Uncounted' = Uncounted /\ Reporting' = Reporting
         /\ UNCHANGED <<dispatchVars, results, passed>>
  BY DEF Release, Shape, TypeOK, Moves, Live, Uncounted, Reporting,
         WorkerStates, dispatchVars, nodeVars, counters

LEMMA CountingStep == Shape /\ Counting /\ [Next]_vars => Counting'
<1> SUFFICES ASSUME Shape, Counting, [Next]_vars PROVE Counting'
  OBVIOUS
<1> USE DEF Counting, SlotAccounting
<1>1. /\ sem \in Nat /\ next \in Nat /\ passed \in Nat /\ Slots \in Nat
      /\ sem <= Slots /\ MaxNodes \in Int /\ Len(results) \in Nat
  BY SlotsType, TesterAssumption DEF Shape, TypeOK
<1>2. /\ IsFiniteSet(unslotted) /\ Cardinality(unslotted) \in Nat
      /\ IsFiniteSet(Live) /\ Cardinality(Live) \in Nat
      /\ IsFiniteSet(Uncounted) /\ Cardinality(Uncounted) \in Nat
      /\ IsFiniteSet(Reporting) /\ Cardinality(Reporting) \in Nat
      /\ Cardinality(Uncounted) <= Cardinality(Live)
  BY SetTypes DEF Shape
<1>3. ASSUME Moves(next, "idle", "check"), verdict' = verdict, next \in Node
      PROVE  /\ Cardinality(Live') = Cardinality(Live) + 1
             /\ Cardinality(Uncounted') = Cardinality(Uncounted) + 1
             /\ Cardinality(Reporting') = Cardinality(Reporting)
  <2>1. /\ next \notin Live /\ Live' = Live \union {next}
        /\ next \notin Uncounted /\ Uncounted' = Uncounted \union {next}
        /\ Reporting' = Reporting
    BY <1>3, StartSets
  <2>2. Cardinality(Live \union {next}) = Cardinality(Live) + 1
    BY <1>2, <2>1, FS_AddElement
  <2>3. Cardinality(Uncounted \union {next}) = Cardinality(Uncounted) + 1
    BY <1>2, <2>1, FS_AddElement
  <2> QED
    BY <2>1, <2>2, <2>3
<1>4. CASE CheckLimit
  <2>1. /\ Live' = Live /\ Uncounted' = Uncounted /\ Reporting' = Reporting
        /\ UNCHANGED <<next, unslotted, sem, results, passed>>
    BY <1>4 DEF CheckLimit, nodeVars, counters, Live, Uncounted, Reporting
  <2>2. ASSUME MaxNodes > 0, unslotted = {}, dispatcher' = "select"
        PROVE  passed + Cardinality(Uncounted) < MaxNodes + Slots
    <3>1. passed < MaxNodes
      BY <1>1, <1>4, <2>2 DEF CheckLimit, LimitReached
    <3>2. Cardinality(Live) = sem
      BY <1>1, <1>2, <2>2, FS_EmptySet
    <3> QED
      BY <1>1, <1>2, <3>1, <3>2
  <2> QED
    BY <2>1, <2>2
<1>5. CASE DispatchWithSlot
  <2>1. /\ next \in Node /\ next' = next + 1 /\ sem' = sem + 1
        /\ dispatcher = "select" /\ dispatcher' = "limit"
        /\ Moves(next, "idle", "check")
        /\ UNCHANGED <<unslotted, verdict, results, passed>>
    BY <1>1, <1>5, TesterAssumption
    DEF DispatchWithSlot, Shape, DispatcherShape, TypeOK, Node, nodeVars, counters
  <2>2. \A n \in unslotted : n < next'
    BY <1>1, <2>1 DEF Shape, TypeOK, Node
  <2> QED
    BY <1>1, <1>2, <1>3, <2>1, <2>2
<1>6. CASE DispatchAfterCancel
  <2>1. /\ next \in Node /\ next' = next + 1
        /\ unslotted' = unslotted \union {next}
        /\ Moves(next, "idle", "check")
        /\ UNCHANGED <<sem, verdict, results, passed>>
    BY <1>1, <1>6, TesterAssumption
    DEF DispatchAfterCancel, Shape, DispatcherShape, TypeOK, Node, nodeVars,
        counters
  <2>2. \A n \in unslotted' : n < next'
    BY <1>1, <2>1 DEF Shape, TypeOK, Node
  <2>3. next \notin unslotted
    BY <1>1
  <2>4. Cardinality(unslotted') = Cardinality(unslotted) + 1
    BY <1>2, <2>1, <2>3, FS_AddElement
  <2> QED
    BY <1>1, <1>2, <1>3, <2>1, <2>2, <2>4
<1>7. CASE Return \/ Cancel \/ UNCHANGED vars
  <2>1. /\ Live' = Live /\ Uncounted' = Uncounted /\ Reporting' = Reporting
        /\ UNCHANGED <<next, unslotted, sem, results, passed>>
        /\ dispatcher' = "select" => dispatcher = "select"
    BY <1>7 DEF Return, Cancel, vars, dispatchVars, nodeVars, counters, Live,
                Uncounted, Reporting
  <2> QED
    BY <2>1
<1>8. ASSUME NEW n \in Node, Work(n) PROVE Counting'
  <2> USE DEF dispatchVars
  <2>1. CASE QuietWork(n)
    BY <2>1, QuietSets
  <2>2. CASE StoreResult(n)
    <3>1. Cardinality(Reporting') = Cardinality(Reporting) + 1
      BY <1>2, <2>2, StoreSets, FS_AddElement
    <3>2. /\ Live' = Live /\ Uncounted' = Uncounted
          /\ Len(results') = Len(results) + 1
          /\ UNCHANGED <<dispatchVars, sem, passed>>
      BY <2>2, StoreSets
    <3> QED
      BY <1>1, <1>2, <3>1, <3>2
  <2>3. CASE PanicAndRecover(n)
    <3>1. Cardinality(Uncounted') = Cardinality(Uncounted) - 1
      BY <1>2, <2>3, PanicSets, FS_RemoveElement
    <3> QED
      BY <1>1, <1>2, <2>3, <3>1, PanicSets
  <2>4. CASE CountResult(n)
    <3>1. Cardinality(Uncounted') = Cardinality(Uncounted) - 1
      BY <1>2, <2>4, CountSets, FS_RemoveElement
    <3>2. Cardinality(Reporting') = IF n \in Reporting
             THEN Cardinality(Reporting) - 1 ELSE Cardinality(Reporting)
      BY <1>2, <2>4, CountSets, FS_RemoveElement
    <3>3. /\ Live' = Live
          /\ passed' = IF n \in Reporting THEN passed + 1 ELSE passed
          /\ UNCHANGED <<dispatchVars, sem, results>>
      BY <2>4, CountSets
    <3>4. Len(results') = passed' + Cardinality(Reporting')
      BY <1>1, <1>2, <3>2, <3>3
    <3>5. passed' + Cardinality(Uncounted') <= passed + Cardinality(Uncounted)
      BY <1>1, <1>2, <3>1, <3>3
    <3>6. passed' \in Nat /\ Cardinality(Uncounted') \in Int
      BY <1>1, <1>2, <3>1, <3>3
    <3>7. MaxNodes > 0 /\ unslotted' = {} =>
            /\ passed' + Cardinality(Uncounted') <= MaxNodes + Slots
            /\ dispatcher' = "select" =>
                 passed' + Cardinality(Uncounted') < MaxNodes + Slots
      BY <1>1, <1>2, <3>3, <3>5, <3>6
    <3>8. SlotAccounting' /\ \A k \in unslotted' : k < next'
      BY <3>3
    <3> QED
      BY <3>4, <3>7, <3>8
  <2>5. CASE Release(n)
    <3>1. Cardinality(Live') = Cardinality(Live) - 1
      BY <1>2, <2>5, ReleaseSets, FS_RemoveElement
    <3>2. sem' = sem - 1
      BY <2>5 DEF Release
    <3> QED
      BY <1>1, <1>2, <2>5, <3>1, <3>2, ReleaseSets
  <2> QED
    BY <1>8, <2>1, <2>2, <2>3, <2>4, <2>5 DEF Work, QuietWork
<1> QED
  BY <1>4, <1>5, <1>6, <1>7, <1>8 DEF Next, Dispatch, Terminated

LEMMA CountingInvariant == Spec => [](Shape /\ Counting)
<1>1. Shape /\ Counting /\ [Next]_vars => Shape' /\ Counting'
  BY TypeStep, WorkerStep, DispatcherStep, CountingStep DEF Shape
<1> QED
  BY <1>1, InitShape, InitCounting, PTL DEF Spec

\* However the workers end, each one that is alive is accounted for by one value
\* in sem or by one start without a slot.
THEOREM SlotsAccounted == Spec => []SlotAccounting
  BY CountingInvariant, PTL DEF Counting

\* The number of reported nodes never exceeds the limit by more than the slots,
\* for every limit and every number of slots.
THEOREM OvershootBounded == Spec => []OvershootBound
<1>1. Shape /\ Counting => OvershootBound
  <2> SUFFICES ASSUME Shape, Counting, MaxNodes > 0, unslotted = {}
               PROVE  Len(results) <= MaxNodes + Slots
    BY DEF OvershootBound
  <2>1. /\ Cardinality(Reporting) \in Nat /\ Cardinality(Uncounted) \in Nat
        /\ Cardinality(Reporting) <= Cardinality(Uncounted)
    BY SetTypes DEF Shape
  <2> QED
    BY <2>1, SlotsType, TesterAssumption DEF Counting, Shape, TypeOK
<1> QED
  BY <1>1, CountingInvariant, PTL

\* The counter the loop stops on and the results agree when TestAll returns.
THEOREM PassedReported == Spec => []PassedIsReported
<1>1. Shape /\ Counting => PassedIsReported
  <2> SUFFICES ASSUME Shape, Counting PROVE PassedIsReported
    OBVIOUS
  <2>1. Cardinality(Reporting) \in Nat /\ passed \in Nat
    BY SetTypes DEF Shape, TypeOK
  <2>2. dispatcher = "returned" => Reporting = {}
    BY DEF Shape, DispatcherShape, AllDone, Reporting
  <2>3. Len(results) = passed + Cardinality(Reporting)
    BY DEF Counting
  <2>4. dispatcher = "returned" => Cardinality(Reporting) = 0
    BY <2>2, FS_EmptySet
  <2> QED
    BY <2>1, <2>3, <2>4 DEF PassedIsReported
<1> QED
  BY <1>1, CountingInvariant, PTL

\* One goroutine started without a slot is enough for TestAll never to return:
\* with nobody alive the accounting leaves no room for it.
THEOREM UnslottedNeverReturn == Spec => []UnslottedNeverReturns
<1>1. Shape /\ Counting => UnslottedNeverReturns
  <2> SUFFICES ASSUME Shape, Counting, dispatcher = "returned"
               PROVE  unslotted = {}
    BY DEF UnslottedNeverReturns
  <2>1. Live = {}
    BY DEF Shape, DispatcherShape, AllDone, Live
  <2>2. IsFiniteSet(unslotted) /\ Cardinality(unslotted) \in Nat /\ sem \in Nat
    BY SetTypes, SlotsType DEF Shape, TypeOK
  <2>3. sem + Cardinality(unslotted) = 0
    BY <2>1, FS_EmptySet DEF Counting, SlotAccounting
  <2> QED
    BY <2>2, <2>3, FS_EmptySet
<1> QED
  BY <1>1, CountingInvariant, PTL

\* No candidate is left out by a run that the limit did not stop.
THEOREM CoverageComplete == Spec => []CompleteCoverage
<1>1. Shape => CompleteCoverage
  <2> SUFFICES ASSUME Shape, dispatcher = "returned", ~LimitReached, NEW n \in Node
               PROVE  verdict[n] # "none"
    BY DEF CompleteCoverage
  <2>1. next > Total /\ AllDone
    BY DEF Shape, DispatcherShape, Exhausted
  <2>2. worker[n] # "idle"
    BY <2>1, TesterAssumption DEF Shape, TypeOK, WorkerShape, Node
  <2> QED
    BY <2>1, <2>2 DEF Shape, WorkerShape, AllDone
<1> QED
  BY <1>1, ShapeInvariant, PTL

\* What TestAll returned is not changed behind the back of its caller.
THEOREM ResultsAreFinal == Spec => ResultsFinal
<1>1. Shape /\ [Next]_vars =>
        [dispatcher = "returned" => UNCHANGED <<results, blacklist>>]_vars
  <2> SUFFICES ASSUME Shape, [Next]_vars, dispatcher = "returned"
               PROVE  UNCHANGED <<results, blacklist>>
    OBVIOUS
  <2>1. ASSUME NEW n \in Node PROVE ~Work(n)
    BY <2>1, WorkFrame DEF Shape, DispatcherShape, AllDone
  <2> QED
    BY <2>1 DEF Next, Dispatch, CheckLimit, DispatchWithSlot, DispatchAfterCancel,
                Return, Cancel, Terminated, vars, nodeVars
<1> QED
  BY <1>1, ShapeInvariant, PTL DEF ResultsFinal, Spec

-----------------------------------------------------------------------------
\* The evidence behind a blacklisted hash.

\* Inside the mode loop every mode before the current one has an outcome; and
\* whoever is dead has tried all of them and brought the hash on the list.
Evidence ==
  /\ \A n \in Node : worker[n] \in {"mode", "probe"} =>
       \A m \in Mode : m < mode[n] => outcome[n][m] # "none"
  /\ \A n \in Node : verdict[n] = "dead" =>
       \A m \in Mode : outcome[n][m] \notin {"none", "pass"}
  /\ \A h \in blacklist : \E n \in Node : HashOf[n] = h /\ verdict[n] = "dead"

\* A verdict, once reached, stays, and the outcomes behind it too.
LEMMA VerdictStays ==
  ASSUME Shape, NEW n \in Node, Work(n), NEW k \in Node, verdict[k] # "none"
  PROVE  verdict'[k] = verdict[k] /\ outcome'[k] = outcome[k]
<1>1. k = n => worker[n] \in {"report", "release"}
  BY WorkFrame DEF Shape, WorkerShape, TypeOK, WorkerStates
<1> QED
  BY <1>1
  DEF Shape, TypeOK, Work, Moves, SkipListed, StartModes, AbortNode, SkipMode,
      StartProbe, EndProbe, PanicAndRecover, MarkDead, StoreResult, CountResult,
      Release, nodeVars

LEMMA EvidenceStep == Shape /\ Evidence /\ [Next]_vars => Evidence'
<1> SUFFICES ASSUME Shape, Evidence, [Next]_vars PROVE Evidence'
  OBVIOUS
<1>1. CASE Dispatch \/ Cancel \/ UNCHANGED vars
  <2>1. UNCHANGED <<mode, outcome, verdict, blacklist>>
    BY <1>1 DEF Dispatch, CheckLimit, DispatchWithSlot, DispatchAfterCancel,
                Return, Cancel, vars, nodeVars
  <2>2. \A n \in Node : worker'[n] \in {"mode", "probe"} => worker'[n] = worker[n]
    BY <1>1 DEF Dispatch, CheckLimit, DispatchWithSlot, DispatchAfterCancel,
                Return, Cancel, vars, Moves, Shape, TypeOK
  <2> QED
    BY <2>1, <2>2 DEF Evidence
<1>2. ASSUME NEW n \in Node, Work(n) PROVE Evidence'
  <2> USE DEF Shape, TypeOK, Evidence, Moves
  <2>1. \A k \in Node \ {n} : /\ worker'[k] = worker[k] /\ mode'[k] = mode[k]
                             /\ outcome'[k] = outcome[k]
                             /\ verdict'[k] = verdict[k]
    BY <1>2 DEF Work, SkipListed, StartModes, AbortNode, SkipMode, StartProbe,
                EndProbe, PanicAndRecover, MarkDead, StoreResult, CountResult,
                Release, nodeVars
  <2>2. worker'[n] \in {"mode", "probe"} =>
          \A m \in Mode : m < mode'[n] => outcome'[n][m] # "none"
    <3>1. CASE StartModes(n)
      BY <1>2, <3>1 DEF StartModes, Mode
    <3>2. CASE SkipMode(n)
      BY <3>2, TesterAssumption DEF SkipMode, Mode
    <3>3. CASE EndProbe(n)
      BY <3>3, TesterAssumption DEF EndProbe, ProbeOutcomes, WorkerShape, Mode
    <3>4. CASE StartProbe(n)
      BY <3>4 DEF StartProbe, nodeVars
    <3> QED
      BY <1>2, <3>1, <3>2, <3>3, <3>4
      DEF Work, SkipListed, AbortNode, PanicAndRecover, MarkDead, StoreResult,
          CountResult, Release
  <2>3. verdict'[n] = "dead" =>
          \A m \in Mode : outcome'[n][m] \notin {"none", "pass"}
    <3>1. CASE MarkDead(n)
      <4>1. \A m \in Mode : outcome[n][m] \notin {"none", "pass"}
        BY <3>1, TesterAssumption
        DEF MarkDead, NoModePassed, PassedModes, Mode
      <4> QED
        BY <3>1, <4>1 DEF MarkDead
    <3>2. CASE ~MarkDead(n)
      <4>1. verdict'[n] = "dead" => verdict[n] = "dead"
        BY <1>2, <3>2 DEF Work, SkipListed, StartModes, AbortNode, SkipMode,
              StartProbe, EndProbe, PanicAndRecover, StoreResult, CountResult,
              Release, nodeVars
      <4> QED
        BY <1>2, <4>1, VerdictStays
    <3> QED
      BY <3>1, <3>2
  <2>4. \A h \in blacklist' :
          \E k \in Node : HashOf[k] = h /\ verdict'[k] = "dead"
    <3>1. CASE MarkDead(n)
      BY <3>1, <1>2, VerdictStays DEF MarkDead, Verdicts
    <3>2. CASE ~MarkDead(n)
      <4>1. blacklist' = blacklist
        BY <1>2, <3>2 DEF Work, SkipListed, StartModes, AbortNode, SkipMode,
              StartProbe, EndProbe, PanicAndRecover, StoreResult, CountResult,
              Release, nodeVars
      <4> QED
        BY <1>2, <4>1, VerdictStays
    <3> QED
      BY <3>1, <3>2
  <2> HIDE DEF Shape, TypeOK, Moves
  <2>5. \A k \in Node : worker'[k] \in {"mode", "probe"} =>
          \A m \in Mode : m < mode'[k] => outcome'[k][m] # "none"
    BY <2>1, <2>2
  <2>6. \A k \in Node : verdict'[k] = "dead" =>
          \A m \in Mode : outcome'[k][m] \notin {"none", "pass"}
    BY <2>1, <2>3
  <2> QED
    BY <2>4, <2>5, <2>6
<1> QED
  BY <1>1, <1>2 DEF Next, Terminated

LEMMA EvidenceInvariant == Spec => [](Shape /\ Evidence)
<1>1. Init => Evidence
  BY DEF Init, Evidence
<1>2. Shape /\ Evidence /\ [Next]_vars => Shape' /\ Evidence'
  BY TypeStep, WorkerStep, DispatcherStep, EvidenceStep DEF Shape
<1> QED
  BY <1>1, <1>2, InitShape, PTL DEF Spec

\* Only a candidate that went on to its last mode, skipped and interrupted modes
\* included, gets its hash listed.
THEOREM ListedTried == Spec => []ListedWasTried
<1>1. Evidence => ListedWasTried
  BY DEF Evidence, ListedWasTried
<1> QED
  BY <1>1, EvidenceInvariant, PTL

\* A node is reported and blacklisted at once only because of another candidate
\* with the same hash.
THEOREM TwinOnly == Spec => []ReportedAndListedHasTwin
<1>1. Evidence => ReportedAndListedHasTwin
  BY DEF Evidence, ReportedAndListedHasTwin
<1> QED
  BY <1>1, EvidenceInvariant, PTL

-----------------------------------------------------------------------------
\* TestAll implements VerificationPool.

\* Only a cancelled run starts goroutines without a slot.
CancelShape == unslotted # {} => cancelled

Simulated == Shape /\ Counting /\ CancelShape

LEMMA SimulatedInvariant == Spec => []Simulated
<1>1. Init => CancelShape
  BY DEF Init, CancelShape
<1>2. Shape /\ CancelShape /\ [Next]_vars => CancelShape'
  <2> SUFFICES ASSUME Shape, CancelShape, [Next]_vars PROVE CancelShape'
    OBVIOUS
  <2>1. ASSUME NEW n \in Node, Work(n) PROVE UNCHANGED <<unslotted, cancelled>>
    BY <2>1, WorkFrame DEF Shape
  <2> QED
    BY <2>1 DEF Next, Dispatch, CheckLimit, DispatchWithSlot, DispatchAfterCancel,
                Return, Cancel, Terminated, vars, dispatchVars, CancelShape
<1> QED
  BY <1>1, <1>2, ShapeInvariant, CountingInvariant, PTL DEF Spec, Simulated

\* Where nothing about the workers changes, neither does the abstract status.
LEMMA SameStatus ==
  ASSUME UNCHANGED <<worker, verdict>>
  PROVE  \A n \in Node : StatusOf(n)' = StatusOf(n)
  BY DEF StatusOf

\* A step of one worker changes one status.
LEMMA OneStatus ==
  ASSUME Shape, NEW k \in Node,
         \A n \in Node \ {k} : worker'[n] = worker[n] /\ verdict'[n] = verdict[n]
  PROVE  [n \in Node |-> StatusOf(n)]' =
           [[n \in Node |-> StatusOf(n)] EXCEPT ![k] = StatusOf(k)']
<1>1. \A n \in Node \ {k} : StatusOf(n)' = StatusOf(n)
  BY DEF StatusOf
<1> QED
  BY <1>1

LEMMA PoolCardinality == \A S : Pool!Cardinality(S) = Cardinality(S)
  BY DEF Pool!Cardinality, Cardinality

LEMMA PoolStartStep ==
  ASSUME Simulated, DispatchWithSlot \/ DispatchAfterCancel,
         NEW k \in Node, k = next
  PROVE  Pool!PoolStart(k)
<1> USE DEF Simulated
<1>1. dispatcher = "select" /\ dispatcher' = "limit"
  BY DEF DispatchWithSlot, DispatchAfterCancel
<1>2. /\ worker[k] = "idle" /\ worker' = [worker EXCEPT ![k] = "check"]
      /\ UNCHANGED <<verdict, results, blacklist, cancelled>>
  BY DEF DispatchWithSlot, DispatchAfterCancel, Moves, nodeVars
<1>3. StatusOf(k) = "waiting" /\ StatusOf(k)' = "testing"
  <2>1. verdict[k] = "none" /\ worker'[k] = "check"
    BY <1>1, <1>2 DEF Shape, TypeOK, WorkerShape
  <2> QED
    BY <1>2, <2>1 DEF StatusOf
<1>4. cancelled \/ Cardinality(Pool!With("testing")) < Slots
  <2> SUFFICES ASSUME ~cancelled PROVE Cardinality(Pool!With("testing")) < Slots
    OBVIOUS
  <2>1. sem < Slots /\ unslotted = {}
    BY DEF DispatchWithSlot, DispatchAfterCancel, SlotFree, CancelShape
  <2>2. Cardinality(Live) = sem
    BY <2>1, FS_EmptySet DEF Counting, SlotAccounting, Shape, TypeOK
  <2>3. Pool!With("testing") \subseteq Live
    BY DEF Pool!With, StatusOf, Live, Shape, WorkerShape, TypeOK, Verdicts
  <2>4. /\ IsFiniteSet(Pool!With("testing"))
        /\ Cardinality(Pool!With("testing")) <= Cardinality(Live)
    BY <2>3, SetTypes, FS_Subset DEF Shape
  <2>5. Cardinality(Pool!With("testing")) \in Nat
    BY <2>4, FS_CardinalityType
  <2> QED
    BY <2>1, <2>2, <2>4, <2>5, SlotsType DEF Shape, TypeOK
<1>5. [n \in Node |-> StatusOf(n)]' =
        [[n \in Node |-> StatusOf(n)] EXCEPT ![k] = "testing"]
  <2>1. \A n \in Node \ {k} :
          worker'[n] = worker[n] /\ verdict'[n] = verdict[n]
    BY <1>1, <1>2 DEF Shape, TypeOK
  <2> QED
    BY <1>3, <2>1, OneStatus
<1> QED
  BY <1>1, <1>2, <1>3, <1>4, <1>5, PoolCardinality DEF Pool!PoolStart

\* The four ways in which TestNode ends.
LEMMA PoolSettleStep ==
  ASSUME Simulated, NEW k \in Node,
         \/ SkipListed(k) \/ AbortNode(k) \/ PanicAndRecover(k)
         \/ MarkDead(k) \/ StoreResult(k)
  PROVE  Pool!PoolReport(k) \/ Pool!PoolList(k) \/ Pool!PoolDrop(k)
<1> USE DEF Simulated
<1> DEFINE status == [n \in Node |-> StatusOf(n)]
<1>1. /\ worker[k] \in {"check", "mode", "probe"}
      /\ worker'[k] \in {"report", "release"}
      /\ \A n \in Node \ {k} : worker'[n] = worker[n] /\ verdict'[n] = verdict[n]
      /\ UNCHANGED <<dispatcher, cancelled>>
  BY DEF SkipListed, AbortNode, PanicAndRecover, MarkDead, StoreResult, Moves,
         Shape, TypeOK, dispatchVars
<1>2. StatusOf(k) = "testing"
  BY <1>1 DEF StatusOf, Shape, WorkerShape
<1>3. dispatcher # "returned"
  BY <1>1 DEF Shape, DispatcherShape, AllDone
<1>4. status' = [status EXCEPT ![k] = StatusOf(k)']
  BY <1>1, OneStatus
<1>5. CASE StoreResult(k)
  <2>1. verdict'[k] = "passed" /\ results' = Append(results, k)
        /\ blacklist' = blacklist
    BY <1>5 DEF StoreResult, Shape, TypeOK
  <2>2. StatusOf(k)' = "passed"
    BY <1>1, <2>1 DEF StatusOf
  <2>3. Pool!Settle(k, "passed")
    BY <1>1, <1>2, <1>3, <1>4, <2>2 DEF Pool!Settle
  <2> QED
    BY <2>1, <2>3 DEF Pool!PoolReport
<1>6. CASE MarkDead(k)
  <2>1. verdict'[k] = "dead" /\ results' = results
        /\ blacklist' = blacklist \union {HashOf[k]}
    BY <1>6 DEF MarkDead, Shape, TypeOK
  <2>2. StatusOf(k)' = "dead"
    BY <1>1, <2>1 DEF StatusOf
  <2>3. Pool!Settle(k, "dead")
    BY <1>1, <1>2, <1>3, <1>4, <2>2 DEF Pool!Settle
  <2> QED
    BY <2>1, <2>3 DEF Pool!PoolList
<1>7. CASE SkipListed(k) \/ AbortNode(k) \/ PanicAndRecover(k)
  <2>1. /\ verdict'[k] \in {"listed", "aborted", "panicked"}
        /\ HashOf[k] \in blacklist \/ cancelled \/ "panic" \in Faults
        /\ UNCHANGED <<results, blacklist>>
    BY <1>7 DEF SkipListed, AbortNode, PanicAndRecover, Shape, TypeOK
  <2>2. StatusOf(k)' = "dropped"
    BY <1>1, <2>1 DEF StatusOf
  <2>3. Pool!Settle(k, "dropped")
    BY <1>1, <1>2, <1>3, <1>4, <2>2 DEF Pool!Settle
  <2> QED
    BY <2>1, <2>3 DEF Pool!PoolDrop
<1> QED
  BY <1>5, <1>6, <1>7

\* The steps in between are not visible from outside.
LEMMA PoolStutterStep ==
  ASSUME Simulated,
         \/ CheckLimit \/ UNCHANGED vars
         \/ \E n \in Node : \/ StartModes(n) \/ SkipMode(n) \/ StartProbe(n)
                           \/ EndProbe(n) \/ CountResult(n) \/ Release(n)
  PROVE  UNCHANGED Pool!poolVars
<1> USE DEF Simulated
<1>1. CASE CheckLimit \/ UNCHANGED vars
  <2>1. UNCHANGED <<worker, verdict, results, blacklist, cancelled>>
    BY <1>1 DEF CheckLimit, vars, nodeVars
  <2>2. (dispatcher = "returned")' = (dispatcher = "returned")
    BY <1>1 DEF CheckLimit, vars, dispatchVars
  <2> QED
    BY <2>1, <2>2, SameStatus DEF Pool!poolVars
<1>2. ASSUME NEW n \in Node,
             \/ StartModes(n) \/ SkipMode(n) \/ StartProbe(n)
             \/ EndProbe(n) \/ CountResult(n) \/ Release(n)
      PROVE  UNCHANGED Pool!poolVars
  <2>1. UNCHANGED <<verdict, results, blacklist, cancelled, dispatcher>>
    BY <1>2 DEF StartModes, SkipMode, StartProbe, EndProbe, CountResult, Release,
                nodeVars, dispatchVars
  <2>2. \A k \in Node : worker'[k] = "idle" <=> worker[k] = "idle"
    BY <1>2 DEF StartModes, SkipMode, StartProbe, EndProbe, CountResult, Release,
                Moves, Shape, TypeOK
  <2>3. \A k \in Node : StatusOf(k)' = StatusOf(k)
    BY <2>1, <2>2 DEF StatusOf
  <2> QED
    BY <2>1, <2>3 DEF Pool!poolVars
<1> QED
  BY <1>1, <1>2

\* TestAll returns only when the abstract pool may.
LEMMA PoolReturnStep == Simulated /\ Return => Pool!PoolReturn
<1> SUFFICES ASSUME Simulated, Return PROVE Pool!PoolReturn
  OBVIOUS
<1> USE DEF Simulated
<1>1. /\ AllDone /\ dispatcher = "wait" /\ dispatcher' = "returned"
      /\ UNCHANGED <<worker, verdict, results, blacklist, cancelled>>
  BY DEF Return, nodeVars
<1>2. Pool!With("testing") = {}
  BY <1>1 DEF Pool!With, StatusOf, AllDone, Shape, WorkerShape, TypeOK, Verdicts
<1>3. CASE Exhausted
  <2>1. \A n \in Node : worker[n] # "idle"
    BY <1>3, TesterAssumption DEF Exhausted, Shape, WorkerShape, TypeOK, Node
  <2>2. Pool!With("waiting") = {}
    BY <2>1 DEF Pool!With, StatusOf, Shape, TypeOK, Verdicts
  <2> QED
    BY <1>1, <1>2, <2>2, SameStatus DEF Pool!PoolReturn
<1>4. CASE LimitReached
  <2>1. MaxNodes > 0 /\ Len(results) >= MaxNodes
    BY <1>4, SetTypes, TesterAssumption
    DEF Counting, LimitReached, Shape, TypeOK
  <2> QED
    BY <1>1, <1>2, <2>1, SameStatus DEF Pool!PoolReturn
<1> QED
  BY <1>1, <1>3, <1>4 DEF Shape, DispatcherShape

\* For every instance, TestAll implements the abstract pool: a bounded number in
\* test, every candidate settled at most once, and an end only when the candidates
\* are exhausted or enough have passed.
THEOREM Refinement == Spec => ImplementsPool
<1>1. Init => Pool!PoolInit
  BY DEF Init, Pool!PoolInit, StatusOf
<1>2. Simulated /\ [Next]_vars => [Pool!PoolNext]_Pool!poolVars
  <2> SUFFICES ASSUME Simulated, [Next]_vars
               PROVE  [Pool!PoolNext]_Pool!poolVars
    OBVIOUS
  <2>1. CASE DispatchWithSlot \/ DispatchAfterCancel
    <3>1. next \in Node
      BY <2>1, TesterAssumption
      DEF DispatchWithSlot, DispatchAfterCancel, Simulated, Shape, TypeOK,
          DispatcherShape, Node
    <3> QED
      BY <2>1, <3>1, PoolStartStep DEF Pool!PoolNext
  <2>2. CASE Return
    BY <2>2, PoolReturnStep DEF Pool!PoolNext
  <2>3. CASE Cancel
    <3>1. Pool!PoolCancel
      BY <2>3, SameStatus DEF Cancel, Pool!PoolCancel, dispatchVars, nodeVars
    <3> QED
      BY <3>1 DEF Pool!PoolNext
  <2>4. ASSUME NEW n \in Node, Work(n) PROVE [Pool!PoolNext]_Pool!poolVars
    BY <2>4, PoolSettleStep, PoolStutterStep DEF Work, Pool!PoolNext
  <2>5. CASE CheckLimit \/ UNCHANGED vars
    BY <2>5, PoolStutterStep
  <2> QED
    BY <2>1, <2>2, <2>3, <2>4, <2>5 DEF Next, Dispatch, Terminated
<1> QED
  BY <1>1, <1>2, SimulatedInvariant, PTL DEF Spec, ImplementsPool, Pool!PoolSpec
=============================================================================
