------------------------------- MODULE Tester -------------------------------
(***************************************************************************)
(* The sandbox verification pool, internal/sandbox/tester.go.              *)
(*                                                                         *)
(* TestAll walks over the candidates in order.  For each it re-reads the   *)
(* counter of passed nodes, takes a slot of the channel sem and starts a   *)
(* goroutine that runs TestNode over the configured connection modes.      *)
(* TestNode ends in a result, in a blacklisted hash, or in neither (node   *)
(* already listed, context cancelled, panic).  When the goroutine ends it  *)
(* receives from sem and leaves the wait group; TestAll returns when the   *)
(* group is empty.                                                         *)
(*                                                                         *)
(* One action is one step another goroutine can observe: an operation on   *)
(* sem, on the atomic counter passed, under t.mu, or under the blacklist   *)
(* lock.  What a probe does on the network is a nondeterministic outcome.  *)
(***************************************************************************)
EXTENDS Integers, FiniteSets, Sequences

CONSTANTS
  Total,        \* how many candidates TestAll is given
  HashOf,       \* the blacklist hash of each candidate
  NumModes,     \* len(t.testModes)
  Concurrency,  \* cfg.Concurrency as configured, possibly not positive
  MaxNodes,     \* cfg.MaxNodes, no limit when not positive
  Faults        \* the environment events of this instance

Node == 1..Total
Mode == 1..NumModes
Hash == {HashOf[n] : n \in Node}

ASSUME TesterAssumption ==
  /\ Total \in Nat
  /\ NumModes \in Nat \ {0}
  /\ Concurrency \in Int
  /\ MaxNodes \in Int
  /\ HashOf = [n \in Node |-> HashOf[n]]
  /\ Faults \subseteq {"cancel", "port", "config", "panic"}

\* NewTester replaces a concurrency that is not positive.
DefaultConcurrency == 50
PoolSize == IF Concurrency <= 0 THEN DefaultConcurrency ELSE Concurrency

\* The capacity of sem: never more slots than candidates.
Slots == IF PoolSize > Total THEN Total ELSE PoolSize

VARIABLES
  dispatcher,  \* where the loop of TestAll is
  next,        \* the candidate the loop is at
  sem,         \* how many values the channel sem holds
  unslotted,   \* history: candidates whose goroutine started without a slot
  cancelled,   \* is ctx done?
  worker,      \* where the goroutine of each candidate is
  mode,        \* the connection mode each TestNode is at
  outcome,     \* history: what became of each mode of each candidate
  verdict,     \* how TestNode ended for each candidate
  results,     \* t.results, in the order of the appends
  passed,      \* the atomic counters of TestAll
  completed,
  blacklist    \* the hashes of the candidates that are blacklisted

dispatchVars == <<dispatcher, next, unslotted>>
nodeVars     == <<mode, outcome, verdict, results, blacklist>>
counters     == <<passed, completed>>
vars == <<dispatchVars, sem, cancelled, worker, nodeVars, counters>>

DispatcherStates == {"limit", "select", "wait", "returned"}
WorkerStates ==
  {"idle", "check", "mode", "probe", "report", "release", "done"}
Outcomes == {"none", "pass", "fail", "skipped", "interrupted"}
Verdicts == {"none", "passed", "dead", "listed", "aborted", "panicked"}

\* Goroutines that were started and have not left the wait group.
Live == {n \in Node : worker[n] \notin {"idle", "done"}}

PassedModes(n) == {m \in Mode : outcome[n][m] = "pass"}

Moves(n, from, to) ==
  /\ worker[n] = from
  /\ worker' = [worker EXCEPT ![n] = to]

-----------------------------------------------------------------------------
\* The dispatcher: the loop of TestAll.

\* Bug: the comparison of the limit is off by one.
LimitOffByOne == MaxNodes > 0 /\ passed > MaxNodes

LimitReached == MaxNodes > 0 /\ passed >= MaxNodes

\* Bug: the last candidate is left out.
ExhaustedEarly == next >= Total

Exhausted == next > Total

SlotFree == sem < Slots

\* Bug: wg.Add is called by the goroutine instead of before it is started.
AllAddedDone == \A n \in Node : worker[n] \in {"idle", "check", "done"}

AllDone == \A n \in Node : worker[n] \in {"idle", "done"}

\* The head of the loop, which stops at the end or once enough have passed.
CheckLimit ==
  /\ dispatcher = "limit"
  /\ dispatcher' = IF Exhausted \/ LimitReached THEN "wait" ELSE "select"
  /\ UNCHANGED <<next, unslotted, sem, cancelled, worker, nodeVars, counters>>

\* The send on sem is ready: the goroutine owns a slot.
DispatchWithSlot ==
  /\ dispatcher = "select"
  /\ SlotFree
  /\ sem' = sem + 1
  /\ Moves(next, "idle", "check")
  /\ next' = next + 1
  /\ dispatcher' = "limit"
  /\ UNCHANGED <<unslotted, cancelled, nodeVars, counters>>

\* ctx is done: break leaves the select, not the loop, and the goroutine
\* starts all the same, without a slot.
DispatchAfterCancel ==
  /\ dispatcher = "select"
  /\ cancelled
  /\ unslotted' = unslotted \union {next}
  /\ Moves(next, "idle", "check")
  /\ next' = next + 1
  /\ dispatcher' = "limit"
  /\ UNCHANGED <<sem, cancelled, nodeVars, counters>>

\* wg.Wait returns, and TestAll with it.
Return ==
  /\ dispatcher = "wait"
  /\ AllDone
  /\ dispatcher' = "returned"
  /\ UNCHANGED <<next, unslotted, sem, cancelled, worker, nodeVars, counters>>

\* main cancels the root context when a signal arrives.
Cancel ==
  /\ "cancel" \in Faults
  /\ ~cancelled
  /\ dispatcher # "returned"
  /\ cancelled' = TRUE
  /\ UNCHANGED <<dispatchVars, sem, worker, nodeVars, counters>>

-----------------------------------------------------------------------------
\* A worker: TestNode and the goroutine around it.

\* A candidate whose hash was blacklisted in the meantime is not tested.
SkipListed(n) ==
  /\ HashOf[n] \in blacklist
  /\ Moves(n, "check", "report")
  /\ verdict' = [verdict EXCEPT ![n] = "listed"]
  /\ UNCHANGED <<dispatchVars, sem, cancelled, mode, outcome, results,
                 blacklist, counters>>

StartModes(n) ==
  /\ HashOf[n] \notin blacklist
  /\ Moves(n, "check", "mode")
  /\ mode' = [mode EXCEPT ![n] = 1]
  /\ UNCHANGED <<dispatchVars, sem, cancelled, outcome, verdict, results,
                 blacklist, counters>>

\* The select at the head of the mode loop sees ctx done: no verdict.
AbortNode(n) ==
  /\ mode[n] <= NumModes
  /\ cancelled
  /\ Moves(n, "mode", "report")
  /\ verdict' = [verdict EXCEPT ![n] = "aborted"]
  /\ UNCHANGED <<dispatchVars, sem, cancelled, mode, outcome, results,
                 blacklist, counters>>

\* No port, or no configuration: continue with the next mode.
SkipMode(n) ==
  /\ {"port", "config"} \intersect Faults # {}
  /\ mode[n] <= NumModes
  /\ ~cancelled
  /\ worker[n] = "mode"
  /\ outcome' = [outcome EXCEPT ![n][mode[n]] = "skipped"]
  /\ mode' = [mode EXCEPT ![n] = @ + 1]
  /\ UNCHANGED <<dispatchVars, sem, cancelled, worker, verdict, results,
                 blacklist, counters>>

StartProbe(n) ==
  /\ mode[n] <= NumModes
  /\ ~cancelled
  /\ Moves(n, "mode", "probe")
  /\ UNCHANGED <<dispatchVars, sem, cancelled, nodeVars, counters>>

\* What a probe can end in: once ctx is done its requests may fail for that
\* reason alone.
ProbeOutcomes ==
  {"pass", "fail"} \union (IF cancelled THEN {"interrupted"} ELSE {})

EndProbe(n) ==
  /\ Moves(n, "probe", "mode")
  /\ \E o \in ProbeOutcomes : outcome' = [outcome EXCEPT ![n][mode[n]] = o]
  /\ mode' = [mode EXCEPT ![n] = @ + 1]
  /\ UNCHANGED <<dispatchVars, sem, cancelled, verdict, results, blacklist,
                 counters>>

\* A panic while a mode is tested or the node enriched; the goroutine recovers
\* and goes straight to its deferred calls.
PanicAndRecover(n) ==
  /\ "panic" \in Faults
  /\ \E from \in {"mode", "probe"} : Moves(n, from, "release")
  /\ verdict' = [verdict EXCEPT ![n] = "panicked"]
  /\ UNCHANGED <<dispatchVars, sem, cancelled, mode, outcome, results,
                 blacklist, counters>>

\* Bug: one failed mode is enough.
SomeModeFailed(n) == PassedModes(n) # Mode

NoModePassed(n) == PassedModes(n) = {}

\* Every mode was tried and none passed: the hash is blacklisted.
MarkDead(n) ==
  /\ mode[n] > NumModes
  /\ NoModePassed(n)
  /\ Moves(n, "mode", "report")
  /\ blacklist' = blacklist \union {HashOf[n]}
  /\ verdict' = [verdict EXCEPT ![n] = "dead"]
  /\ UNCHANGED <<dispatchVars, sem, cancelled, mode, outcome, results,
                 counters>>

\* Bug: the hash of a node that passed is blacklisted with its results.
StoreAndListResult(n) ==
  /\ mode[n] > NumModes
  /\ ~NoModePassed(n)
  /\ Moves(n, "mode", "report")
  /\ results' = Append(results, n)
  /\ blacklist' = blacklist \union
       (IF PassedModes(n) # Mode THEN {HashOf[n]} ELSE {})
  /\ verdict' = [verdict EXCEPT ![n] = "passed"]
  /\ UNCHANGED <<dispatchVars, sem, cancelled, mode, outcome, counters>>

\* Some mode passed: the result is appended under t.mu.
StoreResult(n) ==
  /\ mode[n] > NumModes
  /\ ~NoModePassed(n)
  /\ Moves(n, "mode", "report")
  /\ results' = Append(results, n)
  /\ verdict' = [verdict EXCEPT ![n] = "passed"]
  /\ UNCHANGED <<dispatchVars, sem, cancelled, mode, outcome, blacklist,
                 counters>>

\* err == nil && res != nil
Succeeded(n) == verdict[n] = "passed"

\* Back in the goroutine, which counts the node.
CountResult(n) ==
  /\ Moves(n, "report", "release")
  /\ completed' = completed + 1
  /\ passed' = IF Succeeded(n) THEN passed + 1 ELSE passed
  /\ UNCHANGED <<dispatchVars, sem, cancelled, nodeVars>>

\* Bug: the receive is the last statement of the goroutine, not deferred.
ReleaseNotDeferred(n) ==
  /\ sem > 0
  /\ sem' = IF verdict[n] = "panicked" THEN sem ELSE sem - 1
  /\ Moves(n, "release", "done")
  /\ UNCHANGED <<dispatchVars, cancelled, nodeVars, counters>>

\* The deferred receive from sem, which blocks on an empty channel, and the
\* deferred wg.Done after it.
Release(n) ==
  /\ sem > 0
  /\ sem' = sem - 1
  /\ Moves(n, "release", "done")
  /\ UNCHANGED <<dispatchVars, cancelled, nodeVars, counters>>

-----------------------------------------------------------------------------

Init ==
  /\ dispatcher = "limit"
  /\ next = 1
  /\ sem = 0
  /\ unslotted = {}
  /\ cancelled = FALSE
  /\ worker = [n \in Node |-> "idle"]
  /\ mode = [n \in Node |-> 0]
  /\ outcome = [n \in Node |-> [m \in Mode |-> "none"]]
  /\ verdict = [n \in Node |-> "none"]
  /\ results = <<>>
  /\ passed = 0
  /\ completed = 0
  /\ blacklist = {}

Dispatch == CheckLimit \/ DispatchWithSlot \/ DispatchAfterCancel \/ Return

Work(n) ==
  \/ SkipListed(n) \/ StartModes(n)
  \/ AbortNode(n) \/ SkipMode(n) \/ StartProbe(n) \/ EndProbe(n)
  \/ PanicAndRecover(n)
  \/ MarkDead(n) \/ StoreResult(n)
  \/ CountResult(n) \/ Release(n)

Terminated == dispatcher = "returned" /\ UNCHANGED vars

Next == Dispatch \/ Cancel \/ (\E n \in Node : Work(n)) \/ Terminated

Spec == Init /\ [][Next]_vars

\* The Go scheduler runs every goroutine that is ready, and every probe ends
\* because it runs under context.WithTimeout.  Nobody has to cancel.
Fairness == WF_vars(Dispatch) /\ \A n \in Node : WF_vars(Work(n))

FairSpec == Spec /\ Fairness

-----------------------------------------------------------------------------
\* What must hold of a verification run.

TypeOK ==
  /\ dispatcher \in DispatcherStates
  /\ next \in 1..(Total + 1)
  /\ sem \in 0..Slots
  /\ unslotted \subseteq Node
  /\ cancelled \in BOOLEAN
  /\ worker \in [Node -> WorkerStates]
  /\ mode \in [Node -> 0..(NumModes + 1)]
  /\ outcome \in [Node -> [Mode -> Outcomes]]
  /\ verdict \in [Node -> Verdicts]
  /\ results \in Seq(Node)
  /\ passed \in Nat
  /\ completed \in Nat
  /\ blacklist \subseteq Hash

\* Every started goroutine that has not ended accounts for one value in sem or
\* for one start without a slot.  A worker that ends any other way than through
\* the deferred receive shrinks the pool for the rest of the run.
SlotAccounting == sem + Cardinality(unslotted) = Cardinality(Live)

\* TestAll may report more than MaxNodes nodes: it reads the counter before it
\* waits for a slot, and the workers in flight go on.  But no more than one for
\* each slot, the last worker started included.
OvershootBound ==
  MaxNodes > 0 /\ unslotted = {} => Len(results) <= MaxNodes + Slots

\* The counter the loop stops on never runs ahead of the results TestAll hands
\* over, and has caught up with them when it does.
PassedIsReported ==
  /\ passed <= Len(results)
  /\ dispatcher = "returned" => passed = Len(results)

\* A run that was neither cancelled nor stopped by the limit looked at every
\* candidate: no early return and no lost goroutine leaves one out.
CompleteCoverage ==
  dispatcher = "returned" /\ ~cancelled /\ ~LimitReached =>
    \A n \in Node : verdict[n] # "none"

\* A hash gets on the blacklist only through a candidate that went on to its last
\* mode without one success; never through one that was stopped half way by a
\* cancellation or a panic.  A mode that was skipped, or whose probe the
\* cancellation broke off, counts as gone through: that a listed node was probed is
\* DeadMeansProbed, which does not hold.
ListedWasTried ==
  \A h \in blacklist : \E n \in Node :
    /\ HashOf[n] = h
    /\ \A m \in Mode : outcome[n][m] \notin {"none", "pass"}

\* A node that is reported as verified and blacklisted at once has a twin: two
\* candidates with one hash (the deduplication upstream uses another key) that
\* were tested side by side with different luck.
ReportedAndListedHasTwin ==
  \A n \in Node :
    verdict[n] = "passed" /\ HashOf[n] \in blacklist =>
      \E k \in Node \ {n} : HashOf[k] = HashOf[n] /\ verdict[k] = "dead"

\* A goroutine that was started without a slot takes the slot of another when it
\* ends, so that TestAll never returns from a run that started one.
UnslottedNeverReturns == dispatcher = "returned" => unslotted = {}

\* When TestAll has returned no worker is left behind to add to the results, or
\* to a blacklist that the pipeline is about to save.
ResultsFinal ==
  [][dispatcher = "returned" => UNCHANGED <<results, blacklist>>]_vars

\* The run seen from outside: a candidate is in test from the start of its
\* goroutine to the verdict of TestNode.
StatusOf(n) ==
  CASE worker[n] = "idle" -> "waiting"
    [] worker[n] # "idle" /\ verdict[n] = "none" -> "testing"
    [] verdict[n] \in {"listed", "aborted", "panicked"} -> "dropped"
    [] OTHER -> verdict[n]

Pool == INSTANCE VerificationPool WITH
  Node      <- Node,
  Bound     <- Slots,
  status    <- [n \in Node |-> StatusOf(n)],
  reported  <- results,
  listed    <- blacklist,
  returned  <- dispatcher = "returned"

\* TestAll implements the abstract pool: never more candidates in test than
\* slots unless cancelled, each settled once, and no return before all of them
\* are settled or enough have passed.
ImplementsPool == Pool!PoolSpec

\* tester.go:149: "All modes failed: mark as dead account in blacklist".
DeadMeansProbed ==
  \A n \in Node :
    verdict[n] = "dead" => \A m \in Mode : outcome[n][m] = "fail"

\* main.go:45: the signal handler shuts the program down "gracefully": TestAll
\* returns, cancelled or not.
TestAllReturns == <>(dispatcher = "returned")
=============================================================================
