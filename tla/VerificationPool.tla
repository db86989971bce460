-------------------------- MODULE VerificationPool --------------------------
(***************************************************************************)
(* What TestAll promises the pipeline, without goroutines, channel and     *)
(* counters: every candidate that is tested is settled once, as reported,  *)
(* blacklisted or dropped; a bounded number is in test at a time; and the  *)
(* run ends with nothing in test, having looked at every candidate unless  *)
(* enough have passed.                                                     *)
(***************************************************************************)
EXTENDS Integers, FiniteSets, Sequences

CONSTANTS
  Node,      \* the candidates
  HashOf,    \* their blacklist hashes
  Bound,     \* how many may be in test while nobody cancels
  MaxNodes,  \* how many are wanted, all of them when not positive
  Faults     \* the environment events of this instance

VARIABLES
  status,     \* what has become of each candidate
  reported,   \* the results, in order
  listed,     \* the blacklisted hashes
  cancelled,  \* has the caller given up?
  returned    \* is the run over?

poolVars == <<status, reported, listed, cancelled, returned>>

Statuses == {"waiting", "testing", "passed", "dead", "dropped"}

With(s) == {n \in Node : status[n] = s}

Settle(n, s) ==
  /\ ~returned
  /\ status[n] = "testing"
  /\ status' = [status EXCEPT ![n] = s]
  /\ UNCHANGED <<cancelled, returned>>

PoolInit ==
  /\ status = [n \in Node |-> "waiting"]
  /\ reported = <<>>
  /\ listed = {}
  /\ cancelled = FALSE
  /\ returned = FALSE

\* A cancelled run no longer keeps to the bound.
PoolStart(n) ==
  /\ ~returned
  /\ status[n] = "waiting"
  /\ cancelled \/ Cardinality(With("testing")) < Bound
  /\ status' = [status EXCEPT ![n] = "testing"]
  /\ UNCHANGED <<reported, listed, cancelled, returned>>

PoolReport(n) ==
  /\ Settle(n, "passed")
  /\ reported' = Append(reported, n)
  /\ UNCHANGED listed

PoolList(n) ==
  /\ Settle(n, "dead")
  /\ listed' = listed \union {HashOf[n]}
  /\ UNCHANGED reported

\* A candidate is dropped for one of three reasons only.
PoolDrop(n) ==
  /\ HashOf[n] \in listed \/ cancelled \/ "panic" \in Faults
  /\ Settle(n, "dropped")
  /\ UNCHANGED <<reported, listed>>

PoolCancel ==
  /\ ~returned
  /\ ~cancelled
  /\ cancelled' = TRUE
  /\ UNCHANGED <<status, reported, listed, returned>>

PoolReturn ==
  /\ ~returned
  /\ With("testing") = {}
  /\ \/ With("waiting") = {}
     \/ MaxNodes > 0 /\ Len(reported) >= MaxNodes
  /\ returned' = TRUE
  /\ UNCHANGED <<status, reported, listed, cancelled>>

PoolNext ==
  \/ PoolCancel
  \/ PoolReturn
  \/ \E n \in Node : PoolStart(n) \/ PoolReport(n) \/ PoolList(n) \/ PoolDrop(n)

PoolSpec == PoolInit /\ [][PoolNext]_poolVars
=============================================================================
