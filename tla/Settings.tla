------------------------------ MODULE Settings ------------------------------
(***************************************************************************)
(* What the components make of the numbers an operator sets: LoadConfig of *)
(* config/config.go, and the fallbacks of NewTester and TestAll, of        *)
(* NewRunner, of WithWorkers and of Execute, each of which has its own.    *)
(*                                                                         *)
(* A variable holds an integer, or nothing or something else: then Atoi    *)
(* refuses it.  A flag is an integer or is not given; the flag package     *)
(* ends the program over any other.  A timeout is in seconds.              *)
(***************************************************************************)
EXTENDS Integers

Numbers == {"MAX_NODES", "CONCURRENCY_WORKERS", "TEST_TIMEOUT_SECONDS"}

NotANumber == [valid |-> FALSE, value |-> 0]
Number(n) == [valid |-> TRUE, value |-> n]

Documented ==
  [k \in Numbers |-> CASE k = "MAX_NODES"            -> 500
                       [] k = "CONCURRENCY_WORKERS"  -> 100
                       [] k = "TEST_TIMEOUT_SECONDS" -> 5]

getEnvAsInt(env, k) == IF env[k].valid THEN env[k].value ELSE Documented[k]

\* The flag of a number, where there is one, has the variable as its default.
LoadConfig(env, flags) ==
  [k \in Numbers |->
     IF k # "TEST_TIMEOUT_SECONDS" /\ flags[k].valid
       THEN flags[k].value ELSE getEnvAsInt(env, k)]

\* Bug: only a setting that is missing is replaced.
PoolAsSet(cfg) == cfg["CONCURRENCY_WORKERS"]

\* NewTester.
Pool(cfg) ==
  IF cfg["CONCURRENCY_WORKERS"] <= 0 THEN 50 ELSE cfg["CONCURRENCY_WORKERS"]

\* The capacity of sem in TestAll, which returns at once if there is no node.
Slots(cfg, total) == IF Pool(cfg) > total THEN total ELSE Pool(cfg)

\* Of GatherFromSources.
Workers(cfg) ==
  IF cfg["CONCURRENCY_WORKERS"] > 0 THEN cfg["CONCURRENCY_WORKERS"] ELSE 20

\* One request of a probe, by the HTTP client; and all of them, by the context.
ClientTimeout(cfg) ==
  IF cfg["TEST_TIMEOUT_SECONDS"] <= 0 THEN 5 ELSE cfg["TEST_TIMEOUT_SECONDS"]
ContextTimeout(cfg) == cfg["TEST_TIMEOUT_SECONDS"]

\* Bug: a limit of zero is a limit.
LimitAlways(cfg, passed) == passed < cfg["MAX_NODES"]

\* May TestAll dispatch one more node when so many nodes have passed?
Dispatches(cfg, passed) == cfg["MAX_NODES"] <= 0 \/ passed < cfg["MAX_NODES"]

\* Does Execute collect one more account, of which a passed node has one for each
\* mode it passed in, when it has so many?  It looks at the limit only behind the
\* first.
Collects(cfg, accounts) == accounts = 0 \/ accounts < cfg["MAX_NODES"]

-----------------------------------------------------------------------------

\* Whatever the operator sets, zero and less included: the pools have a slot (a
\* channel without one stops everything) and no more than they have work for;
\* testing, which counts nodes, stops only where the accounts of these nodes, one
\* each and up to two more, fill what is collected, so that the limit of the one
\* never leaves the other short; and the client of a probe does not give up before
\* its context, which is done at once if the timeout is not positive.
SettingsFitFor(env, flags, total) ==
  LET cfg == LoadConfig(env, flags)
  IN  /\ Slots(cfg, total) \in 1..total
      /\ Workers(cfg) > 0
      /\ \A passed \in 0..total : ~Dispatches(cfg, passed) =>
           \A more \in 0..(2 * passed) : ~Collects(cfg, passed + more)
      /\ ContextTimeout(cfg) <= ClientTimeout(cfg)
=============================================================================
