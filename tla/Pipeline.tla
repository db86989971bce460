------------------------------ MODULE Pipeline ------------------------------
(***************************************************************************)
(* A run of the program end to end, and the next one: Execute of           *)
(* internal/service/pipeline.go between the loading of the blacklist in    *)
(* cmd/latinasub/main.go and its return.                                   *)
(*                                                                         *)
(* The parts that have modules of their own appear here by what they       *)
(* promise: the gathering as any set of nodes, TestAll as the actions of   *)
(* VerificationPool (which Tester implements), the table as a value that   *)
(* is replaced at once or not at all, and the blacklist file as one that   *)
(* is replaced, left alone or, in the fallback of Save, first removed      *)
(* (BlacklistStore has the steps in full).  The process may end between    *)
(* any two steps; blacklist file and table outlive it.                     *)
(***************************************************************************)
EXTENDS Integers, FiniteSets, Sequences

CONSTANTS
  Total,     \* how many nodes the feeds may hold
  HashOf,    \* the blacklist hash of each
  NumModes,  \* how many connection modes are tested
  Bound,     \* how many nodes are in test at a time
  MaxNodes,  \* cfg.MaxNodes
  DryRun,    \* cfg.DryRun
  HasDb,     \* is there a database, or is p.db nil (local-only mode)?
  MaxRuns,   \* how often the program is started
  Faults     \* the environment events of this instance

Node == 1..Total
Mode == 1..NumModes
Hash == {HashOf[n] : n \in Node}

ASSUME PipelineAssumption ==
  /\ Total \in Nat
  /\ HashOf = [n \in Node |-> HashOf[n]]
  /\ NumModes \in Nat /\ Bound \in Nat /\ MaxRuns \in Nat
  /\ MaxNodes \in Int
  /\ DryRun \in BOOLEAN /\ HasDb \in BOOLEAN
  /\ Faults \subseteq {"cancel", "panic", "load", "db", "save", "crash"}

VARIABLES
  phase,      \* where Execute is
  runs,       \* how often the program was started
  bl,         \* the blacklist in memory
  initCount,  \* its size before the run
  status,     \* what has become of each node in TestAll
  reported,   \* the nodes of testResults
  modesOf,    \* TestedModes of each of them
  cancelled,  \* is ctx done?
  returned,   \* has TestAll returned?
  at,         \* the result the collection is at
  mode,       \* the mode the collection is at
  accounts,   \* activeNodes: a node and a mode each
  synced,     \* databaseSynced
  disk,       \* the blacklist file
  table       \* the proxies table

poolVars    == <<status, reported, bl, returned>>
collectVars == <<at, mode, accounts>>
vars == <<phase, runs, initCount, poolVars, modesOf, cancelled, collectVars,
          synced, disk, table>>

Phases ==
  {"down", "load", "gather", "verify", "collect", "database", "save", "fallback",
   "report"}

Pool == INSTANCE VerificationPool WITH listed <- bl

With(s) == {n \in Node : status[n] = s}

From(p, q) == phase = p /\ phase' = q

-----------------------------------------------------------------------------
\* Up to the verification.

Start ==
  /\ From("down", "load")
  /\ runs < MaxRuns
  /\ runs' = runs + 1
  /\ bl' = {}
  /\ initCount' = 0
  /\ status' = [n \in Node |-> "absent"]
  /\ reported' = <<>>
  /\ modesOf' = [n \in Node |-> {}]
  /\ cancelled' = FALSE
  /\ returned' = FALSE
  /\ at' = 1
  /\ mode' = 1
  /\ accounts' = <<>>
  /\ synced' = FALSE
  /\ UNCHANGED <<disk, table>>

\* main loads the blacklist; if that fails it goes on with a part of it.
Load ==
  /\ From("load", "gather")
  /\ bl' \in {disk} \union (IF "load" \in Faults THEN SUBSET disk ELSE {})
  /\ UNCHANGED <<runs, initCount, status, reported, returned, modesOf,
                 cancelled, collectVars, synced, disk, table>>

\* Bug: the size is taken before the blacklist is loaded.
CountedTooEarly == 0

CountedBefore == Cardinality(bl)

\* Bug: every node is a candidate.
NothingFiltered(n) == FALSE

Listed(n) == HashOf[n] \in bl

\* GatherFromSources has brought some nodes; the blacklisted ones are left out.
GatherAndFilter ==
  /\ From("gather", "verify")
  /\ initCount' = CountedBefore
  /\ \E scraped \in SUBSET Node :
       status' = [n \in Node |-> IF n \in scraped /\ ~Listed(n) THEN "waiting"
                                 ELSE "absent"]
  /\ UNCHANGED <<runs, bl, reported, returned, modesOf, cancelled, collectVars,
                 synced, disk, table>>

-----------------------------------------------------------------------------
\* TestAll.

Verify(n) ==
  /\ phase = "verify"
  /\ \/ Pool!PoolStart(n) /\ UNCHANGED modesOf
     \/ Pool!PoolList(n) /\ UNCHANGED modesOf
     \/ Pool!PoolDrop(n) /\ UNCHANGED modesOf
     \/ /\ Pool!PoolReport(n)
        /\ \E M \in SUBSET Mode \ {{}} : modesOf' = [modesOf EXCEPT ![n] = M]
  /\ UNCHANGED <<phase, runs, initCount, collectVars, synced, disk, table>>

EndVerification ==
  /\ From("verify", "collect")
  /\ Pool!PoolReturn
  /\ UNCHANGED <<runs, initCount, modesOf, collectVars, synced, disk, table>>

-----------------------------------------------------------------------------
\* The collection of the accounts: one for each mode of each result.

\* Bug: the inner loop is not left, only the outer one.
FullBetweenResults ==
  accounts # <<>> /\ Len(accounts) >= MaxNodes /\ mode = 1

\* The breaks of both loops, which are reached after an append.
Full == accounts # <<>> /\ Len(accounts) >= MaxNodes

Collecting == phase = "collect" /\ ~Full /\ at <= Len(reported)

CollectAccount ==
  /\ Collecting
  /\ mode \in modesOf[reported[at]]
  /\ accounts' = Append(accounts, <<reported[at], mode>>)
  /\ mode' = mode + 1
  /\ UNCHANGED <<phase, runs, initCount, poolVars, modesOf, cancelled, at,
                 synced, disk, table>>

SkipMode ==
  /\ Collecting
  /\ mode \in Mode \ modesOf[reported[at]]
  /\ mode' = mode + 1
  /\ UNCHANGED <<phase, runs, initCount, poolVars, modesOf, cancelled, at,
                 accounts, synced, disk, table>>

NextResult ==
  /\ Collecting
  /\ mode > NumModes
  /\ at' = at + 1
  /\ mode' = 1
  /\ UNCHANGED <<phase, runs, initCount, poolVars, modesOf, cancelled,
                 accounts, synced, disk, table>>

\* The files are written next, which nothing depends on.
EndCollection ==
  /\ From("collect", "database")
  /\ Full \/ at > Len(reported)
  /\ UNCHANGED <<runs, initCount, poolVars, modesOf, cancelled, collectVars,
                 synced, disk, table>>

-----------------------------------------------------------------------------
\* Persistence and the end of the run.

Stores == ~DryRun /\ HasDb /\ accounts # <<>>

\* A dry run, no database, or nothing to store: the table stays as it is.
SkipDatabase ==
  /\ From("database", "save")
  /\ ~Stores
  /\ UNCHANGED <<runs, initCount, poolVars, modesOf, cancelled, collectVars,
                 synced, disk, table>>

\* The statements run under ctx and fail once it is done.
SaveBatch ==
  /\ From("database", "save")
  /\ Stores /\ ~cancelled
  /\ table' = accounts
  /\ synced' = TRUE
  /\ UNCHANGED <<runs, initCount, poolVars, modesOf, cancelled, collectVars,
                 disk>>

SaveBatchFails ==
  /\ From("database", "save")
  /\ Stores
  /\ cancelled \/ "db" \in Faults
  /\ table' \in {table} \union (IF cancelled THEN {} ELSE {accounts})
  /\ UNCHANGED <<runs, initCount, poolVars, modesOf, cancelled, collectVars,
                 synced, disk>>

\* Bug: only what this run has found is written.
OnlyNewHashes == {HashOf[n] : n \in With("dead")}

SavedHashes == bl

SaveKeeps ==
  UNCHANGED <<runs, initCount, poolVars, modesOf, cancelled, collectVars, synced,
              table>>

\* The temporary file is written and renamed over the blacklist file.
SaveBlacklist ==
  /\ From("save", "report")
  /\ disk' = SavedHashes
  /\ SaveKeeps

\* The temporary file cannot be written.
SaveFails ==
  /\ "save" \in Faults
  /\ From("save", "report")
  /\ UNCHANGED disk
  /\ SaveKeeps

\* The rename fails: Save removes the blacklist file, and passes over an error.
RemoveTarget ==
  /\ "save" \in Faults
  /\ From("save", "fallback")
  /\ disk' \in {disk, {}}
  /\ SaveKeeps

\* The second rename, which may fail like the first.
RenameAgain ==
  /\ From("fallback", "report")
  /\ disk' \in {SavedHashes, disk}
  /\ SaveKeeps

\* The summary goes out, the heartbeat is stopped and main returns.
EndRun ==
  /\ From("report", "down")
  /\ UNCHANGED <<runs, initCount, poolVars, modesOf, cancelled, collectVars,
                 synced, disk, table>>

Cancel ==
  /\ "cancel" \in Faults
  /\ phase # "down"
  /\ ~cancelled
  /\ cancelled' = TRUE
  /\ UNCHANGED <<phase, runs, initCount, poolVars, modesOf, collectVars,
                 synced, disk, table>>

\* The process is terminated.
Crash ==
  /\ "crash" \in Faults
  /\ phase \notin {"down", "report"}
  /\ phase' = "down"
  /\ UNCHANGED <<runs, initCount, poolVars, modesOf, cancelled, collectVars,
                 synced, disk, table>>

-----------------------------------------------------------------------------

Init ==
  /\ phase = "down"
  /\ runs = 0
  /\ bl = {}
  /\ initCount = 0
  /\ status = [n \in Node |-> "absent"]
  /\ reported = <<>>
  /\ modesOf = [n \in Node |-> {}]
  /\ cancelled = FALSE
  /\ returned = FALSE
  /\ at = 1
  /\ mode = 1
  /\ accounts = <<>>
  /\ synced = FALSE
  /\ disk = {}
  /\ table = <<>>

Next ==
  \/ Start \/ Load \/ GatherAndFilter
  \/ (\E n \in Node : Verify(n)) \/ EndVerification
  \/ CollectAccount \/ SkipMode \/ NextResult \/ EndCollection
  \/ SkipDatabase \/ SaveBatch \/ SaveBatchFails
  \/ SaveBlacklist \/ SaveFails \/ RemoveTarget \/ RenameAgain \/ EndRun
  \/ Cancel \/ Crash

Spec == Init /\ [][Next]_vars

-----------------------------------------------------------------------------

Accounts == Node \X Mode

TypeOK ==
  /\ phase \in Phases
  /\ runs \in 0..MaxRuns
  /\ bl \subseteq Hash
  /\ initCount \in 0..Cardinality(Hash)
  /\ status \in [Node -> Pool!Statuses \union {"absent"}]
  /\ reported \in Seq(Node)
  /\ modesOf \in [Node -> SUBSET Mode]
  /\ cancelled \in BOOLEAN
  /\ returned \in BOOLEAN
  /\ at \in Nat \ {0}
  /\ mode \in 1..(NumModes + 1)
  /\ accounts \in Seq(Accounts)
  /\ synced \in BOOLEAN
  /\ disk \subseteq Hash
  /\ table \in Seq(Accounts)

\* A node whose hash the blacklist file holds is not tested again, however the
\* runs before this one have ended.
SavedNotRetested == \A n \in With("testing") : HashOf[n] \notin disk

\* A run takes hashes off the blacklist file only by removing it in the fallback of
\* Save: then all are gone, for good if the second rename fails or the process ends
\* before it.  Any other change of the file leaves on it what it held before, and
\* whatever is written holds all that was loaded and all that the run found dead,
\* behind a removal too.
RemovesFile == phase' = "fallback" /\ disk' = {}

LostOnlyInFallback ==
  [][disk' # disk => RemovesFile \/ disk \union bl \subseteq disk']_vars

\* The table serves no node that the same run has blacklisted, nor one that was
\* blacklisted before, unless the node has a twin of the same hash that was found
\* dead.
ServedNotListed ==
  synced /\ phase \in {"save", "fallback", "report"} =>
    \A k \in DOMAIN table :
      HashOf[table[k][1]] \in bl =>
        \E n \in With("dead") : HashOf[n] = HashOf[table[k][1]]

Verified == {a \in Accounts : a[1] \in With("passed") /\ a[2] \in modesOf[a[1]]}
Collected == {accounts[k] : k \in DOMAIN accounts}

\* The accounts of a run are verified, each of them once, no more than MaxNodes;
\* and if fewer, then none is left out.
CollectsWhatPassed ==
  phase = "database" =>
    /\ Collected \subseteq Verified
    /\ Len(accounts) = Cardinality(Collected)
    /\ Len(accounts) <= MaxNodes
    /\ Len(accounts) < MaxNodes => Collected = Verified

\* DeadDetected, the difference of two sizes of the blacklist, is the number of
\* hashes that this run found dead.
DeadDetectedAddsUp ==
  phase = "report" =>
    Cardinality(bl) - initCount = Cardinality({HashOf[n] : n \in With("dead")})
=============================================================================
