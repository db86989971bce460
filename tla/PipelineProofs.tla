--------------------------- MODULE PipelineProofs ---------------------------
(***************************************************************************)
(* Proofs about Pipeline: what the blacklist file means to later runs, for *)
(* any number of nodes, modes and runs, whichever of them fail, are        *)
(* cancelled or are terminated.                                            *)
(***************************************************************************)
EXTENDS Pipeline, FiniteSetTheorems, TLAPS

\* Past the load the set in memory covers the file, removed or not; past the filter
\* no candidate is on the file; and the file changes when nothing is in test any
\* more.
DiskIsKnown ==
  /\ phase \notin {"down", "load"} => disk \subseteq bl
  /\ phase = "verify" =>
       \A n \in Node : status[n] \in {"waiting", "testing"} => HashOf[n] \notin disk
  /\ phase \notin {"down", "verify"} => \A n \in Node : status[n] # "testing"
  /\ \A n \in Node : status[n] = "testing" => HashOf[n] \notin disk

Sound == TypeOK /\ DiskIsKnown

-----------------------------------------------------------------------------

LEMMA HashFinite == IsFiniteSet(Hash) /\ Cardinality(Hash) \in Nat
<1>1. IsFiniteSet(Node)
  <2>1. 1 \in Int /\ Total \in Int
    BY PipelineAssumption
  <2> QED
    BY <2>1, FS_Interval DEF Node
<1>2. HashOf \in [Node -> Hash]
  BY PipelineAssumption DEF Hash
<1>3. HashOf \in Surjection(Node, Hash)
  BY <1>2 DEF Surjection, Hash
<1>4. IsFiniteSet(Hash)
  BY <1>1, <1>3, FS_Surjection
<1> QED
  BY <1>4, FS_CardinalityType

\* What a set of hashes counts to.
LEMMA CountBound == \A S \in SUBSET Hash : Cardinality(S) \in 0..Cardinality(Hash)
<1> SUFFICES ASSUME NEW S \in SUBSET Hash
             PROVE  Cardinality(S) \in 0..Cardinality(Hash)
  OBVIOUS
<1>1. IsFiniteSet(S) /\ Cardinality(S) <= Cardinality(Hash)
  BY HashFinite, FS_Subset
<1>2. Cardinality(S) \in Nat
  BY <1>1, FS_CardinalityType
<1> QED
  BY <1>1, <1>2, HashFinite

LEMMA UpdateType ==
  ASSUME NEW S, NEW T, NEW f \in [S -> T], NEW x \in S, NEW y \in T
  PROVE  [f EXCEPT ![x] = y] \in [S -> T]
  OBVIOUS

LEMMA AppendType ==
  ASSUME NEW S, NEW s \in Seq(S), NEW e \in S
  PROVE  Append(s, e) \in Seq(S)
  OBVIOUS

-----------------------------------------------------------------------------

LEMMA InitSound == Init => Sound
<1> SUFFICES ASSUME Init PROVE Sound
  OBVIOUS
<1>1. 0 \in 0..Cardinality(Hash) /\ 1 \in 1..(NumModes + 1) /\ 0 \in 0..MaxRuns
  BY HashFinite, PipelineAssumption
<1>2. reported \in Seq(Node) /\ accounts \in Seq(Accounts) /\ table \in Seq(Accounts)
  BY DEF Init
<1>3. TypeOK
  <2>1. /\ phase \in Phases /\ runs \in 0..MaxRuns /\ initCount \in 0..Cardinality(Hash)
        /\ at \in Nat \ {0} /\ mode \in 1..(NumModes + 1)
    BY <1>1 DEF Init, Phases
  <2>2. /\ status \in [Node -> Pool!Statuses \union {"absent"}]
        /\ modesOf \in [Node -> SUBSET Mode]
    BY DEF Init
  <2> QED
    BY <1>2, <2>1, <2>2 DEF Init, TypeOK
<1>4. DiskIsKnown
  BY DEF Init, DiskIsKnown
<1> QED
  BY <1>3, <1>4 DEF Sound

\* The steps of TestAll settle nodes, and touch neither file nor phase.
LEMMA VerifyType ==
  ASSUME NEW n \in Node, TypeOK, Verify(n)
  PROVE  TypeOK'
<1> USE DEF TypeOK
<1>1. bl' \subseteq Hash
  BY DEF Verify, Pool!PoolStart, Pool!PoolList, Pool!PoolDrop, Pool!PoolReport,
         Pool!Settle, Hash
<1>2. status' \in [Node -> Pool!Statuses \union {"absent"}]
  <2>1. \E s \in Pool!Statuses : status' = [status EXCEPT ![n] = s]
    BY DEF Verify, Pool!PoolStart, Pool!PoolList, Pool!PoolDrop, Pool!PoolReport,
           Pool!Settle, Pool!Statuses
  <2> QED
    BY <2>1
<1>3. reported' \in Seq(Node)
  <2>1. reported' = reported \/ reported' = Append(reported, n)
    BY DEF Verify, Pool!PoolStart, Pool!PoolList, Pool!PoolDrop, Pool!PoolReport,
           Pool!Settle
  <2>2. reported \in Seq(Node)
    BY TypeOK
  <2>3. Append(reported, n) \in Seq(Node)
    BY <2>2, AppendType
  <2>4. CASE reported' = reported
    BY <2>2, <2>4
  <2>5. CASE reported' = Append(reported, n)
    BY <2>3, <2>5
  <2> QED
    BY <2>1, <2>4, <2>5
<1>4. modesOf' \in [Node -> SUBSET Mode]
  BY DEF Verify
<1>5. UNCHANGED <<phase, runs, initCount, cancelled, returned, collectVars, synced,
                  disk, table>>
  BY DEF Verify, Pool!PoolStart, Pool!PoolList, Pool!PoolDrop, Pool!PoolReport,
         Pool!Settle
<1> QED
  BY <1>1, <1>2, <1>3, <1>4, <1>5 DEF collectVars

LEMMA NextMode == \A m \in Mode : m + 1 \in 1..(NumModes + 1)
  BY PipelineAssumption DEF Mode

LEMMA TypeStep == TypeOK /\ [Next]_vars => TypeOK'
<1> SUFFICES ASSUME TypeOK, [Next]_vars PROVE TypeOK'
  OBVIOUS
<1> USE PipelineAssumption
<1> USE DEF TypeOK, From, Phases, poolVars, collectVars
<1>1. CASE Start
  <2>1. 0 \in 0..Cardinality(Hash) /\ 1 \in 1..(NumModes + 1)
    BY HashFinite
  <2>2. <<>> \in Seq(Node) /\ <<>> \in Seq(Accounts)
    OBVIOUS
  <2>3. runs' \in 0..MaxRuns
    BY <1>1 DEF Start
  <2>4. /\ status' \in [Node -> Pool!Statuses \union {"absent"}]
        /\ modesOf' \in [Node -> SUBSET Mode]
    BY <1>1 DEF Start
  <2>5. phase' \in Phases /\ bl' \subseteq Hash /\ disk' \subseteq Hash
    BY <1>1 DEF Start
  <2>6. /\ initCount' \in 0..Cardinality(Hash)
        /\ mode' \in 1..(NumModes + 1)
        /\ at' \in Nat \ {0}
    BY <1>1, <2>1 DEF Start
  <2>7. /\ cancelled' \in BOOLEAN /\ returned' \in BOOLEAN
        /\ synced' \in BOOLEAN
    BY <1>1 DEF Start
  <2>8. reported' \in Seq(Node) /\ accounts' \in Seq(Accounts)
    BY <1>1, <2>2 DEF Start
  <2>9. table' \in Seq(Accounts)
    BY <1>1 DEF Start
  <2> QED
    BY <2>3, <2>4, <2>5, <2>6, <2>7, <2>8, <2>9
<1>2. CASE Load
  BY <1>2 DEF Load
<1>3. CASE GatherAndFilter
  <2>1. initCount' \in 0..Cardinality(Hash)
    BY <1>3, CountBound DEF GatherAndFilter, CountedBefore
  <2>2. status' \in [Node -> Pool!Statuses \union {"absent"}]
    BY <1>3 DEF GatherAndFilter, Pool!Statuses
  <2> QED
    BY <1>3, <2>1, <2>2 DEF GatherAndFilter
<1>4. ASSUME NEW n \in Node, Verify(n) PROVE TypeOK'
  BY <1>4, VerifyType
<1>5. CASE EndVerification
  BY <1>5 DEF EndVerification, Pool!PoolReturn
<1>6. CASE CollectAccount
  <2>1. at \in 1..Len(reported)
    BY <1>6 DEF CollectAccount, Collecting
  <2>2. reported[at] \in Node
    BY <2>1
  <2>3. mode \in Mode
    BY <1>6, <2>2 DEF CollectAccount
  <2>4. <<reported[at], mode>> \in Accounts
    BY <2>2, <2>3 DEF Accounts
  <2>5. accounts' \in Seq(Accounts)
    BY <1>6, <2>4 DEF CollectAccount
  <2>6. mode' \in 1..(NumModes + 1)
    <3>1. mode' = mode + 1
      BY <1>6 DEF CollectAccount
    <3> QED
      BY <2>3, <3>1, NextMode
  <2> QED
    BY <1>6, <2>5, <2>6 DEF CollectAccount
<1>7. CASE SkipMode
  <2>1. mode \in Mode /\ mode' = mode + 1
    BY <1>7 DEF SkipMode
  <2>2. mode' \in 1..(NumModes + 1)
    BY <2>1, NextMode
  <2> QED
    BY <1>7, <2>2 DEF SkipMode
<1>8. CASE NextResult
  BY <1>8 DEF NextResult
<1>9. CASE EndCollection \/ SkipDatabase \/ SaveBatch \/ SaveBatchFails
  BY <1>9 DEF EndCollection, SkipDatabase, SaveBatch, SaveBatchFails
<1>10. CASE SaveBlacklist \/ EndRun \/ Cancel \/ Crash
  BY <1>10 DEF SaveBlacklist, SaveKeeps, SavedHashes, EndRun, Cancel, Crash
<1>11. CASE SaveFails \/ RemoveTarget \/ RenameAgain
  BY <1>11 DEF SaveFails, RemoveTarget, RenameAgain, SaveKeeps, SavedHashes
<1>12. CASE UNCHANGED vars
  BY <1>12 DEF vars
<1> QED
  BY <1>1, <1>2, <1>3, <1>4, <1>5, <1>6, <1>7, <1>8, <1>9, <1>10, <1>11, <1>12
  DEF Next

-----------------------------------------------------------------------------

LEMMA KnownStep ==
  ASSUME "load" \notin Faults
  PROVE  Sound /\ [Next]_vars => DiskIsKnown'
<1> SUFFICES ASSUME Sound, [Next]_vars PROVE DiskIsKnown'
  OBVIOUS
<1> USE DEF Sound, DiskIsKnown, From, poolVars, collectVars
<1>1. CASE Start
  BY <1>1 DEF Start
<1>2. CASE Load
  BY <1>2 DEF Load
<1>3. CASE GatherAndFilter
  BY <1>3 DEF GatherAndFilter, Listed
<1>4. ASSUME NEW n \in Node, Verify(n) PROVE DiskIsKnown'
  <2>1. phase = "verify" /\ phase' = phase /\ disk' = disk /\ bl \subseteq bl'
    BY <1>4 DEF Verify, Pool!PoolStart, Pool!PoolList, Pool!PoolDrop,
                Pool!PoolReport, Pool!Settle
  <2>2. /\ status[n] \in {"waiting", "testing"}
        /\ \E s \in Pool!Statuses : status' = [status EXCEPT ![n] = s]
    BY <1>4 DEF Verify, Pool!PoolStart, Pool!PoolList, Pool!PoolDrop,
                Pool!PoolReport, Pool!Settle, Pool!Statuses
  <2>3. \A k \in Node : k # n => status'[k] = status[k]
    BY <2>2 DEF TypeOK
  <2> QED
    BY <2>1, <2>2, <2>3
<1>5. CASE EndVerification
  BY <1>5 DEF EndVerification, Pool!PoolReturn, Pool!With
<1>6. CASE CollectAccount \/ SkipMode \/ NextResult
  BY <1>6 DEF CollectAccount, SkipMode, NextResult, Collecting
<1>7. CASE EndCollection \/ SkipDatabase \/ SaveBatch \/ SaveBatchFails
  BY <1>7 DEF EndCollection, SkipDatabase, SaveBatch, SaveBatchFails
<1>8. CASE SaveBlacklist \/ SaveFails \/ RemoveTarget \/ RenameAgain
  BY <1>8
  DEF SaveBlacklist, SaveFails, RemoveTarget, RenameAgain, SaveKeeps, SavedHashes
<1>9. CASE EndRun \/ Cancel \/ Crash
  BY <1>9 DEF EndRun, Cancel, Crash
<1>10. CASE UNCHANGED vars
  BY <1>10 DEF vars
<1> QED
  BY <1>1, <1>2, <1>3, <1>4, <1>5, <1>6, <1>7, <1>8, <1>9, <1>10 DEF Next

LEMMA SoundInvariant ==
  ASSUME "load" \notin Faults
  PROVE  Spec => []Sound
<1>1. Sound /\ [Next]_vars => Sound'
  BY TypeStep, KnownStep DEF Sound
<1> QED
  BY <1>1, InitSound, PTL DEF Spec

\* The state of the pipeline keeps its types over any number of runs, loads that
\* fail included.
THEOREM PipelineTypes == Spec => []TypeOK
<1>1. Init => TypeOK
  BY InitSound DEF Sound
<1> QED
  BY <1>1, TypeStep, PTL DEF Spec

\* Where the blacklist can be loaded no node whose hash is on the file is tested
\* again, in any later run, however the runs before it have ended.
THEOREM NeverRetested ==
  ASSUME "load" \notin Faults
  PROVE  Spec => []SavedNotRetested
<1>1. Sound => SavedNotRetested
  BY DEF Sound, DiskIsKnown, SavedNotRetested, With
<1> QED
  BY <1>1, SoundInvariant, PTL

\* Where the blacklist can be loaded a run takes hashes off the file only by removing
\* it in the fallback of Save; any other change of the file keeps what it held and
\* writes all that is blacklisted.
THEOREM HashesLostOnlyInFallback ==
  ASSUME "load" \notin Faults
  PROVE  Spec => LostOnlyInFallback
<1>1. Sound /\ [Next]_vars =>
        [disk' # disk => RemovesFile \/ disk \union bl \subseteq disk']_vars
  <2> SUFFICES ASSUME Sound, Next, disk' # disk
               PROVE  RemovesFile \/ disk \union bl \subseteq disk'
    OBVIOUS
  <2>1. CASE SaveBlacklist \/ RenameAgain
    BY <2>1
    DEF SaveBlacklist, RenameAgain, SavedHashes, From, Sound, DiskIsKnown
  <2>2. CASE RemoveTarget
    BY <2>2 DEF RemoveTarget, From, RemovesFile
  <2>3. CASE ~SaveBlacklist /\ ~RemoveTarget /\ ~RenameAgain
    BY <2>3
    DEF Next, Start, Load, GatherAndFilter, Verify, EndVerification,
        CollectAccount, SkipMode, NextResult, EndCollection, SkipDatabase,
        SaveBatch, SaveBatchFails, SaveFails, EndRun, Cancel, Crash
  <2> QED
    BY <2>1, <2>2, <2>3
<1> QED
  BY <1>1, SoundInvariant, PTL DEF Spec, LostOnlyInFallback

-----------------------------------------------------------------------------
(* What a run has found, and what of it is collected, counted and served. *)

\* From the filter to the end of the run.
Running == {"verify", "collect", "database", "save", "fallback", "report"}

DeadHashes == {HashOf[n] : n \in With("dead")}

\* What Start has set is there until it is used.
Fresh ==
  /\ phase \in {"load", "gather"} => reported = <<>>
  /\ phase \in {"load", "gather", "verify"} => accounts = <<>> /\ at = 1 /\ mode = 1
  /\ phase \in {"load", "gather", "verify", "collect", "database"} => ~synced

\* A candidate is on the blacklist only through one of its hash that was found dead.
Twins ==
  phase \in Running =>
    \A n \in Node : status[n] # "absent" /\ HashOf[n] \in bl => HashOf[n] \in DeadHashes

Counted ==
  phase \in Running =>
    DeadHashes \subseteq bl /\ Cardinality(bl) = initCount + Cardinality(DeadHashes)

\* The results are the nodes that passed, each once.
Results ==
  phase \in Running =>
    /\ \A n \in Node : status[n] = "passed" <=> \E k \in 1..Len(reported) : reported[k] = n
    /\ \A k, l \in 1..Len(reported) : reported[k] = reported[l] => k = l

Stored == phase \in {"save", "fallback", "report"} /\ synced => table = accounts

Ledger == Fresh /\ Twins /\ Counted /\ Results /\ Stored

\* A step of TestAll settles one node, or starts its test.
LEMMA VerifyFacts ==
  ASSUME NEW n \in Node, Verify(n)
  PROVE  /\ phase = "verify"
         /\ UNCHANGED <<phase, initCount, collectVars, synced, table>>
         /\ \/ /\ status[n] = "waiting"
               /\ status' = [status EXCEPT ![n] = "testing"]
               /\ UNCHANGED <<bl, reported>>
            \/ /\ status[n] = "testing"
               /\ status' = [status EXCEPT ![n] = "dropped"]
               /\ UNCHANGED <<bl, reported>>
            \/ /\ status[n] = "testing"
               /\ status' = [status EXCEPT ![n] = "dead"]
               /\ bl' = bl \union {HashOf[n]}
               /\ UNCHANGED reported
            \/ /\ status[n] = "testing"
               /\ status' = [status EXCEPT ![n] = "passed"]
               /\ reported' = Append(reported, n)
               /\ UNCHANGED bl
BY DEF Verify, Pool!PoolStart, Pool!PoolList, Pool!PoolDrop, Pool!PoolReport,
       Pool!Settle

LEMMA HashesFinite ==
  ASSUME TypeOK
  PROVE  /\ IsFiniteSet(bl) /\ Cardinality(bl) \in Nat
         /\ DeadHashes \subseteq Hash
         /\ IsFiniteSet(DeadHashes) /\ Cardinality(DeadHashes) \in Nat
<1>1. bl \subseteq Hash /\ DeadHashes \subseteq Hash
  BY DEF TypeOK, DeadHashes, With, Hash
<1> QED
  BY <1>1, HashFinite, FS_Subset, FS_CardinalityType

LEMMA InitLedger == Init => Ledger
BY DEF Init, Ledger, Fresh, Twins, Counted, Results, Stored, Running

LEMMA VerifyLedger ==
  ASSUME TypeOK, Ledger, NEW n \in Node, Verify(n)
  PROVE  Ledger'
<1> USE VerifyFacts DEF Ledger
<1>1. phase = "verify" /\ phase' = "verify"
  OBVIOUS
<1>2. Fresh' /\ Stored'
  BY <1>1 DEF Fresh, Stored, collectVars
<1>t. status \in [Node -> Pool!Statuses \union {"absent"}] /\ reported \in Seq(Node)
  BY DEF TypeOK
\* Nothing is found dead: the sets of hashes are as they were.
<1>3. ASSUME UNCHANGED bl, status'[n] # "dead", status[n] # "dead"
      PROVE  Twins' /\ Counted'
  <2>1. With("dead")' = With("dead")
    BY <1>3, <1>t DEF With
  <2>2. DeadHashes' = DeadHashes
    BY <2>1 DEF DeadHashes
  <2>3. \A k \in Node : status'[k] # "absent" => status[k] # "absent"
    BY <1>t
  <2> QED
    BY <1>1, <1>3, <2>2, <2>3 DEF Twins, Counted, Running
\* A hash that was listed already was found dead in this run.
<1>4. ASSUME status[n] = "testing", status' = [status EXCEPT ![n] = "dead"],
             bl' = bl \union {HashOf[n]}
      PROVE  Twins' /\ Counted'
  <2>1. With("dead")' = With("dead") \union {n}
    BY <1>4, <1>t DEF With
  <2>2. DeadHashes' = DeadHashes \union {HashOf[n]}
    BY <2>1 DEF DeadHashes
  <2>3. HashOf[n] \in bl <=> HashOf[n] \in DeadHashes
    BY <1>1, <1>4 DEF Twins, Counted, Running
  <2>4. Twins'
    <3>1. \A k \in Node : status'[k] # "absent" => status[k] # "absent"
      BY <1>4, <1>t
    <3> QED
      BY <1>1, <1>4, <2>2, <3>1 DEF Twins, Running
  <2>5. CASE HashOf[n] \in bl
    <3>1. bl' = bl /\ DeadHashes' = DeadHashes
      BY <1>4, <2>2, <2>3, <2>5
    <3> QED
      BY <1>1, <2>4, <3>1 DEF Counted, Running
  <2>6. CASE HashOf[n] \notin bl
    <3>1. /\ Cardinality(bl') = Cardinality(bl) + 1
          /\ Cardinality(DeadHashes') = Cardinality(DeadHashes) + 1
      BY <1>4, <2>2, <2>3, <2>6, HashesFinite, FS_AddElement
    <3>2. DeadHashes' \subseteq bl'
      BY <1>1, <1>4, <2>2 DEF Counted, Running
    <3>3. initCount \in Int
      BY HashFinite DEF TypeOK
    <3> QED
      BY <1>1, <2>4, <3>1, <3>2, <3>3, HashesFinite DEF Counted, Running
  <2> QED
    BY <2>5, <2>6
<1>5. ASSUME UNCHANGED reported, status'[n] # "passed", status[n] # "passed"
      PROVE  Results'
  <2>1. \A k \in Node : status'[k] = "passed" <=> status[k] = "passed"
    BY <1>5, <1>t
  <2> QED
    BY <1>1, <1>5, <2>1 DEF Results, Running
<1>6. ASSUME status[n] = "testing", status' = [status EXCEPT ![n] = "passed"],
             reported' = Append(reported, n)
      PROVE  Results'
  <2>1. /\ Len(reported) \in Nat /\ Len(reported') = Len(reported) + 1
        /\ \A k \in 1..Len(reported) : reported'[k] = reported[k]
        /\ reported'[Len(reported) + 1] = n
    BY <1>6, <1>t
  <2>2. \A k \in 1..Len(reported) : reported[k] # n /\ reported[k] \in Node
    BY <1>1, <1>6, <1>t DEF Results, Running
  <2>3. ASSUME NEW m \in Node
        PROVE  status'[m] = "passed" <=> \E k \in 1..Len(reported') : reported'[k] = m
    BY <1>1, <1>6, <1>t, <2>1, <2>2 DEF Results, Running
  <2>4. ASSUME NEW k \in 1..Len(reported'), NEW l \in 1..Len(reported'),
               reported'[k] = reported'[l]
        PROVE  k = l
    BY <1>1, <2>1, <2>2, <2>4 DEF Results, Running
  <2> QED
    BY <2>3, <2>4 DEF Results
<1>7. Twins' /\ Counted'
  BY <1>3, <1>4, <1>t
<1>8. Results'
  BY <1>5, <1>6, <1>t
<1> QED
  BY <1>2, <1>7, <1>8

\* Past the verification nothing is found any more.
LEMMA QuietLedger ==
  ASSUME Ledger, UNCHANGED <<status, bl, initCount, reported>>,
         phase' \in Running => phase \in Running
  PROVE  Twins' /\ Counted' /\ Results'
<1>1. DeadHashes' = DeadHashes
  BY DEF DeadHashes, With
<1> QED
  BY <1>1 DEF Ledger, Twins, Counted, Results

LEMMA FilterLedger == TypeOK /\ Ledger /\ GatherAndFilter => Ledger'
<1> SUFFICES ASSUME TypeOK, Ledger, GatherAndFilter PROVE Ledger'
  OBVIOUS
<1> USE DEF GatherAndFilter, From, Ledger
<1>1. \A n \in Node : /\ status'[n] \in {"waiting", "absent"}
                      /\ status'[n] # "absent" => HashOf[n] \notin bl
  BY DEF Listed
<1>2. DeadHashes' = {}
  BY <1>1 DEF DeadHashes, With
<1>3. Twins'
  BY <1>1 DEF Twins
<1>4. Counted'
  BY <1>2, HashesFinite, FS_EmptySet DEF Counted, CountedBefore
<1>5. Results'
  BY <1>1 DEF Fresh, Results
<1>6. Fresh' /\ Stored'
  BY DEF Fresh, Stored, collectVars
<1> QED
  BY <1>3, <1>4, <1>5, <1>6

LEMMA LedgerStep == TypeOK /\ Ledger /\ [Next]_vars => Ledger'
<1> SUFFICES ASSUME TypeOK, Ledger, [Next]_vars PROVE Ledger'
  OBVIOUS
<1> USE DEF From, poolVars, collectVars
<1>1. CASE Start
  BY <1>1 DEF Start, Ledger, Fresh, Twins, Counted, Results, Stored, Running
<1>2. CASE Load
  BY <1>2 DEF Load, Ledger, Fresh, Twins, Counted, Results, Stored, Running
<1>3. CASE GatherAndFilter
  BY <1>3, FilterLedger
<1>4. ASSUME NEW n \in Node, Verify(n) PROVE Ledger'
  BY <1>4, VerifyLedger
<1>5. CASE EndVerification
  BY <1>5, QuietLedger
  DEF EndVerification, Pool!PoolReturn, Running, Ledger, Fresh, Stored
<1>6. CASE CollectAccount \/ SkipMode \/ NextResult
  BY <1>6, QuietLedger
  DEF CollectAccount, SkipMode, NextResult, Collecting, Ledger, Fresh, Stored
<1>7. CASE EndCollection \/ SkipDatabase \/ SaveBatch \/ SaveBatchFails
  BY <1>7, QuietLedger
  DEF EndCollection, SkipDatabase, SaveBatch, SaveBatchFails, Running, Ledger,
      Fresh, Stored
<1>8. CASE SaveBlacklist \/ EndRun \/ Cancel \/ Crash
  BY <1>8, QuietLedger
  DEF SaveBlacklist, SaveKeeps, EndRun, Cancel, Crash, Running, Ledger, Fresh, Stored
<1>9. CASE SaveFails \/ RemoveTarget \/ RenameAgain
  BY <1>9, QuietLedger
  DEF SaveFails, RemoveTarget, RenameAgain, SaveKeeps, Running, Ledger, Fresh,
      Stored
<1>10. CASE UNCHANGED vars
  BY <1>10, QuietLedger DEF vars, Ledger, Fresh, Stored
<1> QED
  BY <1>1, <1>2, <1>3, <1>4, <1>5, <1>6, <1>7, <1>8, <1>9, <1>10 DEF Next

LEMMA LedgerInvariant == Spec => [](TypeOK /\ Ledger)
<1>1. Init => TypeOK
  BY InitSound DEF Sound
<1> QED
  BY <1>1, InitLedger, TypeStep, LedgerStep, PTL DEF Spec

\* The number of dead nodes that the summary gives is the number of hashes this run
\* has found dead, even where the blacklist could be loaded in part only.
THEOREM DeadAddUp == Spec => []DeadDetectedAddsUp
<1>1. TypeOK /\ Ledger => DeadDetectedAddsUp
  <2> SUFFICES ASSUME TypeOK, Ledger, phase = "report"
               PROVE  Cardinality(bl) - initCount = Cardinality(DeadHashes)
    BY DEF DeadDetectedAddsUp, DeadHashes
  <2>1. initCount \in Int
    BY HashFinite DEF TypeOK
  <2> QED
    BY <2>1, HashesFinite DEF Ledger, Counted, Running
<1> QED
  BY <1>1, LedgerInvariant, PTL

-----------------------------------------------------------------------------
(* The collection. *)

\* An account the two loops have passed.
Passed(a) ==
  /\ a[2] \in modesOf[a[1]]
  /\ \E i \in 1..Len(reported) :
       reported[i] = a[1] /\ (i < at \/ (i = at /\ a[2] < mode))

Progress ==
  phase \in Running =>
    /\ \A a \in Accounts : a \in Collected <=> Passed(a)
    /\ IsFiniteSet(Collected) /\ Cardinality(Collected) = Len(accounts)
    /\ phase \notin {"verify", "collect"} => Full \/ at > Len(reported)

Limited == phase \in Running => Len(accounts) <= MaxNodes

LEMMA EmptyCollected ==
  ASSUME accounts = <<>>
  PROVE  Collected = {} /\ IsFiniteSet(Collected) /\ Cardinality(Collected) = 0
BY FS_EmptySet DEF Collected

\* Where nothing is collected yet.
Begun ==
  /\ accounts = <<>> /\ at = 1 /\ mode = 1 /\ reported \in Seq(Node)
  /\ phase \in Running => phase = "verify"

LEMMA AtStart == Begun => Progress
<1> SUFFICES ASSUME Begun PROVE Progress
  OBVIOUS
<1>1. \A a \in Accounts : a[2] \in Nat /\ ~(a[2] < 1)
  BY DEF Accounts, Mode
<1>2. \A a \in Accounts : ~Passed(a)
  BY <1>1 DEF Passed, Begun
<1> QED
  BY <1>2, EmptyCollected DEF Progress, Running, Begun

LEMMA AtNextStart == Begun' => Progress'
BY AtStart, PTL

LEMMA CollectProgress ==
  ASSUME TypeOK, Ledger, Progress, CollectAccount
  PROVE  Progress'
<1> DEFINE new == <<reported[at], mode>>
<1>1. /\ phase = "collect" /\ phase' = "collect"
      /\ UNCHANGED <<reported, modesOf, at>> /\ mode' = mode + 1
      /\ accounts' = Append(accounts, new)
  BY DEF CollectAccount, Collecting, poolVars
<1>2. at \in 1..Len(reported) /\ reported[at] \in Node /\ mode \in modesOf[reported[at]]
  BY DEF CollectAccount, Collecting, TypeOK
<1>3. mode \in Mode /\ new \in Accounts
  BY <1>2 DEF TypeOK, Accounts
<1>4. accounts \in Seq(Accounts) /\ Len(accounts) \in Nat
  BY DEF TypeOK
<1>5. Collected' = Collected \union {new}
  <2> HIDE DEF new
  <2>1. /\ DOMAIN accounts = 1..Len(accounts)
        /\ DOMAIN accounts' = 1..(Len(accounts) + 1)
        /\ \A k \in 1..Len(accounts) : accounts'[k] = accounts[k]
        /\ accounts'[Len(accounts) + 1] = new
    BY <1>1, <1>3, <1>4
  <2>2. DOMAIN accounts' = DOMAIN accounts \union {Len(accounts) + 1}
    BY <1>4, <2>1
  <2> QED
    BY <2>1, <2>2 DEF Collected
<1>6. ~Passed(new)
  <2>1. \A i \in 1..Len(reported) : reported[i] = reported[at] => i = at
    BY <1>1, <1>2 DEF Ledger, Results, Running
  <2>2. ~(at < at) /\ ~(mode < mode)
    BY DEF TypeOK
  <2> QED
    BY <2>1, <2>2 DEF Passed
<1>7. ASSUME NEW a \in Accounts PROVE Passed(a)' <=> Passed(a) \/ a = new
  <2>1. a[2] \in Nat /\ mode \in Nat /\ a = <<a[1], a[2]>>
    BY <1>3 DEF Accounts, Mode
  <2>2. a[2] < mode + 1 <=> a[2] < mode \/ a[2] = mode
    BY <2>1
  <2>3. Passed(a)' <=>
          /\ a[2] \in modesOf[a[1]]
          /\ \E i \in 1..Len(reported) :
               reported[i] = a[1] /\ (i < at \/ (i = at /\ a[2] < mode + 1))
    BY <1>1 DEF Passed
  <2>4. a = new <=> a[1] = reported[at] /\ a[2] = mode
    BY <2>1
  <2> QED
    BY <1>2, <2>2, <2>3, <2>4 DEF Passed
<1> HIDE DEF new
<1>8. new \notin Collected
  BY <1>1, <1>3, <1>6 DEF Progress, Running
<1>9. IsFiniteSet(Collected') /\ Cardinality(Collected') = Len(accounts')
  BY <1>1, <1>4, <1>5, <1>8, FS_AddElement DEF Progress, Running
<1>10. \A a \in Accounts : a \in Collected' <=> Passed(a)'
  BY <1>1, <1>5, <1>7 DEF Progress, Running
<1> QED
  BY <1>1, <1>9, <1>10 DEF Progress

\* A mode that was not verified, and the end of a result, pass no account.
LEMMA SkipProgress ==
  ASSUME TypeOK, Progress, SkipMode \/ NextResult
  PROVE  Progress'
<1>1. /\ phase = "collect" /\ phase' = "collect"
      /\ UNCHANGED <<reported, modesOf, accounts>>
      /\ at \in 1..Len(reported) /\ reported[at] \in Node
  BY DEF SkipMode, NextResult, Collecting, poolVars, TypeOK
<1>2. Collected' = Collected
  BY <1>1 DEF Collected
<1>3. ASSUME NEW a \in Accounts PROVE Passed(a)' <=> Passed(a)
  <2>1. a[2] \in 1..NumModes /\ at \in Nat /\ mode \in Nat /\ NumModes \in Nat
    BY PipelineAssumption DEF Accounts, Mode, TypeOK
  <2>2. CASE SkipMode
    <3>1. at' = at /\ mode' = mode + 1 /\ mode \notin modesOf[reported[at]]
      BY <2>2 DEF SkipMode
    <3>2. a[2] < mode + 1 <=> a[2] < mode \/ a[2] = mode
      BY <2>1
    <3> QED
      BY <1>1, <3>1, <3>2 DEF Passed
  <2>3. CASE NextResult
    <3>1. at' = at + 1 /\ mode' = 1 /\ mode > NumModes
      BY <2>3 DEF NextResult
    <3>2. a[2] < mode /\ ~(a[2] < 1)
      BY <2>1, <3>1
    <3>3. \A i \in 1..Len(reported) : i < at + 1 <=> i < at \/ i = at
      BY <2>1
    <3> QED
      BY <1>1, <3>1, <3>2, <3>3 DEF Passed
  <2> QED
    BY <2>2, <2>3
<1> QED
  BY <1>1, <1>2, <1>3 DEF Progress, Running

\* The accounts are not touched behind the collection.
LEMMA QuietProgress ==
  ASSUME Progress, UNCHANGED <<reported, modesOf, accounts, at, mode>>,
         phase' \in Running => phase \in Running,
         phase' \in Running \ {"verify", "collect"} =>
           phase \notin {"verify", "collect"} \/ Full \/ at > Len(reported)
  PROVE  Progress'
<1>1. /\ Collected' = Collected
      /\ \A a \in Accounts : Passed(a)' <=> Passed(a)
      /\ Full' <=> Full
  BY DEF Collected, Passed, Full
<1> QED
  BY <1>1 DEF Progress

LEMMA ProgressStep == TypeOK /\ Ledger /\ Progress /\ [Next]_vars => Progress'
<1> SUFFICES ASSUME TypeOK, Ledger, Progress, [Next]_vars PROVE Progress'
  OBVIOUS
<1>0. TypeOK' /\ Ledger'
  BY TypeStep, LedgerStep
<1>1. CASE Start \/ Load \/ GatherAndFilter
  <2>1. phase' \in {"load", "gather", "verify"}
    BY <1>1 DEF Start, Load, GatherAndFilter, From
  <2> QED
    BY <1>0, <2>1, AtNextStart DEF TypeOK, Ledger, Fresh, Running, Begun
<1>2. ASSUME NEW n \in Node, Verify(n) PROVE Progress'
  <2>1. phase' = "verify"
    BY <1>2, VerifyFacts
  <2> QED
    BY <1>0, <2>1, AtNextStart DEF TypeOK, Ledger, Fresh, Running, Begun
<1>3. CASE CollectAccount
  BY <1>3, CollectProgress
<1>4. CASE SkipMode \/ NextResult
  BY <1>4, SkipProgress
<1>5. CASE EndVerification \/ EndCollection
  BY <1>5, QuietProgress
  DEF EndVerification, Pool!PoolReturn, EndCollection, From, poolVars, collectVars, Running
<1>6. CASE SkipDatabase \/ SaveBatch \/ SaveBatchFails \/ SaveBlacklist
  BY <1>6, QuietProgress
  DEF SkipDatabase, SaveBatch, SaveBatchFails, SaveBlacklist, SaveKeeps, From,
      poolVars, collectVars, Running
<1>7. CASE EndRun \/ Cancel \/ Crash \/ UNCHANGED vars
  BY <1>7, QuietProgress
  DEF EndRun, Cancel, Crash, vars, From, poolVars, collectVars, Running
<1>8. CASE SaveFails \/ RemoveTarget \/ RenameAgain
  BY <1>8, QuietProgress
  DEF SaveFails, RemoveTarget, RenameAgain, SaveKeeps, From, poolVars, collectVars,
      Running
<1> QED
  BY <1>1, <1>2, <1>3, <1>4, <1>5, <1>6, <1>7, <1>8 DEF Next

LEMMA ProgressInvariant == Spec => [](TypeOK /\ Ledger /\ Progress)
<1>1. Init => TypeOK /\ Ledger
  BY InitSound, InitLedger DEF Sound
<1>2. Init => Progress
  BY <1>1, AtStart DEF Init, TypeOK, Running, Begun
<1> QED
  BY <1>1, <1>2, TypeStep, LedgerStep, ProgressStep, PTL DEF Spec

\* What is passed is verified.
LEMMA CollectedVerified ==
  ASSUME TypeOK, Ledger, Progress, phase \in Running
  PROVE  Collected \subseteq Verified
<1>1. Collected \subseteq Accounts
  BY DEF Collected, TypeOK
<1>2. \A a \in Accounts : Passed(a) => status[a[1]] = "passed"
  BY DEF Accounts, Ledger, Results, Passed
<1>3. \A a \in Accounts : a[1] \in Node
  BY DEF Accounts
<1> QED
  BY <1>1, <1>2, <1>3 DEF Progress, Verified, With, Passed

\* The table serves a blacklisted node only where a twin of it was found dead, in
\* any run and whatever the limit.
THEOREM NothingListedServed == Spec => []ServedNotListed
<1>1. TypeOK /\ Ledger /\ Progress => ServedNotListed
  <2> SUFFICES ASSUME TypeOK, Ledger, Progress, synced, phase \in {"save", "fallback", "report"},
                      NEW k \in DOMAIN table, HashOf[table[k][1]] \in bl
               PROVE  \E n \in With("dead") : HashOf[n] = HashOf[table[k][1]]
    BY DEF ServedNotListed
  <2>1. table[k] \in Collected
    BY DEF Ledger, Stored, Collected
  <2>2. table[k] \in Verified
    BY <2>1, CollectedVerified DEF Running
  <2>3. table[k][1] \in Node /\ status[table[k][1]] = "passed"
    BY <2>2 DEF Verified, Accounts, With
  <2>4. HashOf[table[k][1]] \in DeadHashes
    BY <2>3 DEF Ledger, Twins, Running
  <2> QED
    BY <2>4 DEF DeadHashes
<1> QED
  BY <1>1, ProgressInvariant, PTL

LEMMA LimitStep ==
  ASSUME MaxNodes > 0
  PROVE  TypeOK /\ Ledger /\ Limited /\ [Next]_vars => Limited'
<1> SUFFICES ASSUME TypeOK, Ledger, Limited, [Next]_vars PROVE Limited'
  OBVIOUS
<1>1. CASE CollectAccount
  <2>1. phase = "collect" /\ ~Full /\ Len(accounts') = Len(accounts) + 1
        /\ Len(accounts) \in Nat
    BY <1>1 DEF CollectAccount, Collecting, TypeOK
  <2>2. CASE accounts = <<>>
    BY <2>1, <2>2, PipelineAssumption DEF Limited
  <2>3. CASE accounts # <<>>
    BY <2>1, <2>3, PipelineAssumption DEF Limited, Full
  <2> QED
    BY <2>2, <2>3
<1>2. CASE Start \/ Load \/ EndRun \/ Crash
  BY <1>2 DEF Start, Load, EndRun, Crash, From, Limited, Running
<1>3. CASE GatherAndFilter
  BY <1>3, PipelineAssumption
  DEF GatherAndFilter, From, collectVars, Ledger, Fresh, Limited
<1>4. ASSUME NEW n \in Node, Verify(n) PROVE Limited'
  BY <1>4, VerifyFacts DEF collectVars, Limited
<1>5. CASE EndVerification \/ SkipMode \/ NextResult \/ EndCollection
  BY <1>5
  DEF EndVerification, SkipMode, NextResult, EndCollection, Collecting, From,
      collectVars, Limited, Running
<1>6. CASE SkipDatabase \/ SaveBatch \/ SaveBatchFails \/ SaveBlacklist \/ Cancel
           \/ UNCHANGED vars
  BY <1>6
  DEF SkipDatabase, SaveBatch, SaveBatchFails, SaveBlacklist, SaveKeeps, Cancel,
      vars, From, collectVars, Limited, Running
<1>7. CASE SaveFails \/ RemoveTarget \/ RenameAgain
  BY <1>7
  DEF SaveFails, RemoveTarget, RenameAgain, SaveKeeps, From, collectVars, Limited,
      Running
<1> QED
  BY <1>1, <1>2, <1>3, <1>4, <1>5, <1>6, <1>7 DEF Next

\* With a positive limit the accounts of a run are the verified ones, each once, up
\* to the limit; without one the property does not hold (pipeline.go:185).
THEOREM CollectionComplete ==
  ASSUME MaxNodes > 0
  PROVE  Spec => []CollectsWhatPassed
<1>1. TypeOK /\ Ledger /\ Progress /\ Limited => CollectsWhatPassed
  <2> SUFFICES ASSUME TypeOK, Ledger, Progress, Limited, phase = "database"
               PROVE  /\ Collected \subseteq Verified
                      /\ Len(accounts) = Cardinality(Collected)
                      /\ Len(accounts) <= MaxNodes
                      /\ Len(accounts) < MaxNodes => Collected = Verified
    BY DEF CollectsWhatPassed
  <2>1. Collected \subseteq Verified
    BY CollectedVerified DEF Running
  <2>2. ASSUME Len(accounts) < MaxNodes PROVE Verified \subseteq Collected
    <3>1. at > Len(reported) /\ at \in Nat
      BY <2>2, PipelineAssumption DEF Progress, Running, Full, TypeOK
    <3>2. \A i \in 1..Len(reported) : i < at
      BY <3>1 DEF TypeOK
    <3>3. \A a \in Verified : Passed(a)
      BY <3>2 DEF Verified, Accounts, With, Ledger, Results, Running, Passed
    <3> QED
      BY <3>3 DEF Progress, Running, Verified
  <2> QED
    BY <2>1, <2>2 DEF Progress, Limited, Running
<1>2. Init => Limited
  BY DEF Init, Limited, Running
<1> QED
  BY <1>1, <1>2, LimitStep, ProgressInvariant, PTL DEF Spec
=============================================================================
