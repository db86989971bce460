---------------------------- MODULE ReportsProofs ----------------------------
(***************************************************************************)
(* Proofs about Reports: what a run reports is true, for any number of     *)
(* runs, candidates and accounts, whatever the heartbeat goroutine does.   *)
(***************************************************************************)
EXTENDS Reports, TLAPS

-----------------------------------------------------------------------------
(* Files and table: theorems about Storage, for any number of batches and rows. *)

\* Why the table holds whole batches only: what is committed was built up row by
\* row from nothing.
TxIsPrefix ==
  /\ job # "idle" => batch \in 1..MaxBatches
  /\ job \in {"export", "fill", "schema", "begin", "clear", "insert"} =>
       synced = "none"
  /\ job = "fill" => at <= Len(Files)
  /\ job = "insert" => tx = {batch} \X (1..(row - 1))
  /\ db = {} \/ \E b \in 1..batch : db = RowsOf(b)
  /\ synced = "ok" => db = RowsOf(batch)

Sound == TypeOK /\ TxIsPrefix

LEMMA FilesFacts ==
  Len(Files) = 4 /\ \A i \in 1..4 : Files[i] \in File
  BY DEF Files, File

LEMMA InitSound == Init => Sound
<1> SUFFICES ASSUME Init PROVE Sound
  OBVIOUS
<1>1. /\ 0 \in 0..MaxBatches /\ 1 \in 1..(NumRows + 1) /\ 1 \in 1..(Len(Files) + 1)
  BY StorageAssumption, FilesFacts
<1>2. TypeOK
  BY <1>1 DEF Init, TypeOK, Jobs, Returns
<1>3. TxIsPrefix
  BY DEF Init, TxIsPrefix
<1> QED
  BY <1>2, <1>3 DEF Sound

LEMMA TypeStep == Sound /\ [Next]_vars => TypeOK'
<1> SUFFICES ASSUME Sound, [Next]_vars PROVE TypeOK'
  OBVIOUS
<1> USE StorageAssumption, FilesFacts
<1> USE DEF Sound, TypeOK, TxIsPrefix, Jobs, Returns, fileVars, dbVars
<1>1. CASE BeginExport
  BY <1>1 DEF BeginExport
<1>2. CASE TruncateFile
  BY <1>2 DEF TruncateFile
<1>3. CASE FillFile
  BY <1>3 DEF FillFile
<1>4. CASE SkipGenerated \/ WriteFails \/ EndExport
  BY <1>4 DEF SkipGenerated, WriteFails, EndExport
<1>5. CASE SkipDatabase \/ InitSchema \/ BeginTx
  BY <1>5 DEF SkipDatabase, InitSchema, BeginTx
<1>10. CASE Clear
  <2>1. 1 \in 1..(NumRows + 1)
    OBVIOUS
  <2> QED
    BY <1>10, <2>1 DEF Clear
<1>6. CASE Insert
  BY <1>6 DEF Insert, MoreRows, AllRows
<1>7. CASE QueryFails
  BY <1>7 DEF QueryFails
<1>8. CASE Commit \/ CommitAnswerLost \/ EndRun \/ Crash
  BY <1>8 DEF Commit, CommitAnswerLost, EndRun, Crash
<1>9. CASE UNCHANGED vars
  BY <1>9 DEF vars
<1> QED
  BY <1>1, <1>2, <1>3, <1>4, <1>5, <1>6, <1>7, <1>8, <1>9, <1>10 DEF Next

LEMMA PrefixStep == Sound /\ [Next]_vars => TxIsPrefix'
<1> SUFFICES ASSUME Sound, [Next]_vars PROVE TxIsPrefix'
  OBVIOUS
<1> USE StorageAssumption, FilesFacts
<1> USE DEF Sound, TypeOK, TxIsPrefix, Jobs, Returns, fileVars, dbVars
<1>1. CASE BeginExport
  BY <1>1 DEF BeginExport
<1>2. CASE TruncateFile \/ FillFile \/ SkipGenerated \/ WriteFails \/ EndExport
  BY <1>2 DEF TruncateFile, FillFile, SkipGenerated, WriteFails, EndExport
<1>3. CASE SkipDatabase \/ InitSchema \/ BeginTx
  BY <1>3 DEF SkipDatabase, InitSchema, BeginTx
<1>4. CASE Clear
  <2>1. {batch} \X (1..0) = {}
    OBVIOUS
  <2> QED
    BY <1>4, <2>1 DEF Clear
<1>5. CASE Insert
  <2>1. {batch} \X (1..row) = ({batch} \X (1..(row - 1))) \union {<<batch, row>>}
    <3>1. 1..row = (1..(row - 1)) \union {row}
      OBVIOUS
    <3> QED
      BY <3>1
  <2>2. row' - 1 = row
    BY <1>5 DEF Insert, MoreRows
  <2>3. tx' = {batch'} \X (1..(row' - 1))
    BY <1>5, <2>1, <2>2 DEF Insert, MoreRows
  <2> QED
    BY <1>5, <2>3 DEF Insert, MoreRows
<1>6. CASE Commit \/ CommitAnswerLost
  <2>1. job = "insert" /\ row = NumRows + 1 /\ db' = tx /\ job' = "done"
        /\ UNCHANGED <<batch, at>>
    BY <1>6 DEF Commit, CommitAnswerLost, AllInserted
  <2>2. db' = RowsOf(batch)
    BY <2>1 DEF RowsOf
  <2> QED
    BY <2>1, <2>2
<1>7. CASE QueryFails \/ EndRun \/ Crash
  BY <1>7 DEF QueryFails, EndRun, Crash
<1>8. CASE UNCHANGED vars
  BY <1>8 DEF vars
<1> QED
  BY <1>1, <1>2, <1>3, <1>4, <1>5, <1>6, <1>7, <1>8 DEF Next

LEMMA SoundInvariant == Spec => []Sound
<1>1. Sound /\ [Next]_vars => Sound'
  BY TypeStep, PrefixStep DEF Sound
<1> QED
  BY <1>1, InitSound, PTL DEF Spec

\* The state of the storage keeps its types for any number of batches.
THEOREM StorageTypes == Spec => []TypeOK
  BY SoundInvariant, PTL DEF Sound

\* Whatever fails, the table holds the accounts of one run, all of them, and the
\* summary says so only when it is this run's.
THEOREM OneBatch == Spec => [](DbHoldsOneBatch /\ SyncedIsTrue)
<1>1. Sound => DbHoldsOneBatch /\ SyncedIsTrue
  BY StorageAssumption DEF Sound, TypeOK, TxIsPrefix, DbHoldsOneBatch, SyncedIsTrue
<1> QED
  BY <1>1, SoundInvariant, PTL

\* A batch is not empty, and its rows tell it from any other.
LEMMA RowsTellBatch ==
  /\ \A b : RowsOf(b) # {}
  /\ \A b, c : RowsOf(b) = RowsOf(c) => b = c
<1>1. \A b : <<b, 1>> \in RowsOf(b)
  BY StorageAssumption DEF RowsOf
<1>2. \A b, c : <<b, 1>> \in RowsOf(c) => b = c
  BY DEF RowsOf
<1> QED
  BY <1>1, <1>2

\* What a transaction commits is the newest batch: readers of the table never see
\* an older batch after a newer one, whichever runs fail in between.
THEOREM NeverGoesBack == Spec => DbNeverGoesBack
<1> DEFINE Onward == \A b \in 1..MaxBatches :
                       db = RowsOf(b) => \E c \in b..MaxBatches : db' = RowsOf(c)
<1>1. Sound /\ [Next]_vars => [Onward]_vars
  <2> SUFFICES ASSUME Sound, Next, NEW b \in 1..MaxBatches, db = RowsOf(b)
               PROVE  \E c \in b..MaxBatches : db' = RowsOf(c)
    OBVIOUS
  <2> USE StorageAssumption DEF Sound, TypeOK, TxIsPrefix, fileVars, dbVars
  <2>1. CASE Commit \/ CommitAnswerLost
    <3>1. batch \in 1..MaxBatches /\ row = NumRows + 1 /\ db' = tx
      BY <2>1 DEF Commit, CommitAnswerLost, AllInserted
    <3>2. db' = RowsOf(batch)
      BY <2>1, <3>1 DEF Commit, CommitAnswerLost, RowsOf
    <3>3. b <= batch
      BY RowsTellBatch
    <3> QED
      BY <3>1, <3>2, <3>3
  <2>2. CASE ~Commit /\ ~CommitAnswerLost
    <3>1. db' = db
      BY <2>2
      DEF Next, BeginExport, TruncateFile, FillFile, SkipGenerated, WriteFails,
          EndExport, SkipDatabase, InitSchema, BeginTx, Clear, Insert, QueryFails,
          EndRun, Crash
    <3> QED
      BY <3>1
  <2> QED
    BY <2>1, <2>2
<1> QED
  BY <1>1, SoundInvariant, PTL DEF Spec, DbNeverGoesBack

\* What is behind the position of the export is written, the plain files at least.
FilesFollow ==
  /\ job \in {"export", "fill"} =>
       /\ exported = "none"
       /\ at > 1 => files["nodes"] = batch
       /\ at > 2 => files["sub"] = batch
  /\ exported = "ok" => files["nodes"] = batch /\ files["sub"] = batch

LEMMA FollowStep == Sound /\ FilesFollow /\ [Next]_vars => FilesFollow'
<1> SUFFICES ASSUME Sound, FilesFollow, [Next]_vars PROVE FilesFollow'
  OBVIOUS
<1> USE DEF Sound, TypeOK, FilesFollow, fileVars, dbVars
<1>1. CASE BeginExport
  BY <1>1 DEF BeginExport
<1>2. CASE TruncateFile
  <2>1. /\ at > 1 => Files[at] # "nodes"
        /\ at > 2 => Files[at] # "sub"
    BY <1>2 DEF TruncateFile, Files
  <2> QED
    BY <1>2, <2>1 DEF TruncateFile, File
<1>3. CASE FillFile
  <2>1. at \in 1..4
    BY <1>3, FilesFacts DEF FillFile, TxIsPrefix
  <2>2. /\ files'["nodes"] = IF at = 1 THEN batch ELSE files["nodes"]
        /\ files'["sub"] = IF at = 2 THEN batch ELSE files["sub"]
    BY <1>3, <2>1 DEF FillFile, Files, File
  <2> QED
    BY <1>3, <2>1, <2>2 DEF FillFile
<1>4. CASE SkipGenerated
  <2>1. at > 2
    BY <1>4 DEF SkipGenerated, Files, Generated
  <2> QED
    BY <1>4, <2>1 DEF SkipGenerated
<1>5. CASE WriteFails \/ EndExport
  BY <1>5, FilesFacts DEF WriteFails, EndExport
<1>6. CASE \/ SkipDatabase \/ InitSchema \/ BeginTx \/ Clear \/ Insert
           \/ QueryFails \/ Commit \/ CommitAnswerLost \/ EndRun \/ Crash
  BY <1>6
  DEF SkipDatabase, InitSchema, BeginTx, Clear, Insert, QueryFails, Commit,
      CommitAnswerLost, EndRun, Crash
<1>7. CASE UNCHANGED vars
  BY <1>7 DEF vars
<1> QED
  BY <1>1, <1>2, <1>3, <1>4, <1>5, <1>6, <1>7 DEF Next

\* An export that is reported holds the accounts of the run in its plain files,
\* whichever runs before it were cut off.
THEOREM ExportTold == Spec => []ExportedIsTrue
<1>1. Init => FilesFollow
  BY DEF Init, FilesFollow
<1>2. FilesFollow => ExportedIsTrue
  BY DEF FilesFollow, ExportedIsTrue, File, Generated
<1> QED
  BY <1>1, <1>2, FollowStep, SoundInvariant, PTL DEF Spec

-----------------------------------------------------------------------------
(* The reports. *)

LEMMA OrderFacts ==
  /\ Len(LoadOrder) = 3
  /\ LoadOrder[1] = "tested" /\ LoadOrder[2] = "total" /\ LoadOrder[3] = "active"
  BY DEF LoadOrder

-----------------------------------------------------------------------------
\* A run stores as Storage says.

LEMMA StorageStep == [ReportNext]_reportVars => [Next]_vars
<1> SUFFICES ASSUME ReportNext PROVE Next \/ UNCHANGED vars
  BY DEF reportVars, vars
<1>1. CASE Heartbeat
  BY <1>1 DEF Heartbeat, Tick, LoadCounter, SendHeartbeat, EndHeartbeat
<1>2. CASE \/ Launch \/ CountCandidates \/ CountActive \/ CountTested
           \/ NothingToStore \/ EndStoring \/ Report \/ StopHeartbeat \/ Cancel
  BY <1>2 DEF Launch, CountCandidates, CountActive, CountTested, NothingToStore,
              EndStoring, Report, StopHeartbeat, Cancel
<1>3. CASE \/ StartStoring \/ Store \/ AlertExport \/ AlertSchema \/ AlertSave
           \/ Exit \/ CrashRun
  BY <1>3 DEF StartStoring, Store, AlertExport, AlertSchema, AlertSave, Exit,
              CrashRun, Next
<1> QED
  BY <1>1, <1>2, <1>3 DEF ReportNext, Execute

\* Every behaviour of a run and of its heartbeat is one of files and table.
THEOREM StoresAsPromised == ReportSpec => Spec
<1>1. ReportInit => Init
  BY DEF ReportInit
<1> QED
  BY <1>1, StorageStep, PTL DEF ReportSpec, Spec

\* So what is proved of files and table holds while they are reported on.
THEOREM StorageHolds ==
  ReportSpec => [](DbHoldsOneBatch /\ ExportedIsTrue) /\ DbNeverGoesBack
  BY StoresAsPromised, OneBatch, ExportTold, NeverGoesBack, PTL

-----------------------------------------------------------------------------
\* Types.

LEMMA ReportInitTypes == ReportInit => ReportTypeOK
<1> SUFFICES ASSUME ReportInit PROVE ReportTypeOK
  OBVIOUS
<1>1. TypeOK
  BY InitSound DEF ReportInit, Sound
<1>2. Zero \in [Counter -> Nat] /\ 0 \in 0..Len(LoadOrder)
  BY OrderFacts DEF Zero
<1> QED
  BY <1>1, <1>2 DEF ReportInit, ReportTypeOK, Phases, NotSent, Summaries

NumbersOK ==
  /\ counters \in [Counter -> Nat]
  /\ loads \in 0..3
  /\ stats \in [Counter -> Nat]

FlagsOK ==
  /\ phase \in Phases
  /\ alerts \subseteq {"File Export"} \union DbContexts
  /\ summary \in Summaries
  /\ cancelled \in BOOLEAN
  /\ done \in BOOLEAN
  /\ beat \in {"off", "wait", "load"}

LEMMA TypeParts == ReportTypeOK <=> TypeOK /\ NumbersOK /\ FlagsOK
  BY OrderFacts, Zenon DEF ReportTypeOK, NumbersOK, FlagsOK

LEMMA NumbersStep == NumbersOK /\ [ReportNext]_reportVars => NumbersOK'
<1> SUFFICES ASSUME NumbersOK, [ReportNext]_reportVars PROVE NumbersOK'
  OBVIOUS
<1>a. Zero \in [Counter -> Nat]
  BY DEF Zero
<1>b. NumRows \in Nat /\ 0..MaxTotal \subseteq Nat
  BY StorageAssumption, ReportAssumption
<1> USE <1>a DEF NumbersOK, runVars, beatVars
<1>1. CASE Tick \/ SendHeartbeat \/ EndHeartbeat
  BY <1>1 DEF Tick, SendHeartbeat, EndHeartbeat
<1>2. CASE LoadCounter
  <2>1. LoadOrder[loads + 1] \in Counter
    BY <1>2, OrderFacts DEF LoadCounter, Counter
  <2> QED
    BY <1>2, <2>1, OrderFacts DEF LoadCounter
<1>3. CASE CountCandidates \/ CountActive \/ CountTested
  BY <1>3, <1>b DEF CountCandidates, CountActive, CountTested, Counter
<1>4. CASE \/ Launch \/ NothingToStore \/ EndStoring \/ StopHeartbeat \/ Cancel
           \/ StartStoring \/ Store \/ Report
  BY <1>4 DEF Launch, NothingToStore, EndStoring, StopHeartbeat, Cancel,
              StartStoring, Store, Report
<1>5. CASE AlertExport \/ AlertSchema \/ AlertSave
  BY <1>5 DEF AlertExport, AlertSchema, AlertSave, Alert
<1>6. CASE Exit \/ CrashRun
  BY <1>6 DEF Exit, CrashRun, ProcessEnds
<1>7. CASE UNCHANGED reportVars
  BY <1>7 DEF reportVars
<1> QED
  BY <1>1, <1>2, <1>3, <1>4, <1>5, <1>6, <1>7
  DEF ReportNext, Execute, Heartbeat

LEMMA FlagsStep == FlagsOK /\ [ReportNext]_reportVars => FlagsOK'
<1> SUFFICES ASSUME FlagsOK, [ReportNext]_reportVars PROVE FlagsOK'
  OBVIOUS
<1> USE DEF FlagsOK, Phases, runVars, beatVars
<1>1. CASE Tick \/ LoadCounter \/ SendHeartbeat \/ EndHeartbeat
  BY <1>1 DEF Tick, LoadCounter, SendHeartbeat, EndHeartbeat
<1>2. CASE CountCandidates \/ CountActive \/ CountTested
  BY <1>2 DEF CountCandidates, CountActive, CountTested
<1>3. CASE \/ Launch \/ NothingToStore \/ EndStoring \/ StopHeartbeat \/ Cancel
           \/ StartStoring \/ Store
  BY <1>3 DEF Launch, NothingToStore, EndStoring, StopHeartbeat, Cancel,
              StartStoring, Store
<1>4. CASE AlertExport \/ AlertSchema \/ AlertSave
  BY <1>4 DEF AlertExport, AlertSchema, AlertSave, Alert, DbContexts
<1>5. CASE Report
  <2>1. Outcome \in Summaries
    BY DEF Summaries, Outcome, HasAccounts
  <2> QED
    BY <1>5, <2>1 DEF Report
<1>6. CASE Exit \/ CrashRun
  <2>1. NotSent \in Summaries
    BY DEF Summaries, NotSent
  <2> QED
    BY <1>6, <2>1 DEF Exit, CrashRun, ProcessEnds
<1>7. CASE UNCHANGED reportVars
  BY <1>7 DEF reportVars
<1> QED
  BY <1>1, <1>2, <1>3, <1>4, <1>5, <1>6, <1>7
  DEF ReportNext, Execute, Heartbeat

-----------------------------------------------------------------------------
\* The heartbeat.

Verified == {"persist", "store", "report", "stop", "exit"}

\* Once tested is loaded as more than none, the verification is over and the
\* other two counters are final.
BeatFollows ==
  /\ phase \notin Verified => counters["tested"] = 0
  /\ phase \in Verified => counters["tested"] = counters["total"]
  /\ phase = "off" => loads = 0 /\ beat = "off"
  /\ loads > 0 /\ stats["tested"] > 0 =>
       phase \in Verified /\ stats["tested"] = counters["total"]
  /\ loads > 1 /\ stats["tested"] > 0 => stats["total"] = counters["total"]
  /\ loads > 2 /\ stats["tested"] > 0 => stats["active"] = counters["active"]

LEMMA BeatStep ==
  NumbersOK /\ BeatFollows /\ [ReportNext]_reportVars => BeatFollows'
<1> SUFFICES ASSUME NumbersOK, BeatFollows, [ReportNext]_reportVars
             PROVE  BeatFollows'
  OBVIOUS
<1>0. NumbersOK'
  BY NumbersStep
<1> USE <1>0 DEF NumbersOK, BeatFollows, Verified, runVars, beatVars, Counter
<1>1. CASE Tick \/ EndHeartbeat
  BY <1>1 DEF Tick, EndHeartbeat
<1>2. CASE SendHeartbeat
  BY <1>2 DEF SendHeartbeat
<1>3. CASE LoadCounter
  <2>1. CASE loads = 0
    <3>1. /\ stats'["tested"] = counters["tested"] /\ loads' = 1
          /\ phase # "off" /\ UNCHANGED <<phase, counters>>
      BY <1>3, <2>1, OrderFacts DEF LoadCounter
    <3> QED
      BY <3>1
  <2>2. CASE loads = 1
    <3>1. /\ stats'["total"] = counters["total"] /\ stats'["tested"] = stats["tested"]
          /\ loads' = 2 /\ UNCHANGED <<phase, counters>>
      BY <1>3, <2>2, OrderFacts DEF LoadCounter
    <3> QED
      BY <3>1, <2>2
  <2>3. CASE loads = 2
    <3>1. /\ stats'["active"] = counters["active"] /\ loads' = 3
          /\ stats'["tested"] = stats["tested"] /\ stats'["total"] = stats["total"]
          /\ UNCHANGED <<phase, counters>>
      BY <1>3, <2>3, OrderFacts DEF LoadCounter
    <3> QED
      BY <3>1, <2>3
  <2> QED
    BY <1>3, <2>1, <2>2, <2>3, OrderFacts DEF LoadCounter
<1>4. CASE Launch \/ NothingToStore \/ EndStoring \/ StopHeartbeat \/ Cancel
  BY <1>4 DEF Launch, NothingToStore, EndStoring, StopHeartbeat, Cancel
<1>5. CASE CountCandidates
  BY <1>5 DEF CountCandidates
<1>6. CASE CountActive
  BY <1>6 DEF CountActive
<1>7. CASE CountTested
  <2>1. /\ counters'["tested"] = counters["total"] /\ phase' = "persist"
        /\ counters'["total"] = counters["total"]
        /\ counters'["active"] = counters["active"]
    BY <1>7 DEF CountTested
  <2> QED
    BY <1>7, <2>1 DEF CountTested
<1>8. CASE StartStoring \/ Store \/ AlertExport \/ AlertSchema \/ AlertSave
  BY <1>8 DEF StartStoring, Store, AlertExport, AlertSchema, AlertSave, Alert
<1>9. CASE Report
  BY <1>9 DEF Report
<1>10. CASE Exit \/ CrashRun
  BY <1>10 DEF Exit, CrashRun, ProcessEnds, Zero
<1>11. CASE UNCHANGED reportVars
  BY <1>11 DEF reportVars
<1> QED
  BY <1>1, <1>2, <1>3, <1>4, <1>5, <1>6, <1>7, <1>8, <1>9, <1>10, <1>11
  DEF ReportNext, Execute, Heartbeat

-----------------------------------------------------------------------------
\* The summary.

Before == {"off", "gather", "verify", "verified", "persist"}
After  == {"report", "stop", "exit"}

ExportAlerted   == "File Export" \in alerts
DatabaseAlerted == alerts \intersect DbContexts # {}

\* How far the alerts have kept up with what ExportAll and SaveBatch returned.
AlertsFollow ==
  /\ ExportAlerted <=> exported = "error"
  /\ DatabaseAlerted <=> synced = "error"

TellsFollow ==
  /\ phase \in Before => job = "idle" /\ alerts = {} /\ ~summary.sent
  /\ phase = "store" =>
       /\ HasAccounts /\ ~summary.sent /\ job # "idle" /\ AlertsFollow
       /\ IF job \in {"export", "fill"} THEN exported = "none"
                                         ELSE exported \in {"ok", "error"}
       /\ job # "done" => synced = "none"
  /\ phase \in After =>
       IF HasAccounts
         THEN job = "done" /\ exported \in {"ok", "error"} /\ AlertsFollow
         ELSE job = "idle" /\ alerts = {}
  /\ summary.sent => phase \in {"stop", "exit"} /\ summary = Outcome

LEMMA OutcomeFields ==
  /\ Outcome.sent = TRUE
  /\ Outcome.files = (HasAccounts /\ exported = "ok")
  /\ Outcome.db = (HasAccounts /\ synced = "ok")
  BY DEF Outcome

\* What a step that only moves Execute on, or the heartbeat, leaves alone.
LEMMA TellsKept ==
  ASSUME TellsFollow, UNCHANGED <<vars, counters, alerts, summary>>,
         phase' = phase
  PROVE  TellsFollow'
  BY DEF TellsFollow, AlertsFollow, ExportAlerted, DatabaseAlerted, Outcome,
         HasAccounts, vars, fileVars, dbVars

LEMMA TellsStep ==
  Sound /\ TellsFollow /\ [ReportNext]_reportVars => TellsFollow'
<1> SUFFICES ASSUME Sound, TellsFollow, [ReportNext]_reportVars
             PROVE  TellsFollow'
  OBVIOUS
<1> USE DEF Before, After, HasAccounts, runVars
<1>1. CASE Tick \/ LoadCounter \/ SendHeartbeat \/ EndHeartbeat \/ Cancel
  BY <1>1, TellsKept DEF Tick, LoadCounter, SendHeartbeat, EndHeartbeat, Cancel
<1>2. CASE Launch \/ CountCandidates \/ CountActive \/ CountTested
  BY <1>2 DEF Launch, CountCandidates, CountActive, CountTested, TellsFollow,
              vars, fileVars, dbVars
<1>3. CASE StartStoring
  <2>1. /\ alerts' = {} /\ exported' = "none" /\ synced' = "none"
        /\ job' = "export" /\ phase' = "store" /\ UNCHANGED <<counters, summary>>
    BY <1>3 DEF StartStoring, BeginExport, TellsFollow
  <2>2. AlertsFollow'
    BY <2>1 DEF AlertsFollow, ExportAlerted, DatabaseAlerted
  <2> QED
    BY <1>3, <2>1, <2>2 DEF StartStoring, TellsFollow
<1>4. CASE NothingToStore
  BY <1>4 DEF NothingToStore, TellsFollow, vars, fileVars, dbVars
<1>5. CASE Store
  <2>1. /\ phase = "store" /\ UNCHANGED <<phase, counters, alerts, summary>>
    BY <1>5 DEF Store
  <2>2. /\ job' # "idle"
        /\ exported' # exported => exported = "none" /\ exported' = "ok"
        /\ synced' # synced => synced = "none" /\ synced' = "ok"
        /\ IF job' \in {"export", "fill"} THEN exported' = "none"
                                           ELSE exported' \in {"ok", "error"}
        /\ job' # "done" => synced' = "none"
    <3>1. CASE TruncateFile \/ FillFile \/ SkipGenerated \/ EndExport
      BY <3>1, <2>1 DEF TellsFollow, Sound, TxIsPrefix, fileVars, dbVars,
         TruncateFile, FillFile, SkipGenerated, EndExport
    <3>2. CASE SkipDatabase \/ InitSchema \/ BeginTx \/ Clear \/ Insert \/ Commit
      BY <3>2, <2>1 DEF TellsFollow, fileVars, dbVars,
         SkipDatabase, InitSchema, BeginTx, Clear, Insert, Commit
    <3> QED
      BY <3>1, <3>2, <1>5 DEF Store
  <2>3. AlertsFollow'
    BY <2>1, <2>2 DEF TellsFollow, AlertsFollow, ExportAlerted, DatabaseAlerted
  <2> QED
    BY <2>1, <2>2, <2>3 DEF TellsFollow
<1>6. CASE AlertExport
  <2>1. /\ phase = "store" /\ exported' = "error" /\ job' = "schema"
        /\ synced' = "none" /\ UNCHANGED <<phase, counters, summary, synced>>
        /\ alerts' = alerts \union {"File Export"}
    BY <1>6 DEF AlertExport, WriteFails, Alert, dbVars, TellsFollow
  <2>2. AlertsFollow'
    BY <2>1 DEF TellsFollow, AlertsFollow, ExportAlerted, DatabaseAlerted, DbContexts
  <2> QED
    BY <2>1, <2>2 DEF TellsFollow
<1>7. CASE AlertSchema \/ AlertSave
  <2>1. /\ phase = "store" /\ synced' = "error" /\ job' = "done"
        /\ UNCHANGED <<phase, counters, summary, exported>>
        /\ exported \in {"ok", "error"}
        /\ \E c \in DbContexts : alerts' = alerts \union {c}
    BY <1>7 DEF AlertSchema, AlertSave, QueryFails, CommitAnswerLost, Alert,
                fileVars, TellsFollow, DbContexts
  <2>2. AlertsFollow'
    BY <2>1 DEF TellsFollow, AlertsFollow, ExportAlerted, DatabaseAlerted, DbContexts
  <2> QED
    BY <2>1, <2>2 DEF TellsFollow
<1>8. CASE EndStoring
  BY <1>8 DEF EndStoring, TellsFollow, AlertsFollow, ExportAlerted,
              DatabaseAlerted, vars, fileVars, dbVars
<1>9. CASE Report
  <2>1. UNCHANGED <<vars, counters, alerts>> /\ phase = "report" /\ phase' = "stop"
    BY <1>9 DEF Report
  <2>2. summary' = Outcome'
    BY <1>9, <2>1 DEF Report, Outcome, vars, fileVars, dbVars
  <2> QED
    BY <2>1, <2>2 DEF TellsFollow, AlertsFollow, ExportAlerted,
                      DatabaseAlerted, vars, fileVars, dbVars
<1>10. CASE StopHeartbeat
  <2>1. /\ UNCHANGED <<vars, counters, alerts, summary>>
        /\ phase = "stop" /\ phase' = "exit"
    BY <1>10 DEF StopHeartbeat
  <2>2. Outcome' = Outcome
    BY <2>1 DEF Outcome, vars, fileVars, dbVars
  <2> QED
    BY <2>1, <2>2 DEF TellsFollow, AlertsFollow, ExportAlerted,
                      DatabaseAlerted, vars, fileVars, dbVars
<1>11. CASE Exit \/ CrashRun
  <2>1. phase' = "off" /\ alerts' = {} /\ summary' = NotSent
    BY <1>11 DEF Exit, CrashRun, ProcessEnds
  <2>2. job' = "idle"
    BY <1>11 DEF Exit, CrashRun, EndRun, Crash, TellsFollow, vars
  <2>3. ~summary'.sent
    BY <2>1 DEF NotSent
  <2> QED
    BY <2>1, <2>2, <2>3 DEF TellsFollow
<1>12. CASE UNCHANGED reportVars
  BY <1>12, TellsKept DEF reportVars
<1> QED
  BY <1>1, <1>2, <1>3, <1>4, <1>5, <1>6, <1>7, <1>8, <1>9, <1>10, <1>11, <1>12
  DEF ReportNext, Execute, Heartbeat

-----------------------------------------------------------------------------

ReportSound ==
  Sound /\ FilesFollow /\ ReportTypeOK /\ BeatFollows /\ TellsFollow

LEMMA ReportSoundInvariant == ReportSpec => []ReportSound
<1>1. ReportInit => ReportSound
  <2> SUFFICES ASSUME ReportInit PROVE ReportSound
    OBVIOUS
  <2>1. Sound /\ FilesFollow
    BY InitSound DEF ReportInit, Init, FilesFollow
  <2>2. ReportTypeOK
    BY ReportInitTypes
  <2>3. BeatFollows
    BY DEF ReportInit, BeatFollows, Verified, Zero, Counter
  <2>4. TellsFollow
    BY DEF ReportInit, Init, TellsFollow, Before, After, NotSent
  <2> QED
    BY <2>1, <2>2, <2>3, <2>4 DEF ReportSound
<1>2. ReportSound /\ [ReportNext]_reportVars => ReportSound'
  <2> SUFFICES ASSUME ReportSound, [ReportNext]_reportVars PROVE ReportSound'
    OBVIOUS
  <2>1. Sound' /\ FilesFollow'
    BY StorageStep, TypeStep, PrefixStep, FollowStep DEF ReportSound, Sound
  <2>2. ReportTypeOK'
    <3>1. NumbersOK /\ FlagsOK
      BY TypeParts DEF ReportSound
    <3>2. TypeOK' /\ NumbersOK' /\ FlagsOK'
      BY <2>1, <3>1, NumbersStep, FlagsStep DEF Sound
    <3> QED
      BY <3>2, OrderFacts, Zenon DEF ReportTypeOK, NumbersOK, FlagsOK
  <2>3. BeatFollows' /\ TellsFollow'
    BY BeatStep, TellsStep, TypeParts DEF ReportSound
  <2> QED
    BY <2>1, <2>2, <2>3 DEF ReportSound
<1> QED
  BY <1>1, <1>2, PTL DEF ReportSpec

\* The reports of any number of runs keep their types.
THEOREM ReportTypes == ReportSpec => []ReportTypeOK
  BY ReportSoundInvariant, PTL DEF ReportSound

\* Whatever fails, the summary of a run says of its files and of the table what is
\* true, and every failure it tells of was announced.
THEOREM SummaryTrue == ReportSpec => []SummaryTellsTruth
<1>1. ReportSound => SummaryTellsTruth
  <2> SUFFICES ASSUME ReportSound, summary.sent PROVE SummaryTellsTruth
    BY DEF SummaryTellsTruth
  <2>1. /\ phase \in After
        /\ summary.files = (HasAccounts /\ exported = "ok")
        /\ summary.db = (HasAccounts /\ synced = "ok")
    BY OutcomeFields DEF ReportSound, TellsFollow, After
  <2>2. HasAccounts =>
          /\ exported \in {"ok", "error"}
          /\ ExportAlerted <=> exported = "error"
          /\ DatabaseAlerted <=> synced = "error"
    BY <2>1 DEF ReportSound, TellsFollow, AlertsFollow
  <2>3. ~HasAccounts => alerts = {}
    BY <2>1 DEF ReportSound, TellsFollow
  <2>4. summary.files => \A f \in File \ Generated : files[f] = batch
    BY <2>1 DEF ReportSound, FilesFollow, File, Generated
  <2>5. summary.db => db = RowsOf(batch)
    BY <2>1 DEF ReportSound, Sound, TxIsPrefix
  <2>6. "File Export" \in alerts <=> HasAccounts /\ ~summary.files
    BY <2>1, <2>2, <2>3 DEF ExportAlerted
  <2>7. synced \in {"none", "ok", "error"}
    BY DEF ReportSound, Sound, TypeOK, Returns
  <2>8. alerts \intersect DbContexts # {} <=>
          HasAccounts /\ synced # "none" /\ ~summary.db
    BY <2>1, <2>2, <2>3, <2>7 DEF DatabaseAlerted
  <2> QED
    BY <2>1, <2>4, <2>5, <2>6, <2>8 DEF SummaryTellsTruth
<1> QED
  BY <1>1, ReportSoundInvariant, PTL

\* Three loads in this order, against three stores in theirs: a heartbeat that shows
\* any node as tested shows the final numbers and no others.
THEOREM HeartbeatsTestedFinal == ReportSpec => []HeartbeatTestedFinal
<1>1. ReportSound => HeartbeatTestedFinal
  <2> SUFFICES ASSUME ReportSound, loads = 3, stats["tested"] > 0
               PROVE  phase \notin {"gather", "verify", "verified"} /\ stats = counters
    BY OrderFacts DEF HeartbeatTestedFinal
  <2>1. BeatFollows /\ NumbersOK
    BY TypeParts DEF ReportSound
  <2>2. phase \in Verified /\ \A c \in Counter : stats[c] = counters[c]
    BY <2>1 DEF BeatFollows, Counter
  <2>3. stats \in [Counter -> Nat] /\ counters \in [Counter -> Nat]
    BY <2>1 DEF NumbersOK
  <2>4. stats = counters
    BY <2>2, <2>3
  <2> QED
    BY <2>2, <2>4 DEF Verified
<1> QED
  BY <1>1, ReportSoundInvariant, PTL
=============================================================================
