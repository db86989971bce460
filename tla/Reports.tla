------------------------------- MODULE Reports -------------------------------
(***************************************************************************)
(* What the operator is told about a run: the counters, the alerts and the *)
(* summary of internal/service/pipeline.go and the heartbeat goroutine of  *)
(* internal/notifier/telegram.go, together with the files and the table of *)
(* Storage that they speak of.                                             *)
(*                                                                         *)
(* The goroutine reads three counters one after the other, while Execute   *)
(* stores them one after the other.  Its select takes any branch that is   *)
(* ready, so it may go on for a while after it was stopped.  A message is  *)
(* sent when the code asks for it: that Telegram refuses one is ignored by *)
(* every caller.  ScrapedSources and the size of the blacklist, which a    *)
(* heartbeat loads as well, are left out.                                  *)
(***************************************************************************)
EXTENDS Storage

CONSTANT MaxTotal  \* the most candidates of a run

ASSUME ReportAssumption == MaxTotal \in Nat

VARIABLES
  phase,      \* what Execute is at; "off" when no process runs
  counters,   \* the telemetry atomics of the Pipeline
  alerts,     \* the contexts of the errors that were sent
  summary,    \* the summary, once sent
  cancelled,  \* is the root context done?
  done,       \* is the channel closed that stops the heartbeat?
  beat,       \* the heartbeat goroutine
  loads,      \* how many counters it has loaded for the next heartbeat
  stats       \* what it loaded

runVars    == <<phase, counters, alerts, summary, cancelled, done>>
beatVars   == <<beat, loads, stats>>
reportVars == <<vars, runVars, beatVars>>

Counter == {"tested", "total", "active"}
Zero == [c \in Counter |-> 0]

\* Bug: the counters are loaded in the order in which the message shows others.
LoadedActiveFirst == <<"active", "tested", "total">>

\* The order of the loads in the closure that Execute passes on.
LoadOrder == <<"tested", "total", "active">>

Summaries == [sent : BOOLEAN, files : BOOLEAN, db : BOOLEAN]
NotSent == [sent |-> FALSE, files |-> FALSE, db |-> FALSE]
DbContexts == {"Database Schema Init", "Database Batch Save"}

\* len(activeNodes) > 0, where this run has got so far.
HasAccounts == counters["active"] > 0

-----------------------------------------------------------------------------
\* The run: Execute.

\* SendStartup and StartHeartbeat.
Launch ==
  /\ phase = "off"
  /\ batch < MaxBatches
  /\ phase' = "gather"
  /\ beat' = "wait"
  /\ UNCHANGED <<vars, counters, alerts, summary, cancelled, done, loads, stats>>

\* The candidates are known and TestAll begins.
CountCandidates ==
  /\ phase = "gather"
  /\ \E n \in 0..MaxTotal : counters' = [counters EXCEPT !["total"] = n]
  /\ phase' = "verify"
  /\ UNCHANGED <<vars, alerts, summary, cancelled, done, beatVars>>

\* TestAll has returned, and its accounts are collected.
CountActive ==
  /\ phase = "verify"
  /\ \E n \in {0, NumRows} :
       /\ n > 0 => counters["total"] > 0
       /\ counters' = [counters EXCEPT !["active"] = n]
  /\ phase' = "verified"
  /\ UNCHANGED <<vars, alerts, summary, cancelled, done, beatVars>>

CountTested ==
  /\ phase = "verified"
  /\ counters' = [counters EXCEPT !["tested"] = counters["total"]]
  /\ phase' = "persist"
  /\ UNCHANGED <<vars, alerts, summary, cancelled, done, beatVars>>

\* Accounts go to the exporter first.
StartStoring ==
  /\ phase = "persist"
  /\ HasAccounts
  /\ BeginExport
  /\ phase' = "store"
  /\ UNCHANGED <<counters, alerts, summary, cancelled, done, beatVars>>

\* Without accounts neither files nor table are touched.
NothingToStore ==
  /\ phase = "persist"
  /\ ~HasAccounts
  /\ phase' = "report"
  /\ UNCHANGED <<vars, counters, alerts, summary, cancelled, done, beatVars>>

\* A step of the exporter or of the database that goes well, or is not told.
Store ==
  /\ phase = "store"
  /\ \/ TruncateFile \/ FillFile \/ SkipGenerated \/ EndExport \/ SkipDatabase
     \/ InitSchema \/ BeginTx \/ Clear \/ Insert \/ Commit
  /\ UNCHANGED <<runVars, beatVars>>

Alert(context) ==
  /\ alerts' = alerts \union {context}
  /\ UNCHANGED <<phase, counters, summary, cancelled, done, beatVars>>

AlertExport ==
  /\ phase = "store"
  /\ WriteFails
  /\ Alert("File Export")

AlertSchema ==
  /\ phase = "store"
  /\ job = "schema"
  /\ QueryFails
  /\ Alert("Database Schema Init")

AlertSave ==
  /\ phase = "store"
  /\ job # "schema"
  /\ QueryFails \/ CommitAnswerLost
  /\ Alert("Database Batch Save")

EndStoring ==
  /\ phase = "store"
  /\ job = "done"
  /\ phase' = "report"
  /\ UNCHANGED <<vars, counters, alerts, summary, cancelled, done, beatVars>>

\* Bug: filesExported and databaseSynced outlive the run.
LastOutcome == [sent |-> TRUE, files |-> exported = "ok", db |-> synced = "ok"]

\* filesExported and databaseSynced start as false in every run.
Outcome == [sent  |-> TRUE,
            files |-> HasAccounts /\ exported = "ok",
            db    |-> HasAccounts /\ synced = "ok"]

\* SendSummary and SendDocument, after the blacklist is saved.
Report ==
  /\ phase = "report"
  /\ summary' = Outcome
  /\ phase' = "stop"
  /\ UNCHANGED <<vars, counters, alerts, cancelled, done, beatVars>>

\* The deferred stop function.  It does not wait for the goroutine.
StopHeartbeat ==
  /\ phase = "stop"
  /\ done' = TRUE
  /\ phase' = "exit"
  /\ UNCHANGED <<vars, counters, alerts, summary, cancelled, beatVars>>

\* Nothing in memory outlives the process.
ProcessEnds ==
  /\ phase' = "off"
  /\ counters' = Zero
  /\ alerts' = {}
  /\ summary' = NotSent
  /\ cancelled' = FALSE
  /\ done' = FALSE
  /\ beat' = "off"
  /\ loads' = 0
  /\ stats' = Zero

\* main returns, whatever the goroutine is at.
Exit ==
  /\ phase = "exit"
  /\ IF HasAccounts THEN EndRun ELSE UNCHANGED vars
  /\ ProcessEnds

CrashRun ==
  /\ "crash" \in Faults
  /\ phase # "off"
  /\ IF job = "idle" THEN UNCHANGED vars ELSE Crash
  /\ ProcessEnds

\* A signal.
Cancel ==
  /\ phase # "off"
  /\ ~cancelled
  /\ cancelled' = TRUE
  /\ UNCHANGED <<vars, phase, counters, alerts, summary, done, beatVars>>

-----------------------------------------------------------------------------
\* The goroutine of StartHeartbeat.

\* The ticker may have fired, and select may prefer it to the other branches.
Tick ==
  /\ beat = "wait"
  /\ beat' = "load"
  /\ UNCHANGED <<vars, runVars, loads, stats>>

LoadCounter ==
  /\ beat = "load"
  /\ loads < Len(LoadOrder)
  /\ LET c == LoadOrder[loads + 1] IN stats' = [stats EXCEPT ![c] = counters[c]]
  /\ loads' = loads + 1
  /\ UNCHANGED <<vars, runVars, beat>>

\* SendHeartbeat; its error is dropped.
SendHeartbeat ==
  /\ beat = "load"
  /\ loads = Len(LoadOrder)
  /\ beat' = "wait"
  /\ loads' = 0
  /\ stats' = Zero
  /\ UNCHANGED <<vars, runVars>>

\* Bug: the select has no branch for the context.
ToldByStopOnly == done

Told == cancelled \/ done

EndHeartbeat ==
  /\ beat = "wait"
  /\ Told
  /\ beat' = "off"
  /\ UNCHANGED <<vars, runVars, loads, stats>>

-----------------------------------------------------------------------------

ReportInit ==
  /\ Init
  /\ phase = "off"
  /\ counters = Zero
  /\ alerts = {}
  /\ summary = NotSent
  /\ cancelled = FALSE
  /\ done = FALSE
  /\ beat = "off"
  /\ loads = 0
  /\ stats = Zero

Execute ==
  \/ Launch \/ CountCandidates \/ CountActive \/ CountTested \/ StartStoring
  \/ NothingToStore \/ Store \/ AlertExport \/ AlertSchema \/ AlertSave
  \/ EndStoring \/ Report \/ StopHeartbeat \/ Exit \/ CrashRun \/ Cancel

Heartbeat == Tick \/ LoadCounter \/ SendHeartbeat \/ EndHeartbeat

ReportNext == Execute \/ Heartbeat

\* The goroutine is scheduled, and its message is answered or times out.  Go's
\* select picks at random among the branches that are ready: it cannot for ever
\* prefer the ticker.  Nothing is assumed of Execute, which may hang.
ReportSpec ==
  /\ ReportInit
  /\ [][ReportNext]_reportVars
  /\ WF_reportVars(LoadCounter)
  /\ WF_reportVars(SendHeartbeat)
  /\ SF_reportVars(EndHeartbeat)

-----------------------------------------------------------------------------

Phases == {"off", "gather", "verify", "verified", "persist", "store", "report",
           "stop", "exit"}

ReportTypeOK ==
  /\ TypeOK
  /\ phase \in Phases
  /\ counters \in [Counter -> Nat]
  /\ alerts \subseteq {"File Export"} \union DbContexts
  /\ summary \in Summaries
  /\ cancelled \in BOOLEAN
  /\ done \in BOOLEAN
  /\ beat \in {"off", "wait", "load"}
  /\ loads \in 0..Len(LoadOrder)
  /\ stats \in [Counter -> Nat]

\* pipeline.go:257: the summary tells FilesExported, DatabaseSynced and what was
\* saved.  What it says is done is on disk and in the table, as this run's
\* accounts; what it says is not done was announced by an alert, unless nothing
\* was tried; and no alert is contradicted.
SummaryTellsTruth ==
  summary.sent =>
    /\ summary.files =>
         HasAccounts /\ \A f \in File \ Generated : files[f] = batch
    /\ summary.db => HasAccounts /\ db = RowsOf(batch)
    /\ "File Export" \in alerts <=> HasAccounts /\ ~summary.files
    /\ alerts \intersect DbContexts # {} <=>
         HasAccounts /\ synced # "none" /\ ~summary.db

\* A heartbeat that shows any node as tested shows the final numbers, all three of
\* them those of the summary: the loads, one by one, cannot put the tested nodes of
\* the end beside a total or a number of accounts of an earlier phase.  It says
\* nothing of a heartbeat that shows none tested, which is every one before the
\* verification ends (testedNodes is stored once, at its end) and may hold numbers
\* of two phases: none tested of 0 candidates, and accounts already.
HeartbeatTestedFinal ==
  loads = Len(LoadOrder) /\ stats["tested"] > 0 =>
    phase \notin {"gather", "verify", "verified"} /\ stats = counters

\* telegram.go:225: the stop function "cleanly stops the ticker".  Once stopped,
\* or after a signal, the goroutine ends, even if Execute does not return.
HeartbeatStops == (done \/ cancelled) ~> beat = "off"
=============================================================================
