------------------------------- MODULE Storage -------------------------------
(***************************************************************************)
(* Where a run puts its verified accounts: the subscription files of       *)
(* internal/storage/file_exporter.go and the proxies table of              *)
(* internal/storage/database.go, in the order in which                     *)
(* internal/service/pipeline.go calls them.                                *)
(*                                                                         *)
(* Each run brings a new batch.  The files are overwritten in place, one   *)
(* after the other; the table is replaced within one transaction.  Any     *)
(* call may fail and the process may end between any two of them.  The     *)
(* answer to a commit may be lost after the commit took place.             *)
(*                                                                         *)
(* A file is known by the batch it was written from.                       *)
(***************************************************************************)
EXTENDS Integers, Sequences

CONSTANTS
  MaxBatches,  \* how many batches are stored
  NumRows,     \* the accounts of a batch
  Partial,     \* the content of a file while it is written, or cut off
  Faults       \* which calls may fail, and "crash"

ASSUME StorageAssumption ==
  /\ MaxBatches \in Nat
  /\ NumRows \in Nat \ {0}
  /\ Partial \notin Nat
  /\ Faults \subseteq {"crash", "write", "generate", "query", "answer"}

\* The four files, in the order of the export, and those a converter makes.
Files == <<"nodes", "sub", "singbox.json", "clash.yaml">>
File == {"nodes", "sub", "singbox.json", "clash.yaml"}
Generated == {"singbox.json", "clash.yaml"}

VARIABLES
  job,       \* what the run is at
  batch,     \* the batch of this run; 0 before the first
  at,        \* the file ExportAll is at
  files,     \* the content of each file
  exported,  \* what ExportAll returned
  tables,    \* does the table exist?
  db,        \* its rows, as far as they are committed
  tx,        \* its rows as the open transaction sees them
  row,       \* the row SaveBatch inserts next
  synced     \* what InitSchema and SaveBatch returned

fileVars == <<at, files, exported>>
dbVars   == <<tables, db, tx, row, synced>>
vars == <<job, batch, fileVars, dbVars>>

Jobs == {"idle", "export", "fill", "schema", "begin", "clear", "insert", "done"}
Returns == {"none", "ok", "error"}

RowsOf(b) == {b} \X (1..NumRows)
AllRows == (1..MaxBatches) \X (1..NumRows)

-----------------------------------------------------------------------------
\* ExportAll.

\* A run has verified accounts to store.
BeginExport ==
  /\ job = "idle"
  /\ batch < MaxBatches
  /\ batch' = batch + 1
  /\ at' = 1
  /\ exported' = "none"
  /\ synced' = "none"
  /\ job' = "export"
  /\ UNCHANGED <<files, tables, db, tx, row>>

\* os.WriteFile truncates the file before it writes.
TruncateFile ==
  /\ job = "export"
  /\ at <= Len(Files)
  /\ files' = [files EXCEPT ![Files[at]] = Partial]
  /\ job' = "fill"
  /\ UNCHANGED <<batch, at, exported, dbVars>>

FillFile ==
  /\ job = "fill"
  /\ files' = [files EXCEPT ![Files[at]] = batch]
  /\ at' = at + 1
  /\ job' = "export"
  /\ UNCHANGED <<batch, exported, dbVars>>

\* A configuration cannot be generated: a warning, and the next file.
SkipGenerated ==
  /\ "generate" \in Faults
  /\ job = "export"
  /\ at <= Len(Files)
  /\ Files[at] \in Generated
  /\ at' = at + 1
  /\ UNCHANGED <<job, batch, files, exported, dbVars>>

\* Bug: the error of a write is only logged.
ErrorLogged ==
  /\ "write" \in Faults
  /\ job \in {"export", "fill"}
  /\ exported' = "ok"
  /\ job' = "schema"
  /\ UNCHANGED <<batch, at, files, dbVars>>

\* The directory, the open or the write fails: ExportAll returns the error, the
\* files after this one are not touched.
WriteFails ==
  /\ "write" \in Faults
  /\ job \in {"export", "fill"}
  /\ exported' = "error"
  /\ job' = "schema"
  /\ UNCHANGED <<batch, at, files, dbVars>>

EndExport ==
  /\ job = "export"
  /\ at > Len(Files)
  /\ exported' = "ok"
  /\ job' = "schema"
  /\ UNCHANGED <<batch, at, files, dbVars>>

-----------------------------------------------------------------------------
\* InitSchema and SaveBatch.

\* Dry run, or no database: the table is left alone.
SkipDatabase ==
  /\ job = "schema"
  /\ job' = "done"
  /\ UNCHANGED <<batch, fileVars, dbVars>>

\* CREATE TABLE IF NOT EXISTS, and the indexes.
InitSchema ==
  /\ job = "schema"
  /\ tables' = TRUE
  /\ job' = "begin"
  /\ UNCHANGED <<batch, fileVars, db, tx, row, synced>>

BeginTx ==
  /\ job = "begin"
  /\ tx' = db
  /\ job' = "clear"
  /\ UNCHANGED <<batch, fileVars, tables, db, row, synced>>

\* Bug: DELETE runs on the pool instead of the transaction.
ClearOutsideTx ==
  /\ job = "clear"
  /\ db' = {}
  /\ tx' = {}
  /\ row' = 1
  /\ job' = "insert"
  /\ UNCHANGED <<batch, fileVars, tables, synced>>

\* DELETE FROM proxies, within the transaction, and PREPARE.
Clear ==
  /\ job = "clear"
  /\ tx' = {}
  /\ row' = 1
  /\ job' = "insert"
  /\ UNCHANGED <<batch, fileVars, tables, db, synced>>

MoreRows == row <= NumRows

Insert ==
  /\ job = "insert"
  /\ MoreRows
  /\ tx' = tx \union {<<batch, row>>}
  /\ row' = row + 1
  /\ UNCHANGED <<job, batch, fileVars, tables, db, synced>>

\* A statement fails, or its context is done: the deferred Rollback drops the
\* transaction.  A schema that was begun may have its table.
QueryFails ==
  /\ "query" \in Faults
  /\ job \in {"schema", "begin", "clear", "insert"}
  /\ tables' \in {tables, job = "schema" \/ tables}
  /\ tx' = {}
  /\ synced' = "error"
  /\ job' = "done"
  /\ UNCHANGED <<batch, fileVars, db, row>>

\* Bug: a row that cannot be inserted is skipped and the others are committed.
CommitsPrefix == row <= NumRows + 1 /\ row > NumRows - 1

\* The loop over the nodes has inserted them all.
AllInserted == row > NumRows

Commit ==
  /\ job = "insert"
  /\ AllInserted
  /\ db' = tx
  /\ tx' = {}
  /\ synced' = "ok"
  /\ job' = "done"
  /\ UNCHANGED <<batch, fileVars, tables, row>>

\* The commit takes place and Commit returns an error all the same.
CommitAnswerLost ==
  /\ "answer" \in Faults
  /\ job = "insert"
  /\ AllInserted
  /\ db' = tx
  /\ tx' = {}
  /\ synced' = "error"
  /\ job' = "done"
  /\ UNCHANGED <<batch, fileVars, tables, row>>

\* The summary has gone out and the run ends.
EndRun ==
  /\ job = "done"
  /\ job' = "idle"
  /\ UNCHANGED <<batch, fileVars, dbVars>>

\* The process ends: the server rolls the transaction back.
Crash ==
  /\ "crash" \in Faults
  /\ job # "idle"
  /\ tx' = {}
  /\ job' = "idle"
  /\ UNCHANGED <<batch, fileVars, tables, db, row, synced>>

-----------------------------------------------------------------------------

Init ==
  /\ job = "idle"
  /\ batch = 0
  /\ at = 1
  /\ files = [f \in File |-> 0]
  /\ exported = "none"
  /\ tables = FALSE
  /\ db = {}
  /\ tx = {}
  /\ row = 1
  /\ synced = "none"

Next ==
  \/ BeginExport \/ TruncateFile \/ FillFile \/ SkipGenerated \/ WriteFails
  \/ EndExport \/ SkipDatabase \/ InitSchema \/ BeginTx \/ Clear \/ Insert
  \/ QueryFails \/ Commit \/ CommitAnswerLost \/ EndRun \/ Crash

Spec == Init /\ [][Next]_vars

-----------------------------------------------------------------------------

TypeOK ==
  /\ job \in Jobs
  /\ batch \in 0..MaxBatches
  /\ at \in 1..(Len(Files) + 1)
  /\ files \in [File -> (0..MaxBatches) \union {Partial}]
  /\ exported \in Returns
  /\ tables \in BOOLEAN
  /\ db \subseteq AllRows
  /\ tx \subseteq AllRows
  /\ row \in 1..(NumRows + 1)
  /\ synced \in Returns

\* database.go:150: "all existing proxies are purged before insertion within the
\* same transaction".  Readers of the table find the accounts of one run, all of
\* them, at any time: never none, never a part, never those of two runs.
DbHoldsOneBatch == db = {} \/ \E b \in 1..MaxBatches : db = RowsOf(b)

\* RunSummary.DatabaseSynced is true only if the table holds what this run found.
\* (The converse fails when the answer to the commit is lost.)
SyncedIsTrue == synced = "ok" => db = RowsOf(batch)

\* Once the table is ahead of what an earlier run reported it is because of a
\* commit whose answer was lost: the table never goes back to an older batch.
DbNeverGoesBack ==
  [][\A b \in 1..MaxBatches : db = RowsOf(b) =>
       \E c \in b..MaxBatches : db' = RowsOf(c)]_vars

\* file_exporter.go:31: "exports the given proxy nodes into multiple subscription
\* formats".  When ExportAll returns nil, and FilesExported goes into the summary,
\* the plain files hold the accounts of this run, whole.  (A file whose converter
\* fails keeps what an earlier run left in it, which may have been cut off.)
ExportedIsTrue ==
  exported = "ok" => \A f \in File \ Generated : files[f] = batch
=============================================================================
