--------------------------- MODULE BlacklistStore ---------------------------
(***************************************************************************)
(* The blacklist on disk, internal/blacklist/blacklist.go, over the runs   *)
(* of the program (cmd/latinasub/main.go, internal/service/pipeline.go).   *)
(*                                                                         *)
(* Each run loads the file, adds the hashes of the nodes it finds dead,    *)
(* and saves the whole set: to a temporary file first, which is renamed    *)
(* over the target, and if that fails after the target was removed.  Every *)
(* system call may fail, and the process may be terminated between any two *)
(* of them.                                                                *)
(*                                                                         *)
(* A file is the set of its lines.  Load and Save hold b.mu, so nothing is *)
(* added meanwhile.  What the page cache loses in a power failure is not   *)
(* modelled: the code never syncs and promises nothing about it.           *)
(***************************************************************************)
EXTENDS Integers, FiniteSets

CONSTANTS
  Hash,     \* the hashes of dead nodes
  Torn,     \* a line cut off by the end of the process, no hash
  NoFile,   \* the content of a file that does not exist
  MaxRuns,  \* how often the program is started
  Faults    \* which calls may fail, and "crash"

ASSUME StoreAssumption ==
  /\ Torn \notin Hash
  /\ \A lines \in SUBSET (Hash \union {Torn}) : NoFile # lines
  /\ MaxRuns \in Nat
  /\ Faults \subseteq {"crash", "open", "scan", "write", "rename"}

VARIABLES
  pc,      \* where the program is
  runs,    \* how often it was started
  set,     \* b.set
  loaded,  \* what came of Load in this run
  target,  \* the content of the blacklist file
  tmp,     \* the content of the temporary file
  todo,    \* the hashes Save has not written out yet
  saved    \* history: the hashes covered by a Save that returned nil

vars == <<pc, runs, set, loaded, target, tmp, todo, saved>>

Places ==
  {"down", "load", "scan", "work", "open", "write", "rename", "fallback",
   "retry"}
Content == SUBSET (Hash \union {Torn})

\* What the next Load can read.
Stored == IF target = NoFile THEN {} ELSE target

-----------------------------------------------------------------------------
\* A run of main up to Load.

Start ==
  /\ pc = "down"
  /\ runs < MaxRuns
  /\ runs' = runs + 1
  /\ pc' = "load"
  /\ set' = {}
  /\ loaded' = "no"
  /\ UNCHANGED <<target, tmp, todo, saved>>

\* Bug: Load opens the file with O_TRUNC.
Truncated(content) == {}

\* os.OpenFile with O_CREATE: an empty file if there is none.
Opened(content) == IF content = NoFile THEN {} ELSE content

LoadOpens ==
  /\ pc = "load"
  /\ target' = Opened(target)
  /\ pc' = "scan"
  /\ UNCHANGED <<runs, set, loaded, tmp, todo, saved>>

\* main goes on without a blacklist.
LoadCannotOpen ==
  /\ "open" \in Faults
  /\ pc = "load"
  /\ loaded' = "failed"
  /\ pc' = "work"
  /\ UNCHANGED <<runs, set, target, tmp, todo, saved>>

LoadReads ==
  /\ pc = "scan"
  /\ set' = set \union target
  /\ loaded' = "ok"
  /\ pc' = "work"
  /\ UNCHANGED <<runs, target, tmp, todo, saved>>

\* The scanner stops at an error; main goes on with the lines before it.
LoadBreaksOff ==
  /\ "scan" \in Faults
  /\ pc = "scan"
  /\ \E lines \in SUBSET target : set' = set \union lines
  /\ loaded' = "failed"
  /\ pc' = "work"
  /\ UNCHANGED <<runs, target, tmp, todo, saved>>

\* AddNode, for a node that failed all connection modes.
Add(h) ==
  /\ pc = "work"
  /\ h \notin set
  /\ set' = set \union {h}
  /\ UNCHANGED <<pc, runs, loaded, target, tmp, todo, saved>>

-----------------------------------------------------------------------------
\* Save, which Execute always comes to.

BeginSave ==
  /\ pc = "work"
  /\ pc' = "open"
  /\ UNCHANGED <<runs, set, loaded, target, tmp, todo, saved>>

\* Bug: the temporary file is opened with O_APPEND instead of O_TRUNC.
Appended(content) == IF content = NoFile THEN {} ELSE content

\* os.OpenFile with O_TRUNC: what an earlier run left behind is gone.
Emptied(content) == {}

OpenTmp ==
  /\ pc = "open"
  /\ tmp' = Emptied(tmp)
  /\ todo' = set
  /\ pc' = "write"
  /\ UNCHANGED <<runs, set, loaded, target, saved>>

\* The directory or the temporary file cannot be made: Save returns the error.
CannotOpenTmp ==
  /\ "open" \in Faults
  /\ pc = "open"
  /\ pc' = "down"
  /\ UNCHANGED <<runs, set, loaded, target, tmp, todo, saved>>

\* The buffered writer passes another line on, in no particular order.
WriteHash ==
  /\ pc = "write"
  /\ \E h \in todo : tmp' = tmp \union {h} /\ todo' = todo \ {h}
  /\ UNCHANGED <<pc, runs, set, loaded, target, saved>>

\* A write, the flush or the close fails: the temporary file is removed.
WriteFails ==
  /\ "write" \in Faults
  /\ pc = "write"
  /\ tmp' = NoFile
  /\ pc' = "down"
  /\ UNCHANGED <<runs, set, loaded, target, todo, saved>>

\* Bug: the buffer is not flushed before the file is closed.
MostlyWritten == Cardinality(todo) <= 1

\* Flush has returned: every line is in the file.
Written == todo = {}

FlushAndClose ==
  /\ pc = "write"
  /\ Written
  /\ pc' = "rename"
  /\ UNCHANGED <<runs, set, loaded, target, tmp, todo, saved>>

\* The rename, at the first or at the second attempt: Save returns nil.
Rename ==
  /\ pc \in {"rename", "retry"}
  /\ target' = tmp
  /\ tmp' = NoFile
  /\ saved' = saved \union set
  /\ pc' = "down"
  /\ UNCHANGED <<runs, set, loaded, todo>>

RenameFails ==
  /\ "rename" \in Faults
  /\ pc = "rename"
  /\ pc' = "fallback"
  /\ UNCHANGED <<runs, set, loaded, target, tmp, todo, saved>>

\* The fallback removes the target, as far as it can, before it tries again.
RemoveTarget ==
  /\ pc = "fallback"
  /\ target' \in {target, NoFile}
  /\ pc' = "retry"
  /\ UNCHANGED <<runs, set, loaded, tmp, todo, saved>>

RetryFails ==
  /\ "rename" \in Faults
  /\ pc = "retry"
  /\ pc' = "down"
  /\ UNCHANGED <<runs, set, loaded, target, tmp, todo, saved>>

\* The process is terminated.  The last line it was writing may be cut off.
Crash ==
  /\ "crash" \in Faults
  /\ pc # "down"
  /\ tmp' \in {tmp} \union (IF pc = "write" THEN {tmp \union {Torn}} ELSE {})
  /\ pc' = "down"
  /\ UNCHANGED <<runs, set, loaded, target, todo, saved>>

-----------------------------------------------------------------------------

Init ==
  /\ pc = "down"
  /\ runs = 0
  /\ set = {}
  /\ loaded = "no"
  /\ target \in {NoFile, {}}
  /\ tmp = NoFile
  /\ todo = {}
  /\ saved = {}

Next ==
  \/ Start \/ LoadOpens \/ LoadCannotOpen \/ LoadReads \/ LoadBreaksOff
  \/ (\E h \in Hash : Add(h))
  \/ BeginSave \/ OpenTmp \/ CannotOpenTmp \/ WriteHash \/ WriteFails
  \/ FlushAndClose \/ Rename \/ RenameFails \/ RemoveTarget \/ RetryFails
  \/ Crash

Spec == Init /\ [][Next]_vars

-----------------------------------------------------------------------------

TypeOK ==
  /\ pc \in Places
  /\ runs \in 0..MaxRuns
  /\ set \subseteq Hash
  /\ loaded \in {"no", "ok", "failed"}
  /\ target \in Content \union {NoFile}
  /\ tmp \in Content \union {NoFile}
  /\ todo \subseteq Hash
  /\ saved \subseteq Hash

\* Whenever the program is down, however it ended, the file holds every hash of
\* every Save that returned nil in any earlier run.  (Not so once a load or the
\* first rename fails: see KeepsStored.)
SavedSurvives == pc = "down" => saved \subseteq Stored

\* blacklist.go:164: "prevents file corruption".  A line that was cut off stays in
\* the temporary file and is never read back as a hash.
NothingTorn == Torn \notin Stored /\ Torn \notin set

\* blacklist.go:163: "writes all blacklisted hashes to file atomically".  The target
\* changes only by taking over the whole set of the run that saves, or by being
\* removed in the fallback: no reader ever sees a part of a set.
ReplacedAtOnce ==
  [][Stored' # Stored =>
       Stored' = set \/ (pc = "fallback" /\ Stored' = {})]_vars

\* A run takes no hash off the file, however it ends and whatever fails in it, with
\* two exceptions: it could not read the whole file, or it came to the fallback.
KeepsStored ==
  [][loaded # "failed" /\ pc # "fallback" => Stored \subseteq Stored']_vars
=============================================================================
