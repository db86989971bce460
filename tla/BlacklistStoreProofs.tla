------------------------ MODULE BlacklistStoreProofs ------------------------
(***************************************************************************)
(* Proofs about BlacklistStore, for any set of hashes and any number of    *)
(* runs: what each kind of failure can and cannot do to the file.          *)
(***************************************************************************)
EXTENDS BlacklistStore, TLAPS

Saving == {"rename", "fallback", "retry"}

\* The file that is renamed over the target is the whole set, line by line.
TmpIsSet ==
  /\ pc = "write" => tmp \in Content /\ tmp \union todo = set
  /\ pc \in Saving => tmp = set

\* Cut off lines are found in the temporary file only, between two runs.
NoTornLine ==
  /\ Torn \notin set
  /\ Torn \notin Stored
  /\ pc = "scan" => target # NoFile

\* Nothing is saved before the load has come out one way or the other.
LoadDecided ==
  pc \in {"work", "open", "write"} \union Saving => loaded \in {"ok", "failed"}

Sound == TypeOK /\ TmpIsSet /\ NoTornLine /\ LoadDecided

\* Only three actions touch the target.
LEMMA TargetKept ==
  [Next]_vars /\ ~Rename /\ ~LoadOpens /\ ~RemoveTarget => target' = target
  BY DEF Next, vars, Start, LoadCannotOpen, LoadReads, LoadBreaksOff, Add,
         BeginSave, OpenTmp, CannotOpenTmp, WriteHash, WriteFails, FlushAndClose,
         RenameFails, RetryFails, Crash

LEMMA InitSound == Init => Sound
  BY StoreAssumption
  DEF Init, Sound, TypeOK, TmpIsSet, NoTornLine, LoadDecided, Saving, Places, Content, Stored

LEMMA SoundStep == Sound /\ [Next]_vars => Sound'
<1> SUFFICES ASSUME Sound, [Next]_vars PROVE Sound'
  OBVIOUS
<1> USE StoreAssumption
<1> USE DEF Sound, TypeOK, TmpIsSet, NoTornLine, LoadDecided, Saving, Places, Content, Stored
<1>1. CASE Start
  BY <1>1 DEF Start
<1>2. CASE LoadOpens
  BY <1>2 DEF LoadOpens, Opened
<1>3. CASE LoadCannotOpen
  BY <1>3 DEF LoadCannotOpen
<1>4. CASE LoadReads
  BY <1>4 DEF LoadReads
<1>5. CASE LoadBreaksOff
  BY <1>5 DEF LoadBreaksOff
<1>6. ASSUME NEW h \in Hash, Add(h) PROVE Sound'
  BY <1>6 DEF Add
<1>7. CASE BeginSave \/ CannotOpenTmp \/ WriteFails
  BY <1>7 DEF BeginSave, CannotOpenTmp, WriteFails
<1>8. CASE OpenTmp
  BY <1>8 DEF OpenTmp, Emptied
<1>9. CASE WriteHash
  BY <1>9 DEF WriteHash
<1>10. CASE FlushAndClose
  BY <1>10 DEF FlushAndClose, Written
<1>11. CASE Rename
  BY <1>11 DEF Rename
<1>12. CASE RenameFails \/ RetryFails
  BY <1>12 DEF RenameFails, RetryFails
<1>13. CASE RemoveTarget
  BY <1>13 DEF RemoveTarget
<1>14. CASE Crash
  BY <1>14 DEF Crash
<1>15. CASE UNCHANGED vars
  BY <1>15 DEF vars
<1> QED
  BY <1>1, <1>2, <1>3, <1>4, <1>5, <1>6, <1>7, <1>8, <1>9, <1>10, <1>11, <1>12,
     <1>13, <1>14, <1>15 DEF Next

LEMMA SoundInvariant == Spec => []Sound
  BY InitSound, SoundStep, PTL DEF Spec

\* Files, set and histories keep their types, whatever fails.
THEOREM StoreTypes == Spec => []TypeOK
  BY SoundInvariant, PTL DEF Sound

\* Whatever fails and whenever the process ends, a line that was cut off is never
\* read as a hash, nor does it reach the blacklist file.
THEOREM NeverTorn == Spec => []NothingTorn
<1>1. Sound => NothingTorn
  BY DEF Sound, NoTornLine, NothingTorn
<1> QED
  BY <1>1, SoundInvariant, PTL

\* Whatever fails, the target changes only by taking over the whole set at once,
\* or by being removed in the fallback.
THEOREM AtomicReplace == Spec => ReplacedAtOnce
<1>1. Sound /\ [Next]_vars =>
        [Stored' # Stored => Stored' = set \/ (pc = "fallback" /\ Stored' = {})]_vars
  <2> SUFFICES ASSUME Sound, Next
               PROVE  \/ Stored' = Stored
                      \/ Stored' = set
                      \/ pc = "fallback" /\ Stored' = {}
    OBVIOUS
  <2>1. CASE Rename
    BY <2>1, StoreAssumption
    DEF Rename, Sound, TmpIsSet, Saving, TypeOK, Content, Stored
  <2>2. CASE LoadOpens
    BY <2>2, StoreAssumption DEF LoadOpens, Opened, Stored, Content
  <2>3. CASE RemoveTarget
    BY <2>3 DEF RemoveTarget, Stored
  <2>4. CASE ~Rename /\ ~LoadOpens /\ ~RemoveTarget
    BY <2>4, TargetKept DEF Stored
  <2> QED
    BY <2>1, <2>2, <2>3, <2>4
<1> QED
  BY <1>1, SoundInvariant, PTL DEF Spec, ReplacedAtOnce

\* Once the file has been read whole the set holds all of it.
Covers == loaded = "ok" => Stored \subseteq set

LEMMA CoversInvariant == Spec => []Covers
<1>1. Init => Covers
  BY DEF Init, Covers
<1>2. Sound /\ Covers /\ [Next]_vars => Covers'
  <2> SUFFICES ASSUME Sound, Covers, [Next]_vars PROVE Covers'
    OBVIOUS
  <2>1. CASE Rename
    BY <2>1, StoreAssumption
    DEF Rename, Sound, TmpIsSet, Saving, TypeOK, Content, Stored, Covers
  <2>2. CASE LoadOpens
    BY <2>2, StoreAssumption DEF LoadOpens, Opened, Stored, Content, Covers
  <2>3. CASE LoadReads
    BY <2>3 DEF LoadReads, Stored, Sound, NoTornLine, Covers
  <2>4. CASE RemoveTarget
    BY <2>4 DEF RemoveTarget, Stored, Covers
  <2>5. CASE ~Rename /\ ~LoadOpens /\ ~LoadReads /\ ~RemoveTarget
    <3>1. target' = target
      BY <2>5, TargetKept
    <3>2. loaded' = "ok" => loaded = "ok" /\ set \subseteq set'
      BY <2>5
      DEF Next, vars, Start, LoadCannotOpen, LoadBreaksOff, Add, BeginSave,
          OpenTmp, CannotOpenTmp, WriteHash, WriteFails, FlushAndClose,
          RenameFails, RetryFails, Crash
    <3> QED
      BY <3>1, <3>2 DEF Stored, Covers
  <2> QED
    BY <2>1, <2>2, <2>3, <2>4, <2>5
<1> QED
  BY <1>1, <1>2, SoundInvariant, PTL DEF Spec

\* Every run that could read the file, and does not come to the fallback, leaves
\* all of its hashes there, whatever else fails.
THEOREM StoredIsKept == Spec => KeepsStored
<1>1. Sound /\ Covers /\ [Next]_vars =>
        [loaded # "failed" /\ pc # "fallback" => Stored \subseteq Stored']_vars
  <2> SUFFICES ASSUME Sound, Covers, Next, loaded # "failed", pc # "fallback"
               PROVE  Stored \subseteq Stored'
    OBVIOUS
  <2>1. CASE Rename
    <3>1. loaded = "ok"
      BY <2>1 DEF Rename, Sound, LoadDecided, Saving
    <3> QED
      BY <2>1, <3>1, StoreAssumption
      DEF Rename, Sound, TmpIsSet, Saving, TypeOK, Content, Stored, Covers
  <2>2. CASE LoadOpens
    BY <2>2, StoreAssumption DEF LoadOpens, Opened, Stored, Content
  <2>3. CASE RemoveTarget
    BY <2>3 DEF RemoveTarget
  <2>4. CASE ~Rename /\ ~LoadOpens /\ ~RemoveTarget
    BY <2>4, TargetKept DEF Stored
  <2> QED
    BY <2>1, <2>2, <2>3, <2>4
<1> QED
  BY <1>1, SoundInvariant, CoversInvariant, PTL DEF Spec, KeepsStored

\* Where the file can be read and renamed, no hash of a completed Save is ever
\* lost again: neither by a crash in any of the later runs, nor by a Save of
\* theirs that fails half way.
THEOREM SavedForGood ==
  ASSUME {"open", "scan", "rename"} \intersect Faults = {}
  PROVE  Spec => []SavedSurvives
<1> DEFINE Kept == /\ pc \notin {"fallback", "retry"}
                   /\ saved \subseteq Stored
                   /\ pc \in {"work", "open", "write", "rename"} =>
                        Stored \subseteq set
<1>1. Init => Kept
  BY DEF Init
<1>2. Sound /\ Kept /\ [Next]_vars => Kept'
  <2> SUFFICES ASSUME Sound, Kept, [Next]_vars PROVE Kept'
    OBVIOUS
  <2>1. CASE Rename
    BY <2>1, StoreAssumption
    DEF Rename, Sound, TmpIsSet, Saving, TypeOK, Content, Stored
  <2>2. CASE LoadOpens
    BY <2>2, StoreAssumption DEF LoadOpens, Opened, Stored, Content
  <2>3. CASE LoadReads
    BY <2>3 DEF LoadReads, Stored, Sound, NoTornLine
  <2>4. CASE ~Rename /\ ~LoadOpens /\ ~LoadReads
    <3>1. /\ target' = target /\ saved' = saved
          /\ pc' \notin {"fallback", "retry"}
          /\ pc' \in {"work", "open", "write", "rename"} =>
               /\ pc \in {"work", "open", "write", "rename"}
               /\ set \subseteq set'
      BY <2>4
      DEF Next, vars, Start, LoadCannotOpen, LoadBreaksOff, Add, BeginSave,
          OpenTmp, CannotOpenTmp, WriteHash, WriteFails, FlushAndClose,
          RenameFails, RemoveTarget, RetryFails, Crash
    <3> QED
      BY <3>1 DEF Stored
  <2> QED
    BY <2>1, <2>2, <2>3, <2>4
<1>3. Kept => SavedSurvives
  BY DEF SavedSurvives
<1> QED
  BY <1>1, <1>2, <1>3, SoundInvariant, PTL DEF Spec
=============================================================================
