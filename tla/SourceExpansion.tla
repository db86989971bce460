--------------------------- MODULE SourceExpansion ---------------------------
(***************************************************************************)
(* How the list of subscription sources comes about:                       *)
(* LoadSublistFromFile, parseSublistJSON and ExpandSources of              *)
(* internal/provider/provider.go.                                          *)
(*                                                                         *)
(* ExpandSources walks over the local list.  An entry that names a remote  *)
(* sublist is fetched by a goroutine of its own, which appends what it got *)
(* to the slice expanded under the mutex mu; a plain feed is appended by   *)
(* the loop itself, which does not take mu.  An append therefore reads the *)
(* slice in one step and writes it in another.                             *)
(***************************************************************************)
EXTENDS Integers, FiniteSets, Sequences

CONSTANTS
  MaxSources,  \* the longest local list
  MaxListed,   \* the longest remote sublist
  Torn         \* an element no goroutine ever wrote

ASSUME ExpansionAssumption == MaxSources \in Nat /\ MaxListed \in Nat

\* What the URL of an entry is: blank, a feed, or a sublist (it ends in .json).
Kinds == {"blank", "feed", "sublist"}
Lists(n) == UNION {[1..k -> Kinds] : k \in 0..n}

\* parseSublistJSON, of any document of up to n entries: objects are taken as they
\* are if one has a URL, and of an array of URLs the blank ones are left out.  Both
\* give a list with a URL.  Anything else, and a file or a fetch that fails, gives
\* the error that the empty list stands for.
parseSublistJSON(n) ==
  {<<>>} \union {list \in Lists(n) : \E k \in DOMAIN list : list[k] # "blank"}

Index == 1..MaxSources
Entry(i, k, kind) == [from |-> i, at |-> k, kind |-> kind]

VARIABLES
  sources,   \* the local list
  main,      \* where ExpandSources is
  next,      \* the entry its loop is at
  worker,    \* where the goroutine of each sublist is
  lock,      \* who holds mu; 0 for nobody
  items,     \* what is appended on behalf of each entry
  base,      \* the slice as the append of each entry has read it
  expanded   \* the result

vars == <<sources, main, next, worker, lock, items, base, expanded>>

-----------------------------------------------------------------------------
\* Append, in two steps.

\* The cells a second writer of the same slice can leave behind: its own, those
\* of the other, or one that neither wrote, where the length of one of the two is
\* paired with the array of the other.
RacedCell(i, k) ==
  IF k <= Len(base[i]) THEN {base[i][k]}
  ELSE {Torn}
       \union (IF k <= Len(base[i] \o items[i])
               THEN {(base[i] \o items[i])[k]} ELSE {})
       \union (IF k <= Len(expanded) THEN {expanded[k]} ELSE {})

RacedAppend(i) ==
  UNION {{s \in [1..len -> UNION {RacedCell(i, k) : k \in 1..len}] :
            \A k \in 1..len : s[k] \in RacedCell(i, k)} :
         len \in {Len(base[i] \o items[i]), Len(expanded)}}

\* Undefined if somebody has written since base was read.
Appended(i) ==
  IF expanded = base[i] THEN {expanded \o items[i]} ELSE RacedAppend(i)

-----------------------------------------------------------------------------
\* The loop of ExpandSources.

Load ==
  /\ main = "load"
  /\ sources' \in parseSublistJSON(MaxSources)
  /\ main' = IF sources' = <<>> THEN "failed" ELSE "loop"
  /\ UNCHANGED <<next, worker, lock, items, base, expanded>>

AtEntry(kind) ==
  /\ main = "loop"
  /\ next <= Len(sources)
  /\ sources[next] = kind

SkipBlank ==
  /\ AtEntry("blank")
  /\ next' = next + 1
  /\ UNCHANGED <<sources, main, worker, lock, items, base, expanded>>

StartFetch ==
  /\ AtEntry("sublist")
  /\ worker' = [worker EXCEPT ![next] = "fetch"]
  /\ next' = next + 1
  /\ UNCHANGED <<sources, main, lock, items, base, expanded>>

\* A feed: the append of the loop, without mu.
ReadForFeed ==
  /\ AtEntry("feed")
  /\ items' = [items EXCEPT ![next] = <<Entry(next, 0, "feed")>>]
  /\ base' = [base EXCEPT ![next] = expanded]
  /\ main' = "append"
  /\ UNCHANGED <<sources, next, worker, lock, expanded>>

AppendFeed ==
  /\ main = "append"
  /\ expanded' \in Appended(next)
  /\ next' = next + 1
  /\ main' = "loop"
  /\ UNCHANGED <<sources, worker, lock, items, base>>

\* Bug: wg.Add is missing, the loop does not wait for the slowest goroutine.
SomeSettled == \A i, k \in Index :
  worker[i] \in {"idle", "done"} \/ worker[k] \in {"idle", "done"} \/ i = k

AllSettled == \A i \in Index : worker[i] \in {"idle", "done"}

\* wg.Wait.
Return ==
  /\ main = "loop"
  /\ next > Len(sources)
  /\ AllSettled
  /\ main' = "returned"
  /\ UNCHANGED <<sources, next, worker, lock, items, base, expanded>>

-----------------------------------------------------------------------------
\* The goroutine of a sublist.

\* The remote sublist has arrived, or has not, and the entry stands for itself.
\* Its own entries are not looked into.
Fetch(i) ==
  /\ worker[i] = "fetch"
  /\ \E list \in parseSublistJSON(MaxListed) :
       items' = [items EXCEPT ![i] =
         IF list = <<>> THEN <<Entry(i, 0, "sublist")>>
         ELSE [k \in DOMAIN list |-> Entry(i, k, list[k])]]
  /\ worker' = [worker EXCEPT ![i] = "lock"]
  /\ UNCHANGED <<sources, main, next, lock, base, expanded>>

\* Bug: the goroutines do not take mu either.
NoMutex(i) == TRUE

MutexFree(i) == lock = 0

LockAndRead(i) ==
  /\ worker[i] = "lock"
  /\ MutexFree(i)
  /\ lock' = i
  /\ base' = [base EXCEPT ![i] = expanded]
  /\ worker' = [worker EXCEPT ![i] = "append"]
  /\ UNCHANGED <<sources, main, next, items, expanded>>

\* Bug: the early return of a failed fetch leaves mu locked.
KeepsLock(i) == IF items[i][1].at = 0 THEN lock ELSE 0

Unlocked(i) == 0

AppendAndUnlock(i) ==
  /\ worker[i] = "append"
  /\ expanded' \in Appended(i)
  /\ lock' = Unlocked(i)
  /\ worker' = [worker EXCEPT ![i] = "done"]
  /\ UNCHANGED <<sources, main, next, items, base>>

-----------------------------------------------------------------------------

Init ==
  /\ sources = <<>>
  /\ main = "load"
  /\ next = 1
  /\ worker = [i \in Index |-> "idle"]
  /\ lock = 0
  /\ items = [i \in Index |-> <<>>]
  /\ base = [i \in Index |-> <<>>]
  /\ expanded = <<>>

Loop ==
  Load \/ SkipBlank \/ StartFetch \/ ReadForFeed \/ AppendFeed \/ Return

Expand(i) == Fetch(i) \/ LockAndRead(i) \/ AppendAndUnlock(i)

Terminated == main \in {"failed", "returned"} /\ UNCHANGED vars

Next == Loop \/ (\E i \in Index : Expand(i)) \/ Terminated

Spec == Init /\ [][Next]_vars

\* Every goroutine that is ready runs; every fetch ends, by the timeout of the
\* HTTP client if not before.
FairSpec == Spec /\ WF_vars(Loop) /\ \A i \in Index : WF_vars(Expand(i))

-----------------------------------------------------------------------------

Entries == [from : Index, at : 0..MaxListed, kind : Kinds]

TypeOK ==
  /\ sources \in Lists(MaxSources)
  /\ main \in {"load", "failed", "loop", "append", "returned"}
  /\ next \in 1..(MaxSources + 1)
  /\ worker \in [Index -> {"idle", "fetch", "lock", "append", "done"}]
  /\ lock \in 0..MaxSources
  /\ lock # 0 => worker[lock] = "append"
  /\ items \in [Index -> Seq(Entries)]
  /\ base \in [Index -> Seq(Entries \union {Torn})]
  /\ expanded \in Seq(Entries \union {Torn})

ElementsOf(s) == {s[k] : k \in DOMAIN s}
Contributed == UNION {ElementsOf(items[i]) : i \in Index}

\* Every entry is in the result, once, and nothing else is.
Complete ==
  /\ ElementsOf(expanded) = Contributed
  /\ Len(expanded) = Cardinality(Contributed)

FeedAfterSublist ==
  \E i, k \in DOMAIN sources :
    i < k /\ sources[i] = "sublist" /\ sources[k] = "feed"

\* As long as no plain feed follows a sublist in the list the appends cannot
\* meet, in whatever order the sublists arrive and whichever of them fail: the
\* result holds every source once.
CompleteUnlessMixed == main = "returned" /\ ~FeedAfterSublist => Complete

\* ExpandSources returns, whichever fetches fail.
ExpandReturns == <>(main \in {"failed", "returned"})
=============================================================================
