------------------------------ MODULE Gathering ------------------------------
(***************************************************************************)
(* How the feeds are scraped: GatherFromSources and fetchHTTP of           *)
(* internal/provider/provider.go, with the sources that Execute of         *)
(* internal/service/pipeline.go hands over.                                *)
(*                                                                         *)
(* The loop takes a slot of the channel sem for every URL of every enabled *)
(* source and starts a goroutine, which fetches the URL, and the URLs of a *)
(* nested list one after the other within the same slot, and adds what it  *)
(* finds to the shared result under the mutex mu.  A body is known by what *)
(* it amounts to: an error, nothing, a number of proxy lines, or a nested  *)
(* list.  A cancelled context makes fetches fail, which any fetch may.     *)
(***************************************************************************)
EXTENDS Integers, FiniteSets, Sequences

CONSTANTS
  SourceLists,  \* the lists of sources to look at
  MaxSources,   \* the longest of them
  MaxParts,     \* the most URLs in one source, separated by pipes
  Workers,      \* p.workers
  MaxLines,     \* the most proxy lines in a body
  MaxNested,    \* the most URLs in a nested list
  Faults        \* "panic", or nothing

Source == [enabled : BOOLEAN,
           parts : UNION {[1..k -> {"blank", "url"}] : k \in 1..MaxParts}]

ASSUME GatheringAssumption ==
  /\ MaxSources \in Nat /\ MaxParts \in Nat \ {0}
  /\ SourceLists \subseteq Seq(Source)
  /\ \A list \in SourceLists : Len(list) <= MaxSources
  /\ Workers \in Nat \ {0}
  /\ MaxLines \in Nat /\ MaxNested \in Nat
  /\ Faults \subseteq {"panic"}

Job == (1..MaxSources) \X (1..MaxParts)

\* The default sources of Execute name two URLs and nothing else: the field
\* Enabled has its zero value.
DefaultSource == [enabled |-> FALSE, parts |-> <<"url">>]
DefaultSources == <<DefaultSource, DefaultSource>>

VARIABLES
  sources,     \* the parameter
  src,         \* the source the outer loop is at
  part,        \* the URL the inner loop is at
  returned,    \* has GatherFromSources returned?
  sem,         \* how many values the channel sem holds
  worker,      \* where the goroutine of each URL is
  lines,       \* how many proxy lines its last body had
  pending,     \* how many URLs of its nested list are left
  received,    \* history: how many proxy lines it was sent in all
  failed,      \* stats.FailedSources
  successful,  \* stats.SuccessfulSources
  raw,         \* stats.TotalRawLines
  allURLs      \* the proxy lines, each known by the URL it came from

loopVars == <<sources, src, part, returned>>
jobVars  == <<lines, pending, received>>
stats    == <<failed, successful, raw, allURLs>>
vars == <<loopVars, sem, worker, jobVars, stats>>

Live == {j \in Job : worker[j] \notin {"idle", "done"}}

Moves(j, from, to) ==
  /\ worker[j] = from
  /\ worker' = [worker EXCEPT ![j] = to]

-----------------------------------------------------------------------------
\* The two loops over the sources and their URLs.

\* Bug: the last source is left out.
ExhaustedEarly == src >= Len(sources)

Exhausted == src > Len(sources)

\* Bug: Enabled is not looked at.
AnyUsable(s) == TRUE

Usable(s) == s.enabled

NextSource ==
  /\ ~returned
  /\ ~Exhausted
  /\ ~Usable(sources[src]) \/ part > Len(sources[src].parts)
  /\ src' = src + 1
  /\ part' = 1
  /\ UNCHANGED <<sources, returned, sem, worker, jobVars, stats>>

AtPart(kind) ==
  /\ ~returned
  /\ ~Exhausted
  /\ Usable(sources[src])
  /\ part <= Len(sources[src].parts)
  /\ sources[src].parts[part] = kind

SkipBlank ==
  /\ AtPart("blank")
  /\ part' = part + 1
  /\ UNCHANGED <<sources, src, returned, sem, worker, jobVars, stats>>

\* Bug: sem has one element more than there are workers.
SlotFreeOffByOne == sem <= Workers

SlotFree == sem < Workers

\* The send on sem waits for a slot; it does not look at the context.
StartFetch ==
  /\ AtPart("url")
  /\ SlotFree
  /\ sem' = sem + 1
  /\ Moves(<<src, part>>, "idle", "fetch")
  /\ part' = part + 1
  /\ UNCHANGED <<sources, src, returned, jobVars, stats>>

\* Bug: wg.Done comes first in the goroutine.
NoneFetching == \A j \in Job : worker[j] # "fetch"

NoneLive == Live = {}

\* wg.Wait.
Return ==
  /\ ~returned
  /\ Exhausted
  /\ NoneLive
  /\ returned' = TRUE
  /\ UNCHANGED <<sources, src, part, sem, worker, jobVars, stats>>

-----------------------------------------------------------------------------
\* The goroutine of a URL.

FetchFails(j) ==
  /\ Moves(j, "fetch", "fail")
  /\ UNCHANGED <<loopVars, sem, jobVars, stats>>

CountFailure(j) ==
  /\ Moves(j, "fail", "release")
  /\ failed' = failed + 1
  /\ UNCHANGED <<loopVars, sem, jobVars, successful, raw, allURLs>>

\* A body with proxy lines.
FetchLines(j) ==
  /\ Moves(j, "fetch", "record")
  /\ \E k \in 1..MaxLines :
       /\ lines' = [lines EXCEPT ![j] = k]
       /\ received' = [received EXCEPT ![j] = @ + k]
  /\ UNCHANGED <<loopVars, sem, pending, stats>>

\* A body with neither lines nor a nested list is not counted at all.
FetchNothing(j) ==
  /\ Moves(j, "fetch", "release")
  /\ UNCHANGED <<loopVars, sem, jobVars, stats>>

\* A body without lines that is a list of sources, its enabled URLs pending.
FetchList(j) ==
  /\ Moves(j, "fetch", "nested")
  /\ \E k \in 1..MaxNested : pending' = [pending EXCEPT ![j] = k]
  /\ UNCHANGED <<loopVars, sem, lines, received, stats>>

\* The next URL of the list: its errors are passed over, its lists not followed.
FetchNested(j) ==
  /\ pending[j] > 0
  /\ pending' = [pending EXCEPT ![j] = @ - 1]
  /\ \E k \in 0..MaxLines :
       /\ Moves(j, "nested", IF k > 0 THEN "record" ELSE "nested")
       /\ lines' = [lines EXCEPT ![j] = k]
       /\ received' = [received EXCEPT ![j] = @ + k]
  /\ UNCHANGED <<loopVars, sem, stats>>

EndNested(j) ==
  /\ pending[j] = 0
  /\ Moves(j, "nested", "release")
  /\ UNCHANGED <<loopVars, sem, jobVars, stats>>

\* Bug: mu is not taken, and one of two updates that meet is lost.
RecordUnlocked(j) ==
  /\ Moves(j, "record", IF pending[j] = 0 THEN "release" ELSE "nested")
  /\ successful' = successful + 1
  /\ raw' = raw + lines[j]
  /\ allURLs' = IF \E k \in Job \ {j} : worker[k] = "record" THEN allURLs
                ELSE allURLs \o [k \in 1..lines[j] |-> j]
  /\ UNCHANGED <<loopVars, sem, jobVars, failed>>

\* The update under mu; a body from a nested list counts as a source.
Record(j) ==
  /\ Moves(j, "record", IF pending[j] = 0 THEN "release" ELSE "nested")
  /\ successful' = successful + 1
  /\ raw' = raw + lines[j]
  /\ allURLs' = allURLs \o [k \in 1..lines[j] |-> j]
  /\ UNCHANGED <<loopVars, sem, jobVars, failed>>

\* A panic while a body is taken apart; the goroutine recovers.
PanicAndRecover(j) ==
  /\ "panic" \in Faults
  /\ \E from \in {"fetch", "nested"} : Moves(j, from, "release")
  /\ UNCHANGED <<loopVars, sem, jobVars, stats>>

\* Bug: the receive is not deferred, a goroutine without success keeps its slot.
ReleaseNotDeferred(j) ==
  /\ Moves(j, "release", "done")
  /\ sem' = IF received[j] = 0 THEN sem ELSE sem - 1
  /\ UNCHANGED <<loopVars, jobVars, stats>>

\* The deferred receive from sem and wg.Done.
Release(j) ==
  /\ Moves(j, "release", "done")
  /\ sem' = sem - 1
  /\ UNCHANGED <<loopVars, jobVars, stats>>

-----------------------------------------------------------------------------

Init ==
  /\ sources \in SourceLists \union {DefaultSources}
  /\ src = 1
  /\ part = 1
  /\ returned = FALSE
  /\ sem = 0
  /\ worker = [j \in Job |-> "idle"]
  /\ lines = [j \in Job |-> 0]
  /\ pending = [j \in Job |-> 0]
  /\ received = [j \in Job |-> 0]
  /\ failed = 0
  /\ successful = 0
  /\ raw = 0
  /\ allURLs = <<>>

Loop == NextSource \/ SkipBlank \/ StartFetch \/ Return

Scrape(j) ==
  \/ FetchFails(j) \/ CountFailure(j) \/ FetchLines(j) \/ FetchNothing(j)
  \/ FetchList(j) \/ FetchNested(j) \/ EndNested(j) \/ Record(j)
  \/ PanicAndRecover(j) \/ Release(j)

Terminated == returned /\ UNCHANGED vars

Next == Loop \/ (\E j \in Job : Scrape(j)) \/ Terminated

Spec == Init /\ [][Next]_vars

\* Every goroutine that is ready runs; every fetch ends, by the timeout of the
\* HTTP client if not before.
FairSpec == Spec /\ WF_vars(Loop) /\ \A j \in Job : WF_vars(Scrape(j))

-----------------------------------------------------------------------------

TypeOK ==
  /\ \A i \in DOMAIN sources : sources[i] \in Source
  /\ src \in 1..(Len(sources) + 1)
  /\ part \in 1..(MaxParts + 1)
  /\ returned \in BOOLEAN
  /\ sem \in 0..Workers
  /\ worker \in [Job ->
       {"idle", "fetch", "fail", "nested", "record", "release", "done"}]
  /\ lines \in [Job -> 0..MaxLines]
  /\ pending \in [Job -> 0..MaxNested]
  /\ received \in [Job -> Nat]
  /\ failed \in Nat /\ successful \in Nat /\ raw \in Nat
  /\ allURLs \in Seq(Job)

\* Every goroutine that has not ended holds one slot, however it came through
\* its fetches: the pool neither grows nor shrinks, and no more than Workers
\* bodies are in memory at a time.
SlotAccounting == sem = Cardinality(Live)

CountOf(j) == Cardinality({k \in DOMAIN allURLs : allURLs[k] = j})

\* When the result is handed over every proxy line that any goroutine was sent is
\* in it once, and TotalRawLines is their number.
EveryLineOnce ==
  returned => /\ \A j \in Job : CountOf(j) = received[j]
              /\ raw = Len(allURLs)

Wanted == {j \in Job :
  /\ j[1] <= Len(sources)
  /\ sources[j[1]].enabled
  /\ j[2] <= Len(sources[j[1]].parts)
  /\ sources[j[1]].parts[j[2]] = "url"}

\* Every URL of every enabled source is fetched, and no other: none is passed over
\* because the pool was full, and none that was switched off is contacted.
FetchesWhatIsEnabled ==
  /\ \A j \in Job : worker[j] # "idle" => j \in Wanted
  /\ returned => \A j \in Wanted : worker[j] = "done"

\* GatherFromSources returns, whatever its fetches end in.
GatherReturns == <>returned

\* pipeline.go:82: without a local list the run goes on "using default fallback
\* sources".
DefaultSourcesUsed ==
  returned /\ sources = DefaultSources =>
    \E j \in Job : j[1] \in DOMAIN sources /\ worker[j] # "idle"
=============================================================================
