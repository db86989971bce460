--------------------------- MODULE GatheringProofs ---------------------------
(***************************************************************************)
(* Proofs about Gathering, for any sources, any number of slots and any    *)
(* bodies: what the slots add up to, that no line is lost or doubled, and  *)
(* that what is enabled is fetched and nothing else.                       *)
(***************************************************************************)
EXTENDS Gathering, FiniteSetTheorems, TLAPS

Place == {"idle", "fetch", "fail", "nested", "record", "release", "done"}

SourcesType ==
  /\ sources \in Seq(Source)
  /\ \A i \in 1..Len(sources) : sources[i].enabled => i <= MaxSources

LoopType ==
  /\ src \in 1..(Len(sources) + 1)
  /\ part \in 1..(MaxParts + 1)
  /\ returned \in BOOLEAN

WorkerType == worker \in [Job -> Place]

JobsType ==
  /\ lines \in [Job -> 0..MaxLines]
  /\ pending \in [Job -> 0..MaxNested]
  /\ received \in [Job -> Nat]

StatsType ==
  /\ failed \in Nat /\ successful \in Nat /\ raw \in Nat
  /\ allURLs \in Seq(Job)

Types == SourcesType /\ LoopType /\ WorkerType /\ JobsType /\ StatsType

-----------------------------------------------------------------------------
(* Types. *)

LEMMA Constants ==
  /\ MaxSources \in Nat /\ MaxParts \in Nat \ {0} /\ Workers \in Nat \ {0}
  /\ MaxLines \in Nat /\ MaxNested \in Nat
  BY GatheringAssumption DEF GatheringAssumption

\* The parts of a source are a sequence with at least one member.
LEMMA PartsOf ==
  ASSUME NEW s \in Source
  PROVE  /\ s.enabled \in BOOLEAN
         /\ s.parts \in Seq({"blank", "url"})
         /\ Len(s.parts) \in 1..MaxParts
<1>1. s.enabled \in BOOLEAN  BY DEF Source
<1>2. PICK k \in 1..MaxParts : s.parts \in [1..k -> {"blank", "url"}]
  BY DEF Source
<1>3. s.parts \in Seq({"blank", "url"}) /\ Len(s.parts) = k
  BY <1>2, Constants
<1> QED  BY <1>1, <1>3

LEMMA DefaultIsSource == DefaultSource \in Source
<1>1. <<"url">> \in [1..1 -> {"blank", "url"}]  OBVIOUS
<1>2. 1 \in 1..MaxParts  BY Constants
<1>3. <<"url">> \in UNION {[1..k -> {"blank", "url"}] : k \in 1..MaxParts}
  BY <1>1, <1>2
<1> QED  BY <1>3 DEF DefaultSource, Source

LEMMA InitTypes == Init => Types
<1> SUFFICES ASSUME Init PROVE Types
  OBVIOUS
<1>1. SourcesType
  <2>1. CASE sources \in SourceLists
    BY <2>1, GatheringAssumption DEF GatheringAssumption, SourcesType
  <2>2. CASE sources = DefaultSources
    BY <2>2, DefaultIsSource DEF SourcesType, DefaultSources, DefaultSource
  <2> QED  BY <2>1, <2>2 DEF Init
<1>2. LoopType
  <2>1. Len(sources) \in Nat  BY <1>1 DEF SourcesType
  <2>2. src \in 1..(Len(sources) + 1)  BY <2>1 DEF Init
  <2>3. part \in 1..(MaxParts + 1)  BY Constants DEF Init
  <2> QED  BY <2>2, <2>3 DEF Init, LoopType
<1>3. WorkerType  BY DEF Init, WorkerType, Place
<1>4. JobsType  BY Constants DEF Init, JobsType
<1>5. StatsType  BY DEF Init, StatsType
<1> QED  BY <1>1, <1>2, <1>3, <1>4, <1>5 DEF Types

\* The loop is never at a URL outside Job.
LEMMA AtJob ==
  ASSUME SourcesType, LoopType, NEW kind \in {"blank", "url"}, AtPart(kind)
  PROVE  /\ src \in 1..Len(sources)
         /\ <<src, part>> \in Job
         /\ part + 1 \in 1..(MaxParts + 1)
         /\ kind = "url" => <<src, part>> \in Wanted
<1>1. src \in 1..Len(sources)
  BY DEF AtPart, Exhausted, LoopType, SourcesType
<1>2. sources[src] \in Source  BY <1>1 DEF SourcesType
<1>3. src \in 1..MaxSources /\ sources[src].enabled
  BY <1>1 DEF AtPart, Usable, SourcesType
<1>4. Len(sources[src].parts) \in 1..MaxParts  BY <1>2, PartsOf
<1>5. part \in 1..MaxParts
  BY <1>4, Constants DEF AtPart, LoopType
<1>6. <<src, part>> \in Job  BY <1>3, <1>5 DEF Job
<1>7. ASSUME kind = "url" PROVE <<src, part>> \in Wanted
  BY <1>1, <1>3, <1>6, <1>7 DEF AtPart, Wanted, SourcesType
<1> QED  BY <1>1, <1>5, <1>6, <1>7, Constants

LEMMA TypesStep == Types /\ [Next]_vars => Types'
<1> SUFFICES ASSUME Types, [Next]_vars PROVE Types'
  OBVIOUS
<1> USE DEF Types
<1>1. CASE Loop
  <2>1. SourcesType'
    BY <1>1 DEF Loop, NextSource, SkipBlank, StartFetch, Return, SourcesType
  <2>2. CASE NextSource
    <3>1. LoopType'
      BY <2>2, Constants
      DEF NextSource, Exhausted, LoopType, SourcesType
    <3> QED
      BY <2>1, <2>2, <3>1
      DEF NextSource, WorkerType, JobsType, StatsType, jobVars, stats
  <2>3. CASE SkipBlank
    <3>1. LoopType'  BY <2>3, AtJob DEF SkipBlank, LoopType
    <3> QED
      BY <2>1, <2>3, <3>1
      DEF SkipBlank, WorkerType, JobsType, StatsType, jobVars, stats
  <2>4. CASE StartFetch
    <3>1. LoopType'  BY <2>4, AtJob DEF StartFetch, LoopType
    <3>2. WorkerType'
      BY <2>4, AtJob DEF StartFetch, Moves, WorkerType, Place
    <3> QED
      BY <2>1, <2>4, <3>1, <3>2
      DEF StartFetch, JobsType, StatsType, jobVars, stats
  <2>5. CASE Return
    BY <2>1, <2>5
    DEF Return, LoopType, WorkerType, JobsType, StatsType, jobVars, stats
  <2> QED  BY <1>1, <2>2, <2>3, <2>4, <2>5 DEF Loop
<1>2. CASE \E j \in Job : Scrape(j)
  <2> SUFFICES ASSUME NEW j \in Job, Scrape(j) PROVE Types'
    BY <1>2
  <2>1. SourcesType' /\ LoopType'
    BY DEF Scrape, FetchFails, CountFailure, FetchLines, FetchNothing,
      FetchList, FetchNested, EndNested, Record, PanicAndRecover, Release,
      loopVars, SourcesType, LoopType
  <2>2. WorkerType'
    BY DEF Scrape, FetchFails, CountFailure, FetchLines, FetchNothing,
      FetchList, FetchNested, EndNested, Record, PanicAndRecover, Release,
      Moves, WorkerType, Place
  <2>3. JobsType'
    <3>1. CASE FetchLines(j)
      BY <3>1, Constants DEF FetchLines, JobsType
    <3>2. CASE FetchList(j)
      BY <3>2, Constants DEF FetchList, JobsType
    <3>3. CASE FetchNested(j)
      BY <3>3, Constants DEF FetchNested, JobsType
    <3> QED
      BY <3>1, <3>2, <3>3
      DEF Scrape, FetchFails, CountFailure, FetchNothing, EndNested, Record,
        PanicAndRecover, Release, jobVars, JobsType
  <2>4. StatsType'
    <3>1. CASE Record(j)
      <4>1. lines[j] \in Nat  BY Constants DEF JobsType
      <4>2. [k \in 1..lines[j] |-> j] \in Seq(Job)  BY <4>1
      <4> QED  BY <3>1, <4>1, <4>2 DEF Record, StatsType
    <3>2. CASE CountFailure(j)
      BY <3>2 DEF CountFailure, StatsType
    <3> QED
      BY <3>1, <3>2
      DEF Scrape, FetchFails, FetchLines, FetchNothing, FetchList,
        FetchNested, EndNested, PanicAndRecover, Release, stats, StatsType
  <2> QED  BY <2>1, <2>2, <2>3, <2>4
<1>3. CASE UNCHANGED vars
  BY <1>3
  DEF vars, loopVars, jobVars, stats, SourcesType, LoopType, WorkerType,
    JobsType, StatsType
<1> QED  BY <1>1, <1>2, <1>3 DEF Next, Terminated

-----------------------------------------------------------------------------
(* Slots. *)

Slots == sem \in 0..Workers /\ SlotAccounting

LEMMA JobsFinite == IsFiniteSet(Job)
<1>1. IsFiniteSet(1..MaxSources) /\ IsFiniteSet(1..MaxParts)
  BY Constants, FS_Interval
<1> QED  BY <1>1, FS_Product DEF Job

LEMMA LiveFinite == IsFiniteSet(Live) /\ Cardinality(Live) \in Nat
<1>1. Live \subseteq Job  BY DEF Live
<1> QED  BY <1>1, JobsFinite, FS_Subset, FS_CardinalityType

LEMMA InitSlots == Init => Slots
<1> SUFFICES ASSUME Init PROVE Slots
  OBVIOUS
<1>1. Live = {}  BY DEF Init, Live
<1> QED  BY <1>1, FS_EmptySet, Constants DEF Init, Slots, SlotAccounting

\* A goroutine that goes on without ending leaves the live ones as they were.
LEMMA GoesOn ==
  ASSUME WorkerType, NEW j \in Job, NEW from, NEW to, Moves(j, from, to),
         from \notin {"idle", "done"}, to \notin {"idle", "done"}
  PROVE  Live' = Live
BY DEF WorkerType, Moves, Live

LEMMA SlotsStep == Types /\ Slots /\ [Next]_vars => Slots'
<1> SUFFICES ASSUME Types, Slots, [Next]_vars PROVE Slots'
  OBVIOUS
<1>0. SourcesType /\ LoopType /\ WorkerType  BY DEF Types
<1>1. CASE StartFetch
  <2> DEFINE j == <<src, part>>
  <2>1. j \in Job  BY <1>0, <1>1, AtJob DEF StartFetch
  <2>2. Live' = Live \union {j} /\ j \notin Live
    BY <1>0, <1>1, <2>1 DEF StartFetch, Moves, WorkerType, Live
  <2>3. Cardinality(Live') = Cardinality(Live) + 1
    BY <2>2, LiveFinite, FS_AddElement
  <2> QED
    BY <1>1, <2>3, Constants DEF StartFetch, SlotFree, Slots, SlotAccounting
<1>2. ASSUME NEW j \in Job, Release(j) PROVE Slots'
  <2>1. Live' = Live \ {j} /\ j \in Live
    BY <1>0, <1>2 DEF Release, Moves, WorkerType, Live
  <2>2. Cardinality(Live') = Cardinality(Live) - 1
    BY <2>1, LiveFinite, FS_RemoveElement
  <2>3. Cardinality(Live') \in Nat
    BY <2>1, LiveFinite, FS_RemoveElement, FS_CardinalityType
  <2> QED
    BY <1>2, <2>2, <2>3, Constants DEF Release, Slots, SlotAccounting
<1>3. ASSUME NEW j \in Job, Scrape(j), ~Release(j) PROVE Slots'
  <2>1. Live' = Live
    BY <1>0, <1>3, GoesOn
    DEF Scrape, FetchFails, CountFailure, FetchLines, FetchNothing,
      FetchList, FetchNested, EndNested, Record, PanicAndRecover
  <2>2. sem' = sem
    BY <1>3
    DEF Scrape, FetchFails, CountFailure, FetchLines, FetchNothing,
      FetchList, FetchNested, EndNested, Record, PanicAndRecover
  <2> QED  BY <2>1, <2>2 DEF Slots, SlotAccounting
<1>4. CASE NextSource \/ SkipBlank \/ Return \/ UNCHANGED vars
  BY <1>4 DEF NextSource, SkipBlank, Return, vars, Slots, SlotAccounting, Live
<1> QED
  BY <1>1, <1>2, <1>3, <1>4 DEF Next, Loop, Terminated

-----------------------------------------------------------------------------
(* How far the loop is, and what was started. *)

Before(j) == j[1] < src \/ (j[1] = src /\ j[2] < part)

Placed ==
  /\ \A j \in Job : worker[j] # "idle" => j \in Wanted /\ Before(j)
  /\ \A j \in Wanted : Before(j) => worker[j] # "idle"

Ended == returned => Exhausted /\ NoneLive

LEMMA InitPlaced == Init => Placed /\ Ended
<1> SUFFICES ASSUME Init PROVE Placed /\ Ended
  OBVIOUS
<1>1. \A j \in Job : ~Before(j)  BY Constants DEF Init, Before, Job
<1>2. \A j \in Wanted : j \in Job  BY DEF Wanted
<1> QED  BY <1>1, <1>2 DEF Init, Placed, Ended

\* A step of a goroutine starts no other, and is not one of an ended run.
LEMMA ScrapeStarts ==
  ASSUME WorkerType, Ended, NEW j \in Job, Scrape(j)
  PROVE  /\ \A k \in Job : (worker'[k] = "idle") <=> (worker[k] = "idle")
         /\ ~returned
<1>1. PICK from \in Place, to \in Place :
        Moves(j, from, to) /\ from \notin {"idle", "done"} /\ to # "idle"
  BY DEF Scrape, FetchFails, CountFailure, FetchLines, FetchNothing,
    FetchList, FetchNested, EndNested, Record, PanicAndRecover, Release, Place
<1>2. j \in Live  BY <1>1 DEF Live, Moves
<1> QED  BY <1>1, <1>2 DEF Moves, WorkerType, Ended, NoneLive

LEMMA PlacedStep == Types /\ Placed /\ Ended /\ [Next]_vars => Placed' /\ Ended'
<1> SUFFICES ASSUME Types, Placed, Ended, [Next]_vars PROVE Placed' /\ Ended'
  OBVIOUS
<1>0. SourcesType /\ LoopType /\ WorkerType  BY DEF Types
<1>w. \A j \in Wanted : j \in Job /\ j[1] \in 1..MaxSources /\ j[2] \in 1..MaxParts
  BY DEF Wanted, Job
<1>n. src \in Nat /\ part \in Nat /\ Len(sources) \in Nat
  BY <1>0, Constants DEF LoopType, SourcesType
<1>1. CASE NextSource
  <2>1. Wanted' = Wanted  BY <1>1 DEF NextSource, Wanted
  <2>2. ASSUME NEW j \in Wanted, Before(j)' PROVE Before(j)
    <3>1. j[1] <= src  BY <1>1, <1>n, <1>w, <2>2 DEF NextSource, Before
    <3>2. ASSUME j[1] = src PROVE j[2] < part
      <4>1. part > Len(sources[src].parts)
        BY <1>1, <3>2 DEF NextSource, Usable, Wanted
      <4>2. j[2] <= Len(sources[src].parts)  BY <3>2 DEF Wanted
      <4>3. sources[src] \in Source
        BY <1>0, <1>1, <1>n DEF NextSource, Exhausted, SourcesType, LoopType
      <4>4. Len(sources[src].parts) \in Nat  BY <4>3, PartsOf, Constants
      <4> QED  BY <4>1, <4>2, <4>4, <1>n, <1>w
    <3> QED  BY <3>1, <3>2, <1>n, <1>w DEF Before
  <2>3. ASSUME NEW j \in Wanted, Before(j) PROVE Before(j)'
    BY <1>1, <1>n, <1>w, <2>3 DEF NextSource, Before
  <2>4. worker' = worker /\ returned' = returned /\ ~returned
    BY <1>1 DEF NextSource
  <2> QED  BY <2>1, <2>2, <2>3, <2>4 DEF Placed, Ended
<1>2. CASE SkipBlank
  <2>1. Wanted' = Wanted  BY <1>2 DEF SkipBlank, Wanted
  <2>2. ASSUME NEW j \in Wanted, Before(j)' PROVE Before(j)
    <3>1. ~(j[1] = src /\ j[2] = part)
      BY <1>2 DEF SkipBlank, AtPart, Wanted
    <3> QED  BY <1>2, <1>n, <1>w, <2>2, <3>1 DEF SkipBlank, Before
  <2>3. ASSUME NEW j \in Wanted, Before(j) PROVE Before(j)'
    BY <1>2, <1>n, <1>w, <2>3 DEF SkipBlank, Before
  <2>4. worker' = worker /\ returned' = returned /\ ~returned
    BY <1>2 DEF SkipBlank, AtPart
  <2> QED  BY <2>1, <2>2, <2>3, <2>4 DEF Placed, Ended
<1>3. CASE StartFetch
  <2>0. PICK here : here = <<src, part>>  OBVIOUS
  <2>1. Wanted' = Wanted  BY <1>3 DEF StartFetch, Wanted
  <2>2. here \in Job /\ here \in Wanted
    BY <1>0, <1>3, <2>0, AtJob DEF StartFetch
  <2>3. /\ \A j \in Job \ {here} : worker'[j] = worker[j]
        /\ worker'[here] = "fetch"
    BY <1>0, <1>3, <2>0, <2>2 DEF StartFetch, Moves, WorkerType
  <2>4. ASSUME NEW j \in Wanted, Before(j)' PROVE Before(j) \/ j = here
    <3>1. Before(j) \/ (j[1] = src /\ j[2] = part)
      BY <1>3, <1>n, <1>w, <2>4 DEF StartFetch, Before
    <3>2. j = <<j[1], j[2]>>  BY <1>w DEF Job
    <3> QED  BY <2>0, <3>1, <3>2
  <2>5. ASSUME NEW j \in Wanted, Before(j) PROVE Before(j)'
    BY <1>3, <1>n, <1>w, <2>5 DEF StartFetch, Before
  <2>6. Before(here)'  BY <1>3, <1>n, <2>0 DEF StartFetch, Before
  <2>7. returned' = returned /\ ~returned
    BY <1>3 DEF StartFetch, AtPart
  <2>8. Placed'
    <3>1. ASSUME NEW j \in Job, worker'[j] # "idle"
          PROVE  j \in Wanted' /\ Before(j)'
      <4>1. CASE j = here  BY <4>1, <2>1, <2>2, <2>6
      <4>2. CASE j # here  BY <4>2, <3>1, <2>1, <2>3, <2>5 DEF Placed
      <4> QED  BY <4>1, <4>2
    <3>2. ASSUME NEW j \in Wanted', Before(j)' PROVE worker'[j] # "idle"
      BY <3>2, <1>w, <2>1, <2>3, <2>4 DEF Placed
    <3> QED  BY <3>1, <3>2 DEF Placed
  <2> QED  BY <2>7, <2>8 DEF Ended
<1>4. CASE Return
  <2>1. Placed'  BY <1>4 DEF Return, Placed, Before, Wanted
  <2>2. Ended'  BY <1>4 DEF Return, Ended, Exhausted, NoneLive, Live
  <2> QED  BY <2>1, <2>2
<1>5. ASSUME NEW j \in Job, Scrape(j) PROVE Placed' /\ Ended'
  <2>1. /\ \A k \in Job : (worker'[k] = "idle") <=> (worker[k] = "idle")
        /\ ~returned
    BY <1>0, <1>5, ScrapeStarts
  <2>2. UNCHANGED loopVars
    BY <1>5
    DEF Scrape, FetchFails, CountFailure, FetchLines, FetchNothing,
      FetchList, FetchNested, EndNested, Record, PanicAndRecover, Release
  <2>3. Wanted' = Wanted /\ \A k \in Job : Before(k)' <=> Before(k)
    BY <2>2 DEF loopVars, Wanted, Before
  <2>4. Placed'  BY <1>w, <2>1, <2>3 DEF Placed
  <2>5. Ended'  BY <2>1, <2>2 DEF Ended, loopVars
  <2> QED  BY <2>4, <2>5
<1>6. CASE UNCHANGED vars
  <2>1. Placed'  BY <1>6 DEF vars, loopVars, Placed, Before, Wanted
  <2>2. Ended'
    BY <1>6 DEF vars, loopVars, Ended, Exhausted, NoneLive, Live
  <2> QED  BY <2>1, <2>2
<1> QED
  BY <1>1, <1>2, <1>3, <1>4, <1>5, <1>6 DEF Next, Loop, Terminated

-----------------------------------------------------------------------------
(* Lines. *)

\* The lines a goroutine has in hand, sent but not yet recorded.
InHand(j) == IF worker[j] = "record" THEN lines[j] ELSE 0

Accounted ==
  /\ \A j \in Job : CountOf(j) + InHand(j) = received[j]
  /\ raw = Len(allURLs)

\* How often i is in a sequence.
CountIn(i, s) == Cardinality({k \in DOMAIN s : s[k] = i})

\* What is recorded of one goroutine is counted for it and for no other.
LEMMA CountAppended ==
  ASSUME NEW s \in Seq(Job), NEW j \in Job, NEW n \in Nat, NEW i \in Job
  PROVE  CountIn(i, s \o [k \in 1..n |-> j])
           = CountIn(i, s) + (IF i = j THEN n ELSE 0)
<1> DEFINE t == s \o [k \in 1..n |-> j]
           old == {k \in DOMAIN s : s[k] = i}
           new == (Len(s) + 1)..(Len(s) + n)
           all == {k \in DOMAIN t : t[k] = i}
<1> SUFFICES Cardinality(all) = Cardinality(old) + (IF i = j THEN n ELSE 0)
  BY DEF CountIn
<1>0. /\ [k \in 1..n |-> j] \in Seq(Job) /\ Len([k \in 1..n |-> j]) = n
      /\ Len(s) \in Nat
  OBVIOUS
<1>1. /\ Len(t) = Len(s) + n /\ DOMAIN t = 1..(Len(s) + n)
      /\ DOMAIN s = 1..Len(s)
  BY <1>0
<1>2. /\ \A k \in 1..Len(s) : t[k] = s[k]
      /\ \A k \in new : t[k] = j
  BY <1>0
<1>3. IsFiniteSet(old)
  <2>1. IsFiniteSet(1..Len(s))  BY <1>0, FS_Interval
  <2>2. old \subseteq 1..Len(s)  BY <1>1
  <2> QED  BY <2>1, <2>2, FS_Subset
<1>4. IsFiniteSet(new) /\ Cardinality(new) = n
  <2>1. Len(s) + 1 \in Int /\ Len(s) + n \in Int  BY <1>0
  <2>2. /\ IsFiniteSet(new)
        /\ Cardinality(new) = IF Len(s) + 1 > Len(s) + n THEN 0
                               ELSE (Len(s) + n) - (Len(s) + 1) + 1
    BY <2>1, FS_Interval
  <2> HIDE DEF new
  <2> QED  BY <1>0, <2>2
<1>5. CASE i = j
  <2>1. all = old \union new  BY <1>0, <1>1, <1>2, <1>5
  <2>2. old \intersect new = {}  BY <1>0, <1>1
  <2>3. Cardinality(all) = Cardinality(old) + Cardinality(new) - Cardinality({})
    BY <1>3, <1>4, <2>1, <2>2, FS_Union
  <2>4. Cardinality(old) \in Nat  BY <1>3, FS_CardinalityType
  <2> HIDE DEF old, new, all
  <2> QED  BY <1>4, <1>5, <2>3, <2>4, FS_EmptySet
<1>6. CASE i # j
  <2>1. all = old  BY <1>0, <1>1, <1>2, <1>6
  <2>2. Cardinality(old) \in Nat  BY <1>3, FS_CardinalityType
  <2> HIDE DEF old, new, all
  <2> QED  BY <1>6, <2>1, <2>2
<1> QED  BY <1>5, <1>6

LEMMA CountType ==
  ASSUME StatsType, NEW j \in Job PROVE CountOf(j) \in Nat
<1>1. IsFiniteSet(1..Len(allURLs))  BY FS_Interval DEF StatsType
<1>2. {k \in DOMAIN allURLs : allURLs[k] = j} \subseteq 1..Len(allURLs)
  BY DEF StatsType
<1> QED  BY <1>1, <1>2, FS_Subset, FS_CardinalityType DEF CountOf

LEMMA InitAccounted == Init => Accounted
<1> SUFFICES ASSUME Init PROVE Accounted
  OBVIOUS
<1>1. \A j \in Job : CountOf(j) = 0
  <2>1. \A j \in Job : {k \in DOMAIN allURLs : allURLs[k] = j} = {}
    BY DEF Init
  <2> QED  BY <2>1, FS_EmptySet DEF CountOf
<1>2. \A j \in Job : InHand(j) = 0  BY DEF Init, InHand
<1> QED  BY <1>1, <1>2 DEF Init, Accounted

LEMMA AccountedStep == Types /\ Accounted /\ [Next]_vars => Accounted'
<1> SUFFICES ASSUME Types, Accounted, [Next]_vars PROVE Accounted'
  OBVIOUS
<1>0. WorkerType /\ JobsType /\ StatsType  BY DEF Types
\* A step that sends a goroutine more keeps it in hand, any other leaves the sums.
<1>1. ASSUME UNCHANGED <<raw, allURLs>>,
             \A i \in Job : received'[i] - InHand(i)' = received[i] - InHand(i),
             \A i \in Job : received'[i] \in Nat /\ InHand(i)' \in Nat
                              /\ InHand(i) \in Nat
      PROVE  Accounted'
  <2>1. \A i \in Job : CountOf(i)' = CountOf(i)  BY <1>1 DEF CountOf
  <2>2. \A i \in Job : CountOf(i) \in Nat /\ received[i] \in Nat
    BY <1>0, CountType DEF JobsType
  <2> QED  BY <1>1, <2>1, <2>2 DEF Accounted
<1>2. \A i \in Job : InHand(i) \in Nat
  BY <1>0, Constants DEF InHand, JobsType
<1>3. Types'  BY TypesStep
<1>4. \A i \in Job : received'[i] \in Nat /\ InHand(i)' \in Nat
  BY <1>3, Constants DEF InHand, Types, JobsType
<1>5. ASSUME NEW j \in Job, Record(j) PROVE Accounted'
  <2>1. worker[j] = "record" /\ worker'[j] # "record"
    BY <1>0, <1>5 DEF Record, Moves, WorkerType
  <2>2. \A i \in Job : CountOf(i)' = CountOf(i) + (IF i = j THEN lines[j] ELSE 0)
    <3> SUFFICES ASSUME NEW i \in Job
                 PROVE  CountOf(i)' = CountOf(i) + (IF i = j THEN lines[j] ELSE 0)
      OBVIOUS
    <3>1. lines[j] \in Nat  BY <1>0, Constants DEF JobsType
    <3>2. allURLs \in Seq(Job) /\ allURLs' = allURLs \o [k \in 1..lines[j] |-> j]
      BY <1>0, <1>5 DEF Record, StatsType
    <3>3. CountIn(i, allURLs') = CountIn(i, allURLs) + (IF i = j THEN lines[j] ELSE 0)
      BY <3>1, <3>2, CountAppended
    <3> QED  BY <3>3 DEF CountOf, CountIn
  <2>3. \A i \in Job : InHand(i)' = (IF i = j THEN 0 ELSE InHand(i))
    BY <1>0, <1>5, <2>1 DEF Record, Moves, WorkerType, InHand, jobVars
  <2>4. InHand(j) = lines[j]  BY <2>1 DEF InHand
  <2>5. \A i \in Job : CountOf(i)' + InHand(i)' = received'[i]
    <3>1. received' = received  BY <1>5 DEF Record, jobVars
    <3>2. \A i \in Job : CountOf(i) \in Nat  BY <1>0, CountType
    <3> QED  BY <1>2, <2>2, <2>3, <2>4, <3>1, <3>2 DEF Accounted
  <2>6. raw' = Len(allURLs')
    <3>1. lines[j] \in Nat  BY <1>0, Constants DEF JobsType
    <3>2. [k \in 1..lines[j] |-> j] \in Seq(Job)
          /\ Len([k \in 1..lines[j] |-> j]) = lines[j]
      BY <3>1
    <3> QED  BY <1>0, <1>5, <3>1, <3>2 DEF Record, StatsType, Accounted
  <2> QED  BY <2>5, <2>6 DEF Accounted
<1>6. ASSUME NEW j \in Job, FetchLines(j) PROVE Accounted'
  <2>1. PICK k \in 1..MaxLines :
          /\ lines' = [lines EXCEPT ![j] = k]
          /\ received' = [received EXCEPT ![j] = @ + k]
    BY <1>6 DEF FetchLines
  <2>2. worker' = [worker EXCEPT ![j] = "record"] /\ worker[j] = "fetch"
    BY <1>6 DEF FetchLines, Moves
  <2>3. \A i \in Job : received'[i] - InHand(i)' = received[i] - InHand(i)
    BY <1>0, <2>1, <2>2, Constants DEF InHand, WorkerType, JobsType
  <2> QED  BY <1>1, <1>2, <1>4, <1>6, <2>3 DEF FetchLines, stats
<1>7. ASSUME NEW j \in Job, FetchNested(j) PROVE Accounted'
  <2>1. PICK k \in 0..MaxLines :
          /\ Moves(j, "nested", IF k > 0 THEN "record" ELSE "nested")
          /\ lines' = [lines EXCEPT ![j] = k]
          /\ received' = [received EXCEPT ![j] = @ + k]
    BY <1>7 DEF FetchNested
  <2>2. \A i \in Job : received'[i] - InHand(i)' = received[i] - InHand(i)
    BY <1>0, <2>1, Constants DEF Moves, InHand, WorkerType, JobsType
  <2> QED  BY <1>1, <1>2, <1>4, <1>7, <2>2 DEF FetchNested, stats
<1>8. ASSUME NEW j \in Job, NEW from \in Place, NEW to \in Place,
             Moves(j, from, to), from # "record", to # "record",
             UNCHANGED <<lines, received, raw, allURLs>>
      PROVE  Accounted'
  <2>1. \A i \in Job : InHand(i)' = InHand(i)
    BY <1>0, <1>8 DEF Moves, WorkerType, InHand
  <2> QED  BY <1>1, <1>2, <1>4, <1>8, <2>1
<1>9. ASSUME NEW j \in Job, Scrape(j), ~Record(j), ~FetchLines(j), ~FetchNested(j)
      PROVE  Accounted'
  BY <1>8, <1>9
  DEF Scrape, FetchFails, CountFailure, FetchNothing, FetchList, EndNested,
    PanicAndRecover, Release, Place, jobVars, stats
<1>10. CASE StartFetch
  <2>1. <<src, part>> \in Job  BY <1>10, AtJob DEF StartFetch, Types
  <2> QED
    BY <1>8, <1>10, <2>1 DEF StartFetch, Place, jobVars, stats
<1>11. CASE NextSource \/ SkipBlank \/ Return \/ UNCHANGED vars
  <2>1. UNCHANGED <<worker, lines, received, raw, allURLs>>
    BY <1>11 DEF NextSource, SkipBlank, Return, vars, jobVars, stats
  <2> QED  BY <2>1 DEF Accounted, CountOf, InHand
<1> QED
  BY <1>5, <1>6, <1>7, <1>9, <1>10, <1>11 DEF Next, Loop, Terminated

-----------------------------------------------------------------------------
(* The theorems. *)

Inv == Types /\ Slots /\ Placed /\ Ended /\ Accounted

LEMMA Invariant == Spec => []Inv
<1>1. Init => Inv
  BY InitTypes, InitSlots, InitPlaced, InitAccounted DEF Inv
<1>2. Inv /\ [Next]_vars => Inv'
  BY TypesStep, SlotsStep, PlacedStep, AccountedStep DEF Inv
<1> QED  BY <1>1, <1>2, PTL DEF Spec

\* The state of GatherFromSources keeps its types; in particular sem holds no
\* more than Workers values and is never received from when it is empty.
THEOREM GatherTypes == Spec => []TypeOK
<1>1. Inv => TypeOK
  <2> SUFFICES ASSUME Inv PROVE TypeOK
    OBVIOUS
  <2>1. \A i \in DOMAIN sources : sources[i] \in Source
    BY DEF Inv, Types, SourcesType
  <2> QED
    BY <2>1
    DEF Inv, Types, LoopType, WorkerType, Place, JobsType, StatsType, Slots, TypeOK
<1> QED  BY <1>1, Invariant, PTL

\* Whatever the fetches end in, the values in sem are the goroutines that run.
THEOREM SlotsGathered == Spec => []SlotAccounting
<1>1. Inv => SlotAccounting  BY DEF Inv, Slots
<1> QED  BY <1>1, Invariant, PTL

\* When GatherFromSources returns, every proxy line that any of its goroutines was
\* sent is in the result once, for any number of goroutines and lines.
THEOREM LinesOnce == Spec => []EveryLineOnce
<1>1. Inv => EveryLineOnce
  <2> SUFFICES ASSUME Inv, returned PROVE /\ \A j \in Job : CountOf(j) = received[j]
                                          /\ raw = Len(allURLs)
    BY DEF EveryLineOnce
  <2>1. \A j \in Job : InHand(j) = 0
    BY DEF Inv, Ended, NoneLive, Live, InHand
  <2>2. \A j \in Job : CountOf(j) \in Nat  BY CountType DEF Inv, Types
  <2> QED  BY <2>1, <2>2 DEF Inv, Accounted
<1> QED  BY <1>1, Invariant, PTL

\* Only URLs of enabled sources are fetched, and when GatherFromSources returns
\* the goroutine of each of them has ended.
THEOREM EnabledFetched == Spec => []FetchesWhatIsEnabled
<1>1. Inv => FetchesWhatIsEnabled
  <2> SUFFICES ASSUME Inv PROVE FetchesWhatIsEnabled
    OBVIOUS
  <2>1. ASSUME returned, NEW j \in Wanted PROVE worker[j] = "done"
    <3>1. j \in Job /\ j[1] <= Len(sources)  BY DEF Wanted
    <3>2. src > Len(sources) /\ Live = {}
      BY <2>1 DEF Inv, Ended, Exhausted, NoneLive
    <3>3. Before(j)
      BY <3>1, <3>2, Constants
      DEF Inv, Types, SourcesType, LoopType, Before, Job
    <3> QED  BY <3>1, <3>2, <3>3 DEF Inv, Placed, Live
  <2> QED  BY <2>1 DEF Inv, Placed, FetchesWhatIsEnabled
<1> QED  BY <1>1, Invariant, PTL
=============================================================================
