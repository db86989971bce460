--------------------------- MODULE ExpansionProofs ---------------------------
(***************************************************************************)
(* Proofs about SourceExpansion: where no feed follows a sublist the       *)
(* appends of the loop and of the goroutines cannot meet, for lists of any *)
(* length that arrive in any order.                                        *)
(***************************************************************************)
EXTENDS SourceExpansion, FunctionTheorems, FiniteSetTheorems, TLAPS

Cells == Entries \union {Torn}

LoopType ==
  /\ sources \in Seq(Kinds) /\ Len(sources) \in 0..MaxSources
  /\ main \in {"load", "failed", "loop", "append", "returned"}
  /\ next \in 1..(Len(sources) + 1)
  /\ main = "load" => sources = <<>>

WorkerType == worker \in [Index -> {"idle", "fetch", "lock", "append", "done"}]

\* The holder of mu is the goroutine that appends, and no other appends.
Holder ==
  /\ lock \in 0..MaxSources
  /\ \A i \in Index : worker[i] = "append" <=> lock = i

SliceType ==
  /\ items \in [Index -> Seq(Entries)]
  /\ base \in [Index -> Seq(Cells)]
  /\ expanded \in Seq(Cells)

\* Goroutines run for sublists behind the loop.
Started ==
  /\ \A i \in Index : worker[i] # "idle" => i < next /\ sources[i] = "sublist"
  /\ \A i \in Index : i < next /\ sources[i] = "sublist" => worker[i] # "idle"
  /\ main = "append" => next <= Len(sources) /\ sources[next] = "feed"
  /\ main = "returned" => next > Len(sources) /\ AllSettled

Types == LoopType /\ WorkerType /\ Holder /\ SliceType /\ Started

-----------------------------------------------------------------------------
(* Types. *)

LEMMA ConcatFacts ==
  ASSUME NEW S, NEW s \in Seq(S), NEW t \in Seq(S)
  PROVE  /\ s \o t \in Seq(S)
         /\ Len(s) \in Nat /\ Len(t) \in Nat /\ Len(s \o t) = Len(s) + Len(t)
         /\ \A k \in 1..Len(s) : (s \o t)[k] = s[k]
         /\ \A k \in 1..Len(t) : (s \o t)[Len(s) + k] = t[k]
OBVIOUS

LEMMA ListType ==
  ASSUME NEW n \in Nat, NEW list \in parseSublistJSON(n)
  PROVE  list \in Seq(Kinds) /\ Len(list) \in 0..n /\ DOMAIN list = 1..Len(list)
<1>1. <<>> \in Seq(Kinds) /\ Len(<<>>) = 0
  OBVIOUS
<1>2. ASSUME NEW k \in 0..n, list \in [1..k -> Kinds]
      PROVE  list \in Seq(Kinds) /\ Len(list) = k
  BY <1>2
<1>3. CASE list = <<>>
  BY <1>1, <1>3
<1>4. CASE list # <<>>
  <2>1. PICK k \in 0..n : list \in [1..k -> Kinds]
    BY <1>4 DEF parseSublistJSON, Lists
  <2> QED
    BY <1>2, <2>1
<1> QED
  BY <1>3, <1>4

LEMMA InitTypes == Init => Types
<1> SUFFICES ASSUME Init PROVE Types
  OBVIOUS
<1>1. LoopType
  <2>1. sources = <<>> /\ Len(sources) = 0 /\ sources \in Seq(Kinds)
    BY DEF Init
  <2> QED
    BY <2>1, ExpansionAssumption DEF ExpansionAssumption, Init, LoopType
<1>2. WorkerType
  BY DEF Init, WorkerType
<1>3. Holder
  BY ExpansionAssumption DEF ExpansionAssumption, Init, Holder, Index
<1>4. SliceType
  BY DEF Init, SliceType
<1>5. Started
  BY ExpansionAssumption DEF ExpansionAssumption, Init, Started, Index
<1> QED
  BY <1>1, <1>2, <1>3, <1>4, <1>5 DEF Types

LEMMA AtIndex ==
  ASSUME LoopType, NEW kind, AtEntry(kind)
  PROVE  next \in Index /\ next + 1 \in 1..(Len(sources) + 1) /\ sources[next] = kind
BY ExpansionAssumption DEF ExpansionAssumption, LoopType, AtEntry, Index

\* Whoever has written in between, an append leaves cells.
LEMMA AppendedType ==
  ASSUME SliceType, NEW i \in Index, NEW s \in Appended(i)
  PROVE  s \in Seq(Cells)
<1>1. base[i] \in Seq(Cells) /\ items[i] \in Seq(Cells) /\ expanded \in Seq(Cells)
  BY DEF SliceType, Cells
<1> DEFINE both == base[i] \o items[i]
<1>2. both \in Seq(Cells) /\ Len(both) \in Nat /\ Len(expanded) \in Nat
  BY <1>1, ConcatFacts
<1>3. CASE s = expanded \o items[i]
  BY <1>1, <1>3
<1>4. CASE s \in RacedAppend(i)
  <2>1. PICK len \in Nat : /\ s \in [1..len -> UNION {RacedCell(i, k) : k \in 1..len}]
                           /\ \A k \in 1..len : s[k] \in RacedCell(i, k)
    BY <1>2, <1>4 DEF RacedAppend
  <2>2. ASSUME NEW k \in 1..len PROVE RacedCell(i, k) \subseteq Cells
    <3>1. Torn \in Cells
      BY DEF Cells
    <3>2. k <= Len(base[i]) => base[i][k] \in Cells
      BY <1>1, <2>1
    <3>3. k <= Len(both) => both[k] \in Cells
      <4> HIDE DEF both
      <4> QED
        BY <1>2, <2>1
    <3>4. k <= Len(expanded) => expanded[k] \in Cells
      BY <1>1, <2>1
    <3> QED
      BY <3>1, <3>2, <3>3, <3>4 DEF RacedCell
  <2>3. \A k \in 1..len : s[k] \in Cells
    BY <2>1, <2>2
  <2>4. s \in [1..len -> Cells]
    BY <2>1, <2>3
  <2> QED
    BY <2>1, <2>4
<1> QED
  BY <1>3, <1>4 DEF Appended

LEMMA EntryType ==
  ASSUME NEW i \in Index, NEW k \in 0..MaxListed, NEW kind \in Kinds
  PROVE  Entry(i, k, kind) \in Entries
BY DEF Entry, Entries

\* What a goroutine has to append, and that it is not the same entry twice.
LEMMA FetchFacts ==
  ASSUME SliceType, NEW i \in Index, Fetch(i)
  PROVE  \E mine \in Seq(Entries) :
           /\ items' = [items EXCEPT ![i] = mine]
           /\ \A k \in 1..Len(mine) : mine[k].from = i
           /\ \A k, l \in 1..Len(mine) : mine[k] = mine[l] => k = l
<1>1. PICK list \in parseSublistJSON(MaxListed) :
        items' = [items EXCEPT ![i] =
          IF list = <<>> THEN <<Entry(i, 0, "sublist")>>
          ELSE [k \in DOMAIN list |-> Entry(i, k, list[k])]]
  BY DEF Fetch
<1>2. /\ list \in Seq(Kinds) /\ Len(list) \in 0..MaxListed
      /\ DOMAIN list = 1..Len(list)
  BY ListType, ExpansionAssumption DEF ExpansionAssumption
<1>3. CASE list = <<>>
  <2> DEFINE mine == <<Entry(i, 0, "sublist")>>
  <2>1. Entry(i, 0, "sublist") \in Entries
    BY EntryType, ExpansionAssumption DEF ExpansionAssumption, Kinds
  <2>2. mine \in Seq(Entries) /\ Len(mine) = 1 /\ mine[1].from = i
    BY <2>1 DEF Entry
  <2>3. items' = [items EXCEPT ![i] = mine]
    BY <1>1, <1>3
  <2> HIDE DEF mine
  <2>4. \A k \in 1..Len(mine) : k = 1
    BY <2>2
  <2>5. \A k \in 1..Len(mine) : mine[k].from = i
    BY <2>2, <2>4
  <2> QED
    BY <2>2, <2>3, <2>4, <2>5
<1>4. CASE list # <<>>
  <2> DEFINE mine == [k \in 1..Len(list) |-> Entry(i, k, list[k])]
  <2>1. \A k \in 1..Len(list) : k \in 0..MaxListed /\ list[k] \in Kinds
    BY <1>2, ExpansionAssumption DEF ExpansionAssumption
  <2>2. \A k \in 1..Len(list) : Entry(i, k, list[k]) \in Entries
    BY <2>1, EntryType
  <2>3. mine \in Seq(Entries) /\ Len(mine) = Len(list)
    BY <1>2, <2>2
  <2>4. \A k \in 1..Len(mine) : mine[k].from = i /\ mine[k].at = k
    BY <2>3 DEF Entry
  <2>5. items' = [items EXCEPT ![i] = mine]
    BY <1>1, <1>2, <1>4
  <2> HIDE DEF mine
  <2> QED
    BY <2>3, <2>4, <2>5
<1> QED
  BY <1>3, <1>4

LEMMA LoopTypes == Types /\ Loop => Types'
<1> SUFFICES ASSUME Types, Loop PROVE Types'
  OBVIOUS
<1> USE DEF Types
<1>n. Len(sources) \in Nat /\ next \in Nat /\ MaxSources \in Nat
  BY ExpansionAssumption DEF ExpansionAssumption, LoopType
<1>1. CASE Load
  <2>1. /\ sources' \in Seq(Kinds) /\ Len(sources') \in 0..MaxSources
        /\ UNCHANGED <<next, worker, lock, items, base, expanded>>
        /\ main = "load" /\ main' \in {"failed", "loop"}
    BY <1>1, <1>n, ListType DEF Load
  <2>2. next = 1 /\ \A i \in Index : worker[i] = "idle"
    <3>1. next = 1
      BY <2>1, <1>n DEF LoopType
    <3> QED
      BY <3>1 DEF Started, WorkerType, Index
  <2>3. LoopType'
    BY <2>1, <2>2 DEF LoopType
  <2>4. Started'
    BY <2>1, <2>2 DEF Started, Index
  <2> QED
    BY <2>1, <2>3, <2>4 DEF WorkerType, Holder, SliceType
<1>2. CASE SkipBlank
  <2>1. next \in Index /\ next + 1 \in 1..(Len(sources) + 1) /\ sources[next] = "blank"
    BY <1>2, AtIndex DEF SkipBlank
  <2>2. LoopType'
    BY <1>2, <2>1 DEF SkipBlank, LoopType
  <2>3. Started'
    BY <1>2, <1>n, <2>1 DEF SkipBlank, AtEntry, Started, Index
  <2> QED
    BY <1>2, <2>2, <2>3 DEF SkipBlank, WorkerType, Holder, SliceType
<1>3. CASE StartFetch
  <2>1. next \in Index /\ next + 1 \in 1..(Len(sources) + 1) /\ sources[next] = "sublist"
    BY <1>3, AtIndex DEF StartFetch
  <2>2. LoopType'
    BY <1>3, <2>1 DEF StartFetch, LoopType
  <2>3. worker[next] = "idle"
    BY <2>1, <1>n DEF Started, WorkerType
  <2>4. WorkerType' /\ Holder'
    BY <1>3, <2>1, <2>3 DEF StartFetch, WorkerType, Holder
  <2>5. Started'
    BY <1>3, <1>n, <2>1 DEF StartFetch, AtEntry, Started, Index, WorkerType
  <2> QED
    BY <1>3, <2>2, <2>4, <2>5 DEF StartFetch, SliceType
<1>4. CASE ReadForFeed
  <2>1. next \in Index /\ sources[next] = "feed" /\ next <= Len(sources)
    BY <1>4, AtIndex DEF ReadForFeed, AtEntry
  <2>2. LoopType' /\ Started'
    BY <1>4, <2>1 DEF ReadForFeed, LoopType, Started
  <2>3. Entry(next, 0, "feed") \in Entries
    BY <2>1, EntryType, ExpansionAssumption DEF ExpansionAssumption, Kinds
  <2>4. <<Entry(next, 0, "feed")>> \in Seq(Entries)
    BY <2>3
  <2>5. SliceType'
    BY <1>4, <2>1, <2>4 DEF ReadForFeed, SliceType
  <2> QED
    BY <1>4, <2>2, <2>5 DEF ReadForFeed, WorkerType, Holder
<1>5. CASE AppendFeed
  <2>1. /\ main = "append" /\ main' = "loop" /\ next' = next + 1
        /\ next <= Len(sources) /\ sources[next] = "feed"
        /\ UNCHANGED <<sources, worker, lock, items, base>>
    BY <1>5 DEF AppendFeed, Started
  <2>2. next \in Index /\ next' \in 1..(Len(sources) + 1)
    BY <2>1, <1>n DEF LoopType, Index
  <2>3. expanded' \in Seq(Cells)
    BY <1>5, <2>2, AppendedType DEF AppendFeed
  <2>4. LoopType' /\ WorkerType' /\ Holder' /\ SliceType'
    BY <2>1, <2>2, <2>3 DEF LoopType, WorkerType, Holder, SliceType
  <2>5. Started'
    BY <2>1, <1>n DEF Started, Index
  <2> QED
    BY <2>4, <2>5
<1>6. CASE Return
  BY <1>6
  DEF Return, LoopType, WorkerType, Holder, SliceType, Started, AllSettled
<1> QED
  BY <1>1, <1>2, <1>3, <1>4, <1>5, <1>6 DEF Loop

LEMMA ExpandTypes ==
  ASSUME Types, NEW i \in Index, Expand(i)
  PROVE  Types'
<1> USE DEF Types
<1>1. UNCHANGED <<sources, main, next>>
  BY DEF Expand, Fetch, LockAndRead, AppendAndUnlock
<1>2. LoopType'
  BY <1>1 DEF LoopType
<1>3. PICK p \in {"lock", "append", "done"} :
        worker' = [worker EXCEPT ![i] = p] /\ worker[i] \notin {"idle", "done"}
  BY DEF Expand, Fetch, LockAndRead, AppendAndUnlock
<1>4. WorkerType'
  BY <1>3 DEF WorkerType
<1>5. Started'
  BY <1>1, <1>3 DEF Started, WorkerType, AllSettled
<1>6. Holder' /\ SliceType'
  <2>1. CASE Fetch(i)
    <3>1. SliceType'
      BY <2>1, FetchFacts DEF SliceType, Fetch
    <3>2. Holder'
      BY <2>1 DEF Fetch, WorkerType, Holder
    <3> QED
      BY <3>1, <3>2
  <2>2. CASE LockAndRead(i)
    <3>1. \A k \in Index : worker[k] # "append" /\ k # 0
      BY <2>2 DEF LockAndRead, MutexFree, Holder, Index
    <3>2. i \in 0..MaxSources
      BY ExpansionAssumption DEF ExpansionAssumption, Index
    <3>3. Holder'
      BY <2>2, <3>1, <3>2 DEF LockAndRead, Holder, WorkerType
    <3>4. SliceType'
      BY <2>2 DEF LockAndRead, SliceType
    <3> QED
      BY <3>3, <3>4
  <2>3. CASE AppendAndUnlock(i)
    <3>1. lock = i /\ \A k \in Index : k # 0
      BY <2>3 DEF AppendAndUnlock, Holder, Index
    <3>2. Holder'
      BY <2>3, <3>1, ExpansionAssumption
      DEF ExpansionAssumption, AppendAndUnlock, Unlocked, Holder, WorkerType
    <3>3. SliceType'
      BY <2>3, AppendedType DEF AppendAndUnlock, SliceType
    <3> QED
      BY <3>2, <3>3
  <2> QED
    BY <2>1, <2>2, <2>3 DEF Expand
<1> QED
  BY <1>2, <1>4, <1>5, <1>6

LEMMA TypesStep == Types /\ [Next]_vars => Types'
<1> SUFFICES ASSUME Types, UNCHANGED vars PROVE Types'
  BY LoopTypes, ExpandTypes DEF Next, Terminated
<1> QED
  BY DEF Types, vars, LoopType, WorkerType, Holder, SliceType, Started, AllSettled

-----------------------------------------------------------------------------
(* What each entry contributes, and when. *)

Once(s) == \A k, l \in 1..Len(s) : s[k] = s[l] => k = l

\* The items of this entry are in the result.
Added(i) == worker[i] = "done" \/ (i < next /\ sources[i] = "feed")

Own ==
  \A i \in Index :
    /\ \A k \in 1..Len(items[i]) : items[i][k].from = i
    /\ Once(items[i])
    /\ items[i] # <<>> =>
         \/ worker[i] \in {"lock", "append", "done"}
         \/ i < next /\ sources[i] = "feed"
         \/ i = next /\ main = "append"

\* What an append has read is still the slice when it writes.
Apart ==
  ~FeedAfterSublist =>
    /\ main = "append" => base[next] = expanded
    /\ \A i \in Index : worker[i] = "append" => base[i] = expanded

Gathered ==
  /\ \A k \in 1..Len(expanded) :
       \E i \in Index : Added(i) /\ \E l \in 1..Len(items[i]) : expanded[k] = items[i][l]
  /\ \A i \in Index : Added(i) =>
       \A l \in 1..Len(items[i]) : \E k \in 1..Len(expanded) : expanded[k] = items[i][l]
  /\ Once(expanded)

Whole == ~FeedAfterSublist => Gathered

Sound == Types /\ Own /\ Apart /\ Whole

LEMMA InitSound == Init => Sound
<1> SUFFICES ASSUME Init PROVE Sound
  OBVIOUS
<1>1. Types
  BY InitTypes
<1>2. \A i \in Index : items[i] = <<>> /\ worker[i] = "idle" /\ ~(i < next)
  BY DEF Init, Index
<1>3. expanded = <<>> /\ main = "load" /\ Len(<<>>) = 0
  BY DEF Init
<1>4. Own
  BY <1>2, <1>3 DEF Own, Once
<1>5. Apart
  BY <1>2, <1>3 DEF Apart
<1>6. Gathered
  BY <1>2, <1>3 DEF Gathered, Added, Once
<1> QED
  BY <1>1, <1>4, <1>5, <1>6 DEF Sound, Whole

\* While the loop appends a feed no goroutine has been started.
LEMMA NoneStarted ==
  ASSUME Types, ~FeedAfterSublist, next \in 1..Len(sources), sources[next] = "feed"
  PROVE  \A i \in Index : worker[i] = "idle"
<1> SUFFICES ASSUME NEW i \in Index, worker[i] # "idle" PROVE FALSE
  OBVIOUS
<1>1. i < next /\ sources[i] = "sublist"
  BY DEF Types, Started
<1>2. i \in DOMAIN sources /\ next \in DOMAIN sources
  BY <1>1 DEF Types, LoopType, Index
<1> QED
  BY <1>1, <1>2 DEF FeedAfterSublist

LEMMA OwnStep == Types /\ Own /\ [Next]_vars => Own'
<1> SUFFICES ASSUME Types, Own, [Next]_vars PROVE Own'
  OBVIOUS
<1>n. Len(sources) \in Nat /\ next \in Nat /\ \A i \in Index : i \in Nat /\ i # 0
  BY DEF Types, LoopType, Index
<1>0. WorkerType /\ SliceType
  BY DEF Types
\* The items stay, and who has some stays among those who may.
<1>1. ASSUME items' = items,
             \A i \in Index :
               (\/ worker[i] \in {"lock", "append", "done"}
                \/ i < next /\ sources[i] = "feed"
                \/ i = next /\ main = "append") =>
               (\/ worker'[i] \in {"lock", "append", "done"}
                \/ i < next' /\ sources'[i] = "feed"
                \/ i = next' /\ main' = "append")
      PROVE  Own'
  BY <1>1 DEF Own
<1>2. CASE Load
  <2>1. next = 1 /\ main = "load"
    BY <1>2, <1>n DEF Load, Types, LoopType
  <2> QED
    BY <1>1, <1>2, <1>n, <2>1 DEF Load
<1>3. CASE SkipBlank
  BY <1>1, <1>3, <1>n DEF SkipBlank, AtEntry
<1>4. CASE StartFetch
  BY <1>0, <1>1, <1>4, <1>n DEF StartFetch, AtEntry, WorkerType, Types, Started
<1>5. CASE ReadForFeed
  <2> DEFINE mine == <<Entry(next, 0, "feed")>>
  <2>1. next \in Index
    BY <1>5, AtIndex DEF ReadForFeed, Types
  <2>2. Len(mine) = 1 /\ mine[1].from = next
    BY DEF Entry
  <2>3. /\ items' = [items EXCEPT ![next] = mine] /\ main = "loop" /\ main' = "append"
        /\ UNCHANGED <<sources, next, worker>>
    BY <1>5 DEF ReadForFeed, AtEntry
  <2> HIDE DEF mine
  <2>4. \A i \in Index : items'[i] = IF i = next THEN mine ELSE items[i]
    BY <1>0, <2>3 DEF SliceType
  <2>5. \A k \in 1..Len(mine) : k = 1
    BY <2>2
  <2>6. Once(mine) /\ \A k \in 1..Len(mine) : mine[k].from = next
    BY <2>2, <2>5 DEF Once
  <2> QED
    BY <2>1, <2>3, <2>4, <2>6 DEF Own
<1>6. CASE AppendFeed
  BY <1>1, <1>6, <1>n DEF AppendFeed, Types, Started
<1>7. CASE Return
  BY <1>1, <1>7 DEF Return
<1>8. ASSUME NEW i \in Index, Fetch(i) PROVE Own'
  <2>1. PICK mine \in Seq(Entries) :
           /\ items' = [items EXCEPT ![i] = mine]
           /\ \A k \in 1..Len(mine) : mine[k].from = i
           /\ \A k, l \in 1..Len(mine) : mine[k] = mine[l] => k = l
    BY <1>0, <1>8, FetchFacts
  <2>2. \A k \in Index : items'[k] = IF k = i THEN mine ELSE items[k]
    BY <1>0, <2>1 DEF SliceType
  <2>3. /\ \A k \in Index : worker'[k] = IF k = i THEN "lock" ELSE worker[k]
        /\ UNCHANGED <<sources, main, next>>
    BY <1>0, <1>8 DEF Fetch, WorkerType
  <2> QED
    BY <2>1, <2>2, <2>3 DEF Own, Once
<1>9. ASSUME NEW i \in Index, LockAndRead(i) \/ AppendAndUnlock(i) PROVE Own'
  BY <1>0, <1>1, <1>9 DEF LockAndRead, AppendAndUnlock, WorkerType
<1>10. CASE UNCHANGED vars
  BY <1>1, <1>10 DEF vars
<1> QED
  BY <1>2, <1>3, <1>4, <1>5, <1>6, <1>7, <1>8, <1>9, <1>10
  DEF Next, Loop, Expand, Terminated

LEMMA ApartStep == Types /\ Apart /\ [Next]_vars => Apart'
<1> SUFFICES ASSUME Types, Apart, [Next]_vars PROVE Apart'
  OBVIOUS
<1>0. WorkerType /\ SliceType /\ Holder /\ LoopType /\ Started
  BY DEF Types
<1>1. CASE Load
  <2>1. \A i \in Index : worker[i] = "idle"
    BY <1>0, <1>1 DEF Load, LoopType, Started, WorkerType, Index
  <2> QED
    BY <1>1, <2>1 DEF Load, Apart
<1>2. CASE SkipBlank \/ Return \/ UNCHANGED vars
  BY <1>2 DEF SkipBlank, Return, AtEntry, vars, Apart, FeedAfterSublist
<1>3. CASE StartFetch
  BY <1>0, <1>3 DEF StartFetch, AtEntry, WorkerType, Apart, FeedAfterSublist
<1>4. CASE ReadForFeed
  <2>1. next \in Index /\ next \in 1..Len(sources) /\ sources[next] = "feed"
    BY <1>0, <1>4, AtIndex DEF ReadForFeed, AtEntry, LoopType, Index
  <2>2. ~FeedAfterSublist => \A i \in Index : worker[i] = "idle"
    BY <2>1, NoneStarted
  <2>3. base'[next] = expanded
    BY <1>0, <1>4, <2>1 DEF ReadForFeed, SliceType
  <2> QED
    BY <1>4, <2>2, <2>3 DEF ReadForFeed, Apart, FeedAfterSublist
<1>5. CASE AppendFeed
  <2>1. next \in 1..Len(sources) /\ sources[next] = "feed"
    BY <1>0, <1>5 DEF AppendFeed, Started, LoopType
  <2>2. ~FeedAfterSublist => \A i \in Index : worker[i] = "idle"
    BY <2>1, NoneStarted
  <2> QED
    BY <1>5, <2>2 DEF AppendFeed, Apart, FeedAfterSublist
<1>6. ASSUME NEW i \in Index, Expand(i) PROVE Apart'
  <2>1. UNCHANGED <<sources, main, next>> /\ worker[i] # "idle"
    BY <1>6 DEF Expand, Fetch, LockAndRead, AppendAndUnlock
  <2>2. ~FeedAfterSublist => main # "append"
    BY <1>0, <2>1, NoneStarted DEF Started, LoopType
  <2>3. CASE Fetch(i)
    BY <1>0, <2>1, <2>2, <2>3 DEF Fetch, WorkerType, Apart, FeedAfterSublist
  <2>4. CASE LockAndRead(i)
    <3>1. \A k \in Index : worker[k] # "append"
      BY <1>0, <2>4 DEF LockAndRead, MutexFree, Holder, Index
    <3>2. \A k \in Index : worker'[k] = "append" => k = i
      BY <1>0, <2>4, <3>1 DEF LockAndRead, WorkerType
    <3>3. base'[i] = expanded'
      BY <1>0, <2>4 DEF LockAndRead, SliceType
    <3> QED
      BY <2>1, <2>2, <3>2, <3>3 DEF Apart, FeedAfterSublist
  <2>5. CASE AppendAndUnlock(i)
    <3>1. \A k \in Index : worker[k] = "append" => k = i
      BY <1>0, <2>5 DEF AppendAndUnlock, Holder
    <3>2. \A k \in Index : worker'[k] # "append"
      BY <1>0, <2>5, <3>1 DEF AppendAndUnlock, WorkerType
    <3> QED
      BY <2>1, <2>2, <3>2 DEF Apart, FeedAfterSublist
  <2> QED
    BY <1>6, <2>3, <2>4, <2>5 DEF Expand
<1> QED
  BY <1>1, <1>2, <1>3, <1>4, <1>5, <1>6 DEF Next, Loop, Terminated

\* Where nothing is appended the result stays whole.
LEMMA WholeStays ==
  ASSUME Whole, ~FeedAfterSublist,
         expanded' = expanded,
         \A i \in Index : Added(i)' <=> Added(i),
         \A i \in Index : Added(i) => items'[i] = items[i]
  PROVE  Gathered'
<1>1. Gathered
  BY DEF Whole
<1>2. ASSUME NEW k \in 1..Len(expanded)
      PROVE  \E i \in Index : Added(i)' /\ \E l \in 1..Len(items'[i]) : expanded[k] = items'[i][l]
  <2>1. PICK i \in Index : Added(i) /\ \E l \in 1..Len(items[i]) : expanded[k] = items[i][l]
    BY <1>1 DEF Gathered
  <2>2. Added(i)' /\ items'[i] = items[i]
    BY <2>1
  <2> QED
    BY <2>1, <2>2
<1>3. ASSUME NEW i \in Index, Added(i)', NEW l \in 1..Len(items'[i])
      PROVE  \E k \in 1..Len(expanded) : expanded[k] = items'[i][l]
  <2>1. Added(i) /\ items'[i] = items[i]
    BY <1>3
  <2> QED
    BY <1>1, <1>3, <2>1 DEF Gathered
<1>4. Once(expanded)
  BY <1>1 DEF Gathered
<1> QED
  BY <1>2, <1>3, <1>4 DEF Gathered, Once

\* Where the items of one entry are appended that was not added before, too.
LEMMA WholeGrows ==
  ASSUME Types, Own, Whole, ~FeedAfterSublist,
         NEW j \in Index, ~Added(j), items' = items,
         expanded' = expanded \o items[j],
         \A i \in Index : Added(i)' <=> Added(i) \/ i = j
  PROVE  Gathered'
<1> DEFINE mine == items[j]  n == Len(expanded)
<1>1. mine \in Seq(Cells) /\ expanded \in Seq(Cells)
  BY DEF Types, SliceType, Cells
<1>2. /\ n \in Nat /\ Len(mine) \in Nat /\ Len(expanded') = n + Len(mine)
      /\ \A k \in 1..n : expanded'[k] = expanded[k]
      /\ \A k \in 1..Len(mine) : expanded'[n + k] = mine[k]
  BY <1>1, ConcatFacts
<1>3. \A k \in 1..Len(mine) : mine[k].from = j
  BY DEF Own
<1>4. Once(mine) /\ Once(expanded)
  BY DEF Own, Whole, Gathered
<1>5. \A k \in 1..n : \E i \in Index : Added(i) /\ \E l \in 1..Len(items[i]) : expanded[k] = items[i][l]
  BY DEF Whole, Gathered
<1>6. \A k \in 1..n : expanded[k].from # j
  BY <1>5 DEF Own
<1>7. \A k \in 1..Len(expanded') :
        k \in 1..n \/ \E l \in 1..Len(mine) : k = n + l
  <2> SUFFICES ASSUME NEW k \in 1..Len(expanded'), k \notin 1..n
               PROVE  \E l \in 1..Len(mine) : k = n + l
    OBVIOUS
  <2>1. k - n \in 1..Len(mine) /\ k = n + (k - n)
    BY <1>2
  <2> QED
    BY <2>1
<1>8. \A i \in Index : Added(i) =>
        \A l \in 1..Len(items[i]) : \E k \in 1..n : expanded[k] = items[i][l]
  BY DEF Whole, Gathered
<1>a. \A l \in 1..Len(mine) : n + l \in 1..Len(expanded')
  BY <1>2
<1>b. \A k \in 1..n : k \in 1..Len(expanded')
  BY <1>2
<1> HIDE DEF mine, n
<1>9. \A k \in 1..Len(expanded') :
        \E i \in Index : Added(i)' /\ \E l \in 1..Len(items[i]) : expanded'[k] = items[i][l]
  <2> SUFFICES ASSUME NEW k \in 1..Len(expanded')
               PROVE  \E i \in Index : Added(i)' /\ \E l \in 1..Len(items[i]) : expanded'[k] = items[i][l]
    OBVIOUS
  <2>1. CASE k \in 1..n
    BY <1>2, <1>5, <2>1
  <2>2. ASSUME NEW l \in 1..Len(mine), k = n + l PROVE expanded'[k] = items[j][l] /\ l \in 1..Len(items[j])
    BY <1>2, <2>2 DEF mine
  <2> QED
    BY <1>7, <2>1, <2>2
<1>10. ASSUME NEW i \in Index, Added(i)', NEW l \in 1..Len(items[i])
       PROVE  \E k \in 1..Len(expanded') : expanded'[k] = items[i][l]
  <2>1. CASE Added(i)
    BY <1>2, <1>8, <1>b, <2>1
  <2>2. CASE i = j
    <3>1. expanded'[n + l] = items[i][l] /\ n + l \in 1..Len(expanded')
      BY <1>2, <1>a, <2>2 DEF mine
    <3> QED
      BY <3>1
  <2> QED
    BY <1>10, <2>1, <2>2
<1>11. ASSUME NEW k \in 1..Len(expanded'), NEW l \in 1..Len(expanded'),
              expanded'[k] = expanded'[l]
       PROVE  k = l
  <2>1. CASE k \in 1..n /\ l \in 1..n
    BY <1>2, <1>4, <1>11, <2>1 DEF Once, n
  <2>2. ASSUME NEW a \in 1..n, NEW b \in 1..Len(mine)
        PROVE  expanded'[a] # expanded'[n + b]
    BY <1>2, <1>3, <1>6
  <2>3. ASSUME NEW a \in 1..Len(mine), NEW b \in 1..Len(mine),
               expanded'[n + a] = expanded'[n + b]
        PROVE  a = b
    <3>1. mine[a] = mine[b]
      BY <1>2, <2>3
    <3> QED
      BY <1>4, <3>1 DEF Once
  <2> QED
    BY <1>7, <1>11, <2>1, <2>2, <2>3
<1> QED
  BY <1>9, <1>10, <1>11 DEF Gathered, Once

LEMMA WholeStep == Types /\ Own /\ Apart /\ Whole /\ [Next]_vars => Whole'
<1> SUFFICES ASSUME Types, Own, Apart, Whole, [Next]_vars, ~FeedAfterSublist' PROVE Gathered'
  BY DEF Whole
<1>0. WorkerType /\ SliceType /\ Holder /\ LoopType /\ Started
  BY DEF Types
<1>n. Len(sources) \in Nat /\ next \in Nat /\ \A i \in Index : i \in Nat /\ i # 0
  BY <1>0 DEF LoopType, Index
<1>1. ASSUME NEW j \in Index, Appended(j) = {expanded \o items[j]}, expanded' \in Appended(j)
      PROVE  expanded' = expanded \o items[j]
  BY <1>1
<1>2. CASE Load
  <2>1. next = 1 /\ \A i \in Index : worker[i] = "idle" /\ ~(i < next)
    BY <1>0, <1>2, <1>n DEF Load, LoopType, Started, WorkerType, Index
  <2>2. sources = <<>> /\ Len(<<>>) = 0
    BY <1>0, <1>2 DEF Load, LoopType
  <2>3. ~FeedAfterSublist
    BY <2>2 DEF FeedAfterSublist
  <2> QED
    BY <1>2, <2>1, <2>3, WholeStays DEF Load, Added
<1>s. CASE sources' = sources
  <2>0. ~FeedAfterSublist
    BY <1>s DEF FeedAfterSublist
  <2>1. CASE SkipBlank
    BY <1>n, <2>0, <2>1, WholeStays DEF SkipBlank, AtEntry, Added
  <2>2. CASE StartFetch
    <3>1. next \in Index /\ sources[next] = "sublist" /\ worker[next] = "idle"
      BY <1>0, <1>n, <2>2, AtIndex DEF StartFetch, Started, WorkerType
    <3>2. \A i \in Index : Added(i)' <=> Added(i)
      BY <1>0, <1>n, <2>2, <3>1 DEF StartFetch, AtEntry, Added, WorkerType
    <3> QED
      BY <2>0, <2>2, <3>2, WholeStays DEF StartFetch
  <2>3. CASE ReadForFeed
    <3>1. next \in Index /\ sources[next] = "feed"
      BY <1>0, <2>3, AtIndex DEF ReadForFeed
    <3>2. ~Added(next)
      BY <1>0, <1>n, <3>1 DEF Added, Started
    <3>3. \A i \in Index : Added(i)' <=> Added(i)
      BY <2>3 DEF ReadForFeed, Added
    <3>4. \A i \in Index : i # next => items'[i] = items[i]
      BY <1>0, <2>3 DEF ReadForFeed, SliceType
    <3> QED
      BY <2>0, <2>3, <3>2, <3>3, <3>4, WholeStays DEF ReadForFeed
  <2>4. CASE AppendFeed
    <3>1. main = "append" /\ next \in Index /\ sources[next] = "feed" /\ next <= Len(sources)
      BY <1>0, <1>n, <2>4, ExpansionAssumption
      DEF ExpansionAssumption, AppendFeed, Started, LoopType, Index
    <3>2. ~Added(next)
      BY <1>0, <1>n, <3>1 DEF Added, Started
    <3>3. expanded' = expanded \o items[next]
      BY <2>0, <2>4, <3>1 DEF AppendFeed, Apart, Appended
    <3>4. \A i \in Index : Added(i)' <=> Added(i) \/ i = next
      BY <1>0, <1>n, <2>4, <3>1 DEF AppendFeed, Added
    <3> QED
      BY <2>0, <2>4, <3>1, <3>2, <3>3, <3>4, WholeGrows DEF AppendFeed
  <2>5. CASE Return \/ UNCHANGED vars
    BY <2>0, <2>5, WholeStays DEF Return, vars, Added
  <2>6. ASSUME NEW i \in Index, Fetch(i) PROVE Gathered'
    <3>1. ~Added(i)
      BY <1>0, <2>6 DEF Fetch, Added, Started
    <3>2. \A k \in Index : k # i => items'[k] = items[k] /\ worker'[k] = worker[k]
      BY <1>0, <2>6, FetchFacts DEF Fetch, SliceType, WorkerType
    <3>3. \A k \in Index : Added(k)' <=> Added(k)
      BY <1>0, <2>6, <3>1, <3>2 DEF Fetch, Added, WorkerType
    <3> QED
      BY <2>0, <2>6, <3>1, <3>2, <3>3, WholeStays DEF Fetch
  <2>7. ASSUME NEW i \in Index, LockAndRead(i) PROVE Gathered'
    <3>1. \A k \in Index : Added(k)' <=> Added(k)
      BY <1>0, <2>7 DEF LockAndRead, Added, WorkerType
    <3> QED
      BY <2>0, <2>7, <3>1, WholeStays DEF LockAndRead
  <2>8. ASSUME NEW i \in Index, AppendAndUnlock(i) PROVE Gathered'
    <3>1. ~Added(i)
      BY <1>0, <2>8 DEF AppendAndUnlock, Added, Started
    <3>2. expanded' = expanded \o items[i]
      BY <2>0, <2>8 DEF AppendAndUnlock, Apart, Appended
    <3>3. \A k \in Index : Added(k)' <=> Added(k) \/ k = i
      BY <1>0, <2>8 DEF AppendAndUnlock, Added, WorkerType
    <3> QED
      BY <2>0, <2>8, <3>1, <3>2, <3>3, WholeGrows DEF AppendAndUnlock
  <2> QED
    BY <1>2, <2>1, <2>2, <2>3, <2>4, <2>5, <2>6, <2>7, <2>8
    DEF Next, Loop, Expand, Terminated
<1> QED
  <2>1. ~Load => sources' = sources
    BY DEF Next, Loop, Expand, Terminated, SkipBlank, StartFetch, ReadForFeed,
           AppendFeed, Return, Fetch, LockAndRead, AppendAndUnlock, vars
  <2> QED
    BY <1>2, <1>s, <2>1

LEMMA Invariant == Spec => []Sound
<1>1. Sound /\ [Next]_vars => Sound'
  BY TypesStep, OwnStep, ApartStep, WholeStep DEF Sound
<1> QED
  BY <1>1, InitSound, PTL DEF Spec

-----------------------------------------------------------------------------
(* The theorems. *)

\* The type invariant of the expansion, for lists of any length, and that only the
\* holder of mu is between its read and its write.
THEOREM ExpansionTypes == Spec => []TypeOK
<1>1. Types => TypeOK
  <2> SUFFICES ASSUME Types PROVE TypeOK
    OBVIOUS
  <2>1. sources \in Lists(MaxSources)
    <3>1. sources \in [1..Len(sources) -> Kinds] /\ Len(sources) \in 0..MaxSources
      BY DEF Types, LoopType
    <3> QED
      BY <3>1 DEF Lists
  <2>2. next \in 1..(MaxSources + 1)
    BY ExpansionAssumption DEF ExpansionAssumption, Types, LoopType
  <2>3. lock # 0 => worker[lock] = "append"
    BY DEF Types, Holder, Index
  <2> QED
    BY <2>1, <2>2, <2>3
    DEF TypeOK, Types, LoopType, WorkerType, Holder, SliceType, Cells
<1> QED
  BY <1>1, Invariant, PTL DEF Sound

\* A sequence without repetition is as long as it has elements.
LEMMA OnceCount ==
  ASSUME NEW S, NEW s \in Seq(S), Once(s)
  PROVE  Cardinality(ElementsOf(s)) = Len(s)
<1>1. Len(s) \in Nat /\ DOMAIN s = 1..Len(s)
  OBVIOUS
<1>2. s \in [1..Len(s) -> ElementsOf(s)]
  BY <1>1 DEF ElementsOf
<1>3. s \in Bijection(1..Len(s), ElementsOf(s))
  BY <1>1, <1>2, Fun_IsBij DEF Once, ElementsOf
<1>4. ExistsBijection(1..Len(s), ElementsOf(s))
  BY <1>3 DEF ExistsBijection
<1> QED
  BY <1>1, <1>4, FS_CountingElements

\* ExpandSources returns every source once, in whatever order the sublists arrive
\* and whichever fail, for any list in which no feed follows a sublist.
THEOREM ExpansionComplete == Spec => []CompleteUnlessMixed
<1>1. Sound => CompleteUnlessMixed
  <2> SUFFICES ASSUME Sound, main = "returned", ~FeedAfterSublist PROVE Complete
    BY DEF CompleteUnlessMixed
  <2>0. Types /\ Own /\ Gathered
    BY DEF Sound, Whole
  <2>1. next > Len(sources) /\ AllSettled
    BY <2>0 DEF Types, Started
  <2>2. expanded \in Seq(Cells) /\ \A i \in Index : items[i] \in Seq(Entries)
    BY <2>0 DEF Types, SliceType
  <2>3. ASSUME NEW i \in Index, items[i] # <<>> PROVE Added(i)
    BY <2>0, <2>1, <2>3 DEF Own, Added, AllSettled
  <2>4. ASSUME NEW i \in Index, NEW l \in 1..Len(items[i]) PROVE Added(i)
    <3>1. items[i] # <<>>
      BY <2>2, <2>4
    <3> QED
      BY <2>3, <3>1
  <2>5. \A e : e \in Contributed <=>
           \E i \in Index : \E l \in 1..Len(items[i]) : e = items[i][l]
    BY <2>2 DEF Contributed, ElementsOf
  <2>6. \A e : e \in ElementsOf(expanded) <=> \E k \in 1..Len(expanded) : e = expanded[k]
    BY <2>2 DEF ElementsOf
  <2>7. ElementsOf(expanded) = Contributed
    <3>1. ASSUME NEW k \in 1..Len(expanded) PROVE expanded[k] \in Contributed
      BY <2>0, <2>5 DEF Gathered
    <3>2. ASSUME NEW i \in Index, NEW l \in 1..Len(items[i])
          PROVE  items[i][l] \in ElementsOf(expanded)
      BY <2>0, <2>4, <2>6 DEF Gathered
    <3> QED
      BY <2>5, <2>6, <3>1, <3>2
  <2>8. Cardinality(ElementsOf(expanded)) = Len(expanded)
    BY <2>0, <2>2, OnceCount DEF Gathered
  <2> QED
    BY <2>7, <2>8 DEF Complete
<1> QED
  BY <1>1, Invariant, PTL
=============================================================================
