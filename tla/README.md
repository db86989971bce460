# TLA+ models of LatinaSub

LatinaSub gathers proxy nodes from subscription feeds, tests each of them in an
in-process sing-box, and publishes the ones that work. This directory holds
TLA+ models of its concurrent, persistent and order-dependent parts and of the
translations between them, the TLC configurations that check them on small
instances, and TLAPS proofs of the main results for all sizes.

Contents: [1 The system](#1-the-system) ·
[2 Modules and how they correspond to the code](#2-modules-and-how-they-correspond-to-the-code) ·
[3 What is checked](#3-what-is-checked) · [4 What is proved](#4-what-is-proved) ·
[5 Where code and documentation disagree](#5-where-code-and-documentation-disagree) ·
[6 What is not modelled](#6-what-is-not-modelled) · [7 Plan](#7-plan)

## 1 The system

One run of `cmd/latinasub/main.go` is one pass of the pipeline; a scheduled
workflow starts the program again and commits the blacklist in between.

    main ── Load ──> Blacklist <──────────── HasNode / AddNode ─────────┐
      │                  ^ Save                                         │
      └─> Pipeline.Execute                                              │
            ├─ Provider: LoadSublistFromFile, ExpandSources             │
            │            GatherFromSources ─> DeduplicateNodes          │
            ├─ filter by Blacklist                                      │
            ├─ Tester.TestAll ─> one goroutine per node: TestNode ──────┘
            │        └─ per mode: GetFreePort ─> Runner.Run ─> release
            ├─ collect accounts up to MaxNodes
            ├─ Exporter.ExportAll (four files)
            ├─ Database.InitSchema, SaveBatch
            └─ Blacklist.Save, summary
      Notifier: heartbeat goroutine, reads the counters of the Pipeline

| Component | State | Operations | What is hard about it | What makes it correct |
|---|---|---|---|---|
| Verification pool, `internal/sandbox/tester.go` | channel `sem`, counter `passed`, wait group, `t.results`, per node: mode, outcome | `TestAll`, `TestNode` | one goroutine per node, a limit read before a blocking send, cancellation inside a `select`, recovered panics, deferred calls | slots add up; bounded overshoot; results complete when it returns; only nodes found dead are blacklisted; it returns |
| Port allocator, `pkg/netutil/port.go` | map `allocatedPorts` with times | `GetFreePort`, release | expiry races a test that still runs; release deletes by key; a panic leaks an entry | no two tests have one port; leaks recover |
| Blacklist, `internal/blacklist` | set in memory, file, temporary file | `Load`, `Add`, `Save` | crashes and failing calls between write, flush, rename and the fallback | the file is replaced whole, or removed in the fallback; nothing else is lost; no torn line |
| Node identity, `hasher.go`, `decoder.go` | none | `HashNode`, `NodeFingerprint`, `DeduplicateNodes` | two keys over one node, normalised differently | first of each kept; duplicates share a hash |
| Source list, `internal/provider/provider.go` | slice `expanded`, mutex | `LoadSublistFromFile`, `ExpandSources` | appends by goroutines and by the loop | every source once; it returns |
| Scraper, same file | `sem`, statistics, URLs under `mu` | `GatherFromSources` | nested lists within a slot, panics | every line once; every enabled URL fetched; it returns |
| Files and table, `internal/storage` | four files, one table | `ExportAll`, `InitSchema`, `SaveBatch` | failures half way, lost answer to a commit | one whole batch; the summary tells the truth |
| Pipeline, `internal/service/pipeline.go` | phase of the run, counters, accounts | `Execute` | state read in one phase and used in another; end of the process between two persistent effects | accounts are verified ones; nothing listed is tested again; numbers add up |
| Notifier, `internal/notifier` | ticker goroutine, channel `done`; the counters it reads | heartbeat, alerts, summary | three loads against three stores; a `select` with several branches ready; a stop that does not wait | tested nodes in a heartbeat come with the final numbers; summary, alerts, files and table agree; the goroutine ends |
| Subscription decoder, `decoder.go`, `types.go` | none | `DecodeBase64Safe`, `SplitLines`, `ExtractProxyURLs` | one protocol's prefix ends another's; padding and two alphabets | every link on a line of its own comes through whole |
| Configuration builder, `config_builder.go` | none | `BuildSingboxConfig` | names fall back to the server, and a mode replaces server or names | a mode's verdict is about the node itself |
| Runner, enricher, `runner.go`, `enricher.go` | one `geo` over all answers | `Run`, `EnrichNode`, `FormatRemark` | what one answer leaves behind for the next; remarks written twice | no verdict without a whole answer and a country; an account names its one mode |
| Configuration, `config/config.go` | none | `LoadConfig` | each consumer has its own fallback | no pool without a slot; testing does not stop short of what is collected |
| Logging | none | — | — | — |

`PROJECT.json` lists the hazards at their lines, each with the properties that
would notice it going wrong.

## 2 Modules and how they correspond to the code

Each component has a module. Its variables are the fields, channels and locals
another goroutine (or the next run) can observe; an action is one step up to
the next such observation. `CONSTANT Faults` selects the failures an
environment may produce, so that a run can ask about each. Operators marked
`Bug:` are never part of a specification: each is a plausible mistake used to
see that a property would notice it.

**Tester** (`MCTester`, `TesterProofs`). `dispatcher` and `next` are the loop of
`TestAll`: `CheckLimit` (the test of `passed`), `DispatchWithSlot` and
`DispatchAfterCancel` (the two cases of the `select`; the `break` leaves only
the `select`), `Return` (`wg.Wait`). `worker[n]` is the goroutine of candidate
`n`: `SkipListed`/`StartModes` (the blacklist lookup), per mode `AbortNode`
(ctx done), `SkipMode` (no port or configuration), `StartProbe` and `EndProbe`,
then `MarkDead` or `StoreResult`, `CountResult`, and `Release`, the deferred
receive. `PanicAndRecover` may take place anywhere in a test. `unslotted` and
`outcome` are history. What happens on the network is a choice of outcomes.

**VerificationPool** is what `TestAll` promises, without goroutines, channel or
counter: candidates wait, are in test, and are settled once. `Tester` implements
it (`ImplementsPool`), and `Pipeline` uses its actions in place of the detail.

**PortAllocator** (`MCPortAllocator`, `PortAllocatorProofs`). `reserved` and
`age` are the map, `state`, `port` and `held` the tests. Every operation holds
`portMu` throughout and is one action. Time is discrete: `Tick` ages
everything, and does not pass beyond `MaxStart` (allocation to bind) or
`MaxHold` (allocation to release), the test timeout. The listener opened to find
a port is closed before `GetFreePort` returns.

**BlacklistStore** (`MCBlacklistStore`, `BlacklistStoreProofs`). One action per
system call of `Load` and `Save`, so that a crash can fall between any two. A
file is its set of lines. A crash during a write may leave one cut off line.

**Storage**, a part of `Reports`. `ExportAll` file by file in two steps (truncate,
fill), `SaveBatch` statement by statement within a transaction. A file is known
by the batch it came from, a row by its batch and number.

**Reports** (`ReportsProofs`) composes Storage with what the operator is told.
`phase` is where `Execute` is; `CountCandidates`, `CountActive` and
`CountTested` are its stores to the atomics, in the order of the code. A failing
step of the exporter or of the database and the alert it causes are one action
(`AlertExport`, `AlertSchema`, `AlertSave`): the call returns the error to
`Execute`, which sends the alert at once. `Report` is the summary,
`StopHeartbeat` the deferred call that closes `done` and does not wait.
The goroutine is `Tick`, `LoadCounter` (one load at a time), `SendHeartbeat` and
`EndHeartbeat`. `Tick` is possible whenever the goroutine is at its `select`,
also after it was stopped. The counters are dropped when the process ends.

**SourceExpansion** (`ExpansionProofs`). A document is what `parseSublistJSON` makes of it: the
empty list for its error, or a list that has a URL. The append to `expanded` is a read of the slice
(`ReadForFeed`, `LockAndRead`) and a write (`AppendFeed`, `AppendAndUnlock`).
If another goroutine has written in between, the result is any that Go's slices
can leave behind, element by element (`RacedAppend`): own cells, those of the
other, or one nobody wrote where length and array do not match. Torn reads of
the slice header that would end the process are not modelled.

**Gathering** (`MCGathering`, `GatheringProofs`). Like `Tester` a loop with slots, here one per URL;
`pending` counts the URLs of a nested list, which are fetched in the slot of
the outer one. `Record` is the critical section under `mu`.

**NodeIdentity** (`TranslationProofs`). The two keys over groups of fields that the
code treats alike; a text field is a word with its case and its blanks, so that
lowering and trimming do what `strings.ToLower` and `strings.TrimSpace` do.
The loop of `DeduplicateNodes` is `Keep` and `Drop`.

The pure translations are operators, each beside a definition of what it should
give:

- **SubscriptionDecoder**: a text is a sequence of pieces, with "vme" and "ss"
  two of them so that `vmess://` ends in `ss://` here too. A coded body is its
  alphabet, the length of its last group and its padding, which is all that the
  four encodings tried by `DecodeBase64Safe` look at. The reference
  (`LinksAreThere`) finds the links by their positions, without splitting
  or trimming.
- **OutboundConfig** (`TranslationProofs`): the outbound of a node in a mode,
  as far as server, server name, transport and Host header go; `""` is an empty field, `Absent` a
  key that is not set.
- **Accounts**: `EnrichNode`, the loop of `Execute` that clones a result once
  per mode, and `ExpandNodesByMode`, which splits by replacing in the remark.
- **Settings** (`TranslationProofs`): three numbers and their flags through
  `getEnvAsInt` and the fallbacks of `NewTester`, `TestAll`, `NewRunner` and
  `WithWorkers`. One limit is read in two units: `Dispatches` counts nodes that
  passed, `Collects` accounts, of which a node has one to three.
- **ProbeLoop**: the loop of `Run` over the endpoints, all of whose answers are
  decoded into one struct.

**MCTranslation** checks all of them: an initial state is an input of one of
them, or a list of nodes for the loop of `DeduplicateNodes`.

**Pipeline** (`MCPipeline`, `PipelineProofs`) composes: it instantiates `VerificationPool` for the
verification, takes the table as a value replaced at once or not at all (which
`Storage` justifies), and goes over several runs, of which the disk alone
survives. A save of the blacklist is `SaveBlacklist` or `SaveFails`, or, where
the rename fails, `RemoveTarget` and `RenameAgain` with the phase `fallback`
between them, in which the file may be gone; `BlacklistStore` has the single
calls. `HasDb` is whether `p.db` is there: without a database `SkipDatabase` is
the only way on, as in a dry run.

## 3 What is checked

The passing runs, with what each shows:

| Run | Instance | Properties |
|---|---|---|
| `TesterFaults` | 3 candidates, two of one hash; 2 modes; 2 slots; cancellation, failing ports, panics (1.7 M states) | `SlotAccounting`: values in `sem` and workers without a slot are the live workers; `ListedWasTried`: no hash is listed by a candidate that was stopped half way (modes that were skipped or interrupted count as gone through); `ReportedAndListedHasTwin`; `UnslottedNeverReturns`; `ResultsFinal`; `ImplementsPool` |
| `TesterLimit` | 4 candidates, limit 1, 2 slots; failing configurations and panics; weakly fair | `OvershootBound`: at most `MaxNodes + Slots` reported; `CompleteCoverage`; `TestAllReturns` |
| `PortsExclusive` | 3 workers, 2 ports, `MaxHold = TTL = 2`, panics; weakly fair | `PortsExclusive`; `LeakedPortsRecover` |
| `StoreFaults` | 3 hashes, 3 runs, every call may fail, crashes anywhere | `NothingTorn`; `ReplacedAtOnce`; `KeepsStored` |
| `StorageFaults` | module `Reports`: 2 runs with batches of 2 rows; failing statements, writes, converters; lost answers; signals; crashes (263 k states) | `DbHoldsOneBatch`; `ExportedIsTrue`; `DbNeverGoesBack`; `SummaryTellsTruth`: summary, alerts, files and table of a run agree; `HeartbeatTestedFinal`: a heartbeat that shows any node tested shows the final numbers; `HeartbeatStops` |
| `ExpandLists` | every local list of up to 3 entries, sublists of up to 2; weakly fair | `TypeOK`; `CompleteUnlessMixed`; `ExpandReturns` |
| `GatherFeeds` | 3 sources with pipes, blanks, one off; 2 slots; nested lists of up to 2; panics; weakly fair | `TypeOK`; `SlotAccounting`; `EveryLineOnce`; `FetchesWhatIsEnabled`; `GatherReturns` |
| `DedupeNodes` | module `MCTranslation` (105 k states), see below | `FirstOfEachKept`; `DuplicatesShareHash`; `LinksComeThrough`; `ModesKeepTheNode`; `AccountPerMode`; `SettingsFit`; `ProbeVerdict` |
| `PipelineRuns` | 3 nodes, two of one hash; 2 modes; limit 3; 2 runs; cancellation, panics, failing saves, crashes (1.8 M states) | `SavedNotRetested`; `ServedNotListed`; `CollectsWhatPassed`; `DeadDetectedAddsUp`; `LostOnlyInFallback`: only the removal in the fallback of `Save` takes hashes off the file |

The type invariants of `Tester`, `PortAllocator`, `BlacklistStore`, `Storage`,
`Reports` and `Pipeline`, and `HeldIsReserved`, `PassedIsReported` and
`SyncedIsTrue`, are proved (section 4) and not checked again.

The inputs of `DedupeNodes`: lists of up to 3 of 24 spellings of one proxy; texts
of up to 4 of the 10 pieces, and texts of two lines with up to 2 and 3; bodies
of 4 alphabets, 3 lengths of the last group and 0 to 3 `=`; every node of 4
protocols, 3 transports, with or without TLS, over 4 hosts of which one is the
front itself; up to 2 verified nodes with 1 to 3 modes, of an organisation
that may contain the name of a mode, under a limit of 0 to 3; for each setting
a value of -1, 0, 1, 2, 50, 600, something else or nothing, and flags, for 1, 2 or 4 nodes; up to 2
answers of every sort.

Three runs (`TesterCancelHangs`, `TesterPortLists`, `GatherDefaults`) end in a
counterexample; section 5 says what of.

**Why the bounds are enough to be interesting.** In `TesterFaults` there are more
candidates than slots, so that the dispatcher blocks, and a twin hash, so that
two tests of one hash overlap; one candidate more than slots is also the least
for a goroutine to run without a slot beside two that have one. `TesterLimit`
has four candidates because the bound on the overshoot is then three and could
be exceeded. Three workers on two ports wait for a release; `MaxHold = TTL` is
the longest hold that still works. Three runs of `BlacklistStore` are a save, a
failure and a look at what came of it. In `Reports` two runs with rows are the least for files
and table of a run to be mistaken for those of another, and one candidate is
enough for progress to go from none to all. Lists of three sources have a
sublist before, between and after feeds. Two answers are the least for one to
be left behind by the other; four pieces are a link and what may be on either
side of it. The limit of `PipelineRuns` falls into the
middle of the modes of a result.

Bounds on what the code leaves open: `MaxRuns`, `MaxBatches`, `Total`,
`MaxSources`, `MaxListed`, `MaxParts`, `MaxLines`, `MaxNested`,
`MaxTotal` (candidates of a run of `Reports`),
`MaxNodes` in `NodeIdentity` (there the length of a list), and
`MaxAge`, at which ages saturate, in `PortAllocator`.

**Fairness.** Weak fairness of the dispatcher and of each goroutine: the Go
scheduler runs what is ready, and a blocked send or lock that is ready
again and again with no other party in between stays ready. Probes and fetches
end because they run under `context.WithTimeout` and the timeout of the HTTP
client. In `PortAllocator` time goes on and some worker keeps on testing, without
which no entry would be cleaned: the code cleans only in `GetFreePort`. In `Reports` the heartbeat
goroutine is scheduled (weak fairness of `LoadCounter` and of `SendHeartbeat`,
whose request times out), and `EndHeartbeat` is strongly fair: Go's `select`
chooses at random among the branches that are ready, so it cannot prefer
the ticker for ever; weak fairness would not do, since the branch is not ready
while a message is being sent. Nothing is assumed of `Execute`. Nobody
is assumed to cancel, to fail, or to crash.

**Deadlock** is checked except where the system may stop: after the last run
(`BlacklistStore`, `Reports`, `Pipeline`), and in `Tester` once a
cancellation is allowed, where a hang is what `TesterCancelHangs` is about.

## 4 What is proved

All theorems hold for every value of the constants under the named assumption of
the module; the proofs use SMT, Zenon and, for the temporal steps, LS4.

**Verification pool** (`TesterProofs`, from `TesterAssumption`). The inductive
invariant is built up in layers: the type invariant; `Shape`, which ties the
places of workers and dispatcher together (who has started, what a worker in
its last steps has behind it); `Counting`, which relates cardinalities (`sem`,
`unslotted`, live workers, `passed`, results); `Evidence`, which keeps for every listed hash and every verdict the
outcomes behind it. None of the safety properties is inductive by itself: that
the overshoot is bounded, for example, needs that every result not yet counted
belongs to a live worker, and that every live worker has a slot. On them rest
`TypeCorrect`, `SlotsAccounted`, `OvershootBounded`, `PassedReported`,
`UnslottedNeverReturn`, `CoverageComplete`, `ResultsAreFinal`, `ListedTried`,
`TwinOnly`, and `Refinement`: every behaviour of `TestAll` is one of
`VerificationPool`, for any number of candidates and slots.

**Port allocator** (`PortAllocatorProofs`). `PortTypes`, and `Exclusive`: if
`MaxHold <= TTL` then ports are exclusive and what a test holds is reserved by
it. The hypothesis is exactly what the code does not enforce (section 5).

**Blacklist** (`BlacklistStoreProofs`). The invariant says what the temporary
file is at each stage of a save (`TmpIsSet`), where a torn line can be
(`NoTornLine`), and that a save comes after a load (`LoadDecided`).
`StoreTypes`, `NeverTorn`, `AtomicReplace` and `StoredIsKept` hold whatever
fails. `SavedForGood` follows the promise through any number of runs, under the
hypothesis that files can be opened, read and renamed.

**Storage** (first part of `ReportsProofs`). `StorageTypes`, `OneBatch`, `NeverGoesBack` and
`ExportTold`. The invariant `TxIsPrefix` says that the open transaction holds
exactly the rows inserted so far; `FilesFollow` adds which plain files hold the
batch of this run at each stage of the export.

**Reports** (second part of `ReportsProofs`, from `ReportAssumption`). `StoresAsPromised`: with
the heartbeat, the counters and the alerts hidden, every behaviour is one of
`Storage`, so that `StorageHolds` carries its theorems over. `ReportTypes`,
`SummaryTrue` and `HeartbeatsTestedFinal` rest on two invariants. `BeatFollows`
says what each prefix of the loads may have seen: once a positive `tested` was
loaded the run is past all its stores, so that what is loaded after it is final;
with any other order of the loads this fails. `TellsFollow` says for each phase
which alerts go with which outcome of files and table.

**Scraper** (`GatheringProofs`, from `GatheringAssumption`). The invariant has four
parts besides the types: `Slots` (the values in `sem` are the live goroutines);
`Placed` (exactly the wanted URLs the loop has passed were started); `Ended`
(a returned loop is exhausted and has no live goroutine); and `Accounted`, which
strengthens `EveryLineOnce` to hold at all times by adding the lines a goroutine
has received but not yet recorded. From it `GatherTypes`, `SlotsGathered`,
`LinesOnce` and `EnabledFetched`, for any sources, slots, bodies and panics. The
assumption says that the parameters are lists of sources of bounded length.

**Translations** (`TranslationProofs`, from `IdentityAssumption` and `HostAssumption`). The invariant
`Deduped` says that the nodes kept are the first ones of their fingerprints
among those looked at, in order, and `seen` their fingerprints; it gives
`FirstKept` and, with a lemma that what `HashNode` trims and lowers beyond
`NodeFingerprint` only joins nodes, `DuplicatesBlacklistedTogether`, for lists of
any length. `ModesAreAboutTheNode` and `SettingsAlwaysFit` state for every node
and every setting what `ModesKeepTheNode` and `SettingsFit` check for the
inputs of `MCTranslation`. `VerdictOfAny` and `AccountsOfAny` do the same for any number
of answers and for results and limits of any size; organisations are there any
one-word names, since `SanitizeOrg` strips the commas a remark is cut at.
Both are about folds, and need induction over the elements. A theorem with an operator for a
parameter cannot be used, so the induction is stated about sets
(`InductionOnSets`: a set of naturals with 0 that contains k with k - 1), and the
predicate is the set of the numbers it holds for. That `FoldLeft` and `FlattenSeq`
have a value at all is part of the proofs (`FoldExists`, `FlatExists`), since the
library defines them with CHOOSE. `EverySpec(L)` is the specification of
`MCTranslation` over all those inputs, with the organisations named by `L`; of it
`ModesKept`, `SettingsFitEverywhere`, `AccountsExpanded`, `VerdictsGiven` and
`LinksFound` state the properties of the run, whose own inputs are among them
(`InputsAmongThem`, `RunAmongThem`).

`LinksFound` rests on `LinksOfAny`, for texts of any length, which relates two ways
of seeing a text. The code cuts it, piece by piece, and searches each part;
`LinksAreThere` speaks of positions and never cuts. Between them is `AreCuts`: the
parts have first positions in the text, and what is between one and the next is the
part and a separator. It is kept by each step of the fold, at a separator
(`CutHere`) and elsewhere (`CutLater`), so `PartsHaveCuts`; then a part is the
stretch of each of its positions (`StretchOfPart`). Trimming only moves the two ends
(`TrimPiece`), and the first protocol that is found is where a link begins
(`FirstOfFirst`: "ss" is looked for last, and what is inside a longer one is seen
only when that was not found). So a part has a link if and only if a link begins in it,
and then it is that one if it is the only one (`LinkOfPart`). What is empty is dropped twice in the code and
once in the proof (`LinksOfParts`); where the others are then is counted (`NonEmptyPlaces`),
and so are the stretches (`StretchesUpTo`). `BodiesRead` adds base64: the two tries decode every
body in one alphabet with no more padding than it needs.

**Pipeline** (`PipelineProofs`, from `PipelineAssumption`). `PipelineTypes`, and, if
loads succeed (`"load" \notin Faults`), `NeverRetested` and
`HashesLostOnlyInFallback`, for any number of nodes and runs. The invariant `DiskIsKnown` carries both: past the load
the set in memory covers the file (and goes on to when the fallback has removed
it), past the filter no candidate that may still be
tested is on the file, and nothing is in test when the file changes. The
hypothesis is needed: a load that fails half way is section 5's case of
`KeepsStored`.
The other three theorems need no such hypothesis and rest on `Ledger` and
`Progress`. `Ledger` says that a candidate is listed only through a dead node of
its hash (`Twins`), that the set has grown by the hashes found dead since
`initCount` was taken (`Counted`), that the results are the nodes that passed, each once
(`Results`), and that a synced table holds the accounts (`Stored`). `Progress` says that an account
is collected exactly if the two nested loops have passed it. They give
`DeadAddUp`, `NothingListedServed`, and, for `MaxNodes > 0`,
`CollectionComplete`; section 5 has the case without a limit.

**Source list** (`ExpansionProofs`, from `ExpansionAssumption`). `Types` ties `lock` to the goroutine
that is between its read and its write, and goroutines to the sublists behind
the loop. `Own` says that the items of an entry carry its number, so that no two
entries contribute the same item, and when it has any. Where no feed follows a sublist
no goroutine lives while the loop appends, so that what an append has read is
still the slice when it writes (`Apart`); hence the result is at all times the
items of the entries added so far, each once (`Whole`). It gives `ExpansionTypes` and
`ExpansionComplete`, for lists of any length.

**Only model-checked:** everything about liveness (`TestAllReturns`,
`LeakedPortsRecover`, `ExpandReturns`, `GatherReturns`, `HeartbeatStops`), which
is beyond the prover.
`HeldIsReserved` is a part of what `Exclusive` proves,
`SyncedIsTrue` of `OneBatch`.

## 5 Where code and documentation disagree

Shown by a run:

- `TesterCancelHangs`. `break` in the `select` of `TestAll` (tester.go:216) does
  not leave the loop. After a signal every remaining candidate gets a goroutine
  without a slot; each receives from `sem` when it ends; there are more receives
  than sends and `wg.Wait` never returns. main.go:45 says "shutting down
  gracefully". `UnslottedNeverReturns` is proved: once one such goroutine has
  started the run cannot end.
- `TesterPortLists`. A node all of whose modes were skipped (tester.go:118) is
  blacklisted by "All modes failed" (tester.go:149) without having been probed.
  With cancellation in place of the failing port the same property fails for a
  node whose last probe was interrupted.
- `GatherDefaults`. The fallback sources (pipeline.go:83) are not `Enabled`, and
  `GatherFromSources` passes over them.

Met while modelling, and kept out of the passing properties by a condition that
names them:

- `PortsExclusive` needs `MaxHold <= TTL`. A test timeout above 30 s lets a
  reservation expire under its test, and `ReleasePort` (port.go:67) then
  deletes that of the next one.
- `ReplacedAtOnce` and `KeepsStored` exempt the fallback of `Save`
  (blacklist.go:215), which removes the target before it renames: a crash there
  leaves no blacklist, and so does a second rename that fails.
  `LostOnlyInFallback` allows just that removal and nothing else, although
  blacklist.go:163 says that `Save` writes "atomically".
  `KeepsStored` also exempts a run whose `Load` failed half
  way: main.go:52 says it starts with an empty blacklist, in fact it starts with
  a part, and saves that.
- `ExportedIsTrue` speaks of the plain files only. A configuration that cannot be
  generated is logged (file_exporter.go:66), `ExportAll` returns nil and the file
  of an earlier run stays.
- `CompleteUnlessMixed` exempts lists in which a feed follows a sublist: the
  append of the loop (provider.go:139) does not take the mutex. The bundled
  `resources/sublist.json` lists sublists only.
- Entries of a remote sublist are not expanded again (provider.go:135), although
  provider.go:91 says "recursively".
- `DuplicatesShareHash` exempts nodes that differ in `Method`, which the
  fingerprint leaves out (decoder.go:133) and the hash includes.
- `CollectsWhatPassed` is checked for a positive limit. With `MAX_NODES=0` the tester
  has no limit while the collection (pipeline.go:185) stops after one account.
- types.go:8 of the notifier calls the statistics "live telemetry". The counters
  are stored after `TestAll` has returned (pipeline.go:199): during the
  verification the heartbeat reports nothing tested. `HeartbeatTestedFinal` says
  what holds of a heartbeat that does show some tested. One that shows none may
  hold numbers of two phases, such as no candidates, loaded before the filter, and
  accounts, loaded after the verification.
- `HeartbeatStops` promises that the goroutine ends, not when: the stop does not
  wait, and `select` may choose the ticker once more, so a heartbeat may follow the
  summary. Errors of sending are ignored by every caller.
- `RunSummary.DatabaseSynced` may be false over a table that has changed, when the
  answer to the commit is lost; `SummaryTellsTruth` states the direction that
  holds.
- `LinksComeThrough` is about links that have a stretch between separators to
  themselves. The separators are `,` and `|` as well, so a link with
  `alpn=h2,http/1.1` is cut there; of two links on a line one comes
  through. Bodies that mix both alphabets are exempt: they are not decoded,
  although decoder.go:13 says "mixed formats".
- `ModesKeepTheNode` exempts nodes without TLS and websocket: their SNI mode is
  the direct mode over again. The Host header falls back to the server and
  not to the SNI.
- A node whose remark is `direct`, `block` or `dns-out` has the tag of a fixed
  outbound (config_builder.go:143).
- `ProbeVerdict` is exact, and permits what the code does: with several endpoints
  the country of a verdict may be left over from a 200 whose body broke off
  (runner.go:102), and an answer without a country then makes a verdict. With
  the one endpoint of config.go:56 this cannot happen.
- `MAX_NODES` is two limits. README.md:65 says "Maximum verified active nodes to
  collect", config.go:62 "Maximum number of verified nodes to save". The testing
  stops at so many passed nodes (tester.go:205), the collection at so many
  accounts, one for each mode of a node (pipeline.go:185): with three modes each a
  limit of 500 saves the accounts of 167 nodes. `SettingsFit` does not equate them:
  it says that the limit on nodes never stops the testing before there are accounts
  enough.
- `SettingsFit` holds for zero and negative settings and does not call them
  sensible. With `TEST_TIMEOUT_SECONDS=0` the HTTP client waits 5 s under a
  context that is done at once, so every probe fails. The documented 100 workers are 50 in the workflow (hunt.yml:60).

## 6 What is not modelled

- The network: a probe is an outcome, a failing configuration an event, and the
  branches of `BuildSingboxConfig` for protocols the parser never makes, its
  credentials, ciphers and fixed parts are left out, as are the extended probes
  of `runner.go`, which only add fields to a result.
- `ParseNodes` hands every link to a parser of another module and drops what that
  refuses; `SanitizeOrg`, flags and regions are tables.
- Numbers whose seconds overflow a `time.Duration`; the texts and switches of
  `config.go`, which are constants of the modules; `logger.go`.
- The wording of messages and the documents sent with the summary, and that
  Telegram may refuse a message, which no caller looks at. The noop notifier does
  nothing.
- `Prune` and `Clear` of the blacklist, `Count`, `GetAll` and `Ping` of the
  database, `Reset` of the tester: not called in a run.
- Statistics by country and protocol, latencies and all wording.
- Loss of cached writes in a power failure: the code does not sync.

## 7 Plan

Written first, most important first: `Tester` with `VerificationPool`;
`PortAllocator`; `BlacklistStore`; `Storage`; `SourceExpansion`; `Gathering`;
`NodeIdentity`; `Pipeline`. Then `Reports` over `Storage`, and the translations:
`SubscriptionDecoder`, `OutboundConfig`, `Accounts`, `Settings`, `ProbeLoop`. Proofs
followed in the same order.

Left:

1. Proofs. That the actions `Pipeline` takes for the verification, the steps of its save and a table that is replaced at once are
   what `Tester`, `BlacklistStore` and `Storage` do is proved or checked for each of them; one
   theorem over the composed modules would join them.
2. Models. What a run without accounts should leave behind (pipeline.go:210)
   needs a statement of intent first; at present it leaves files and table as
   they were.
