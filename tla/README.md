# Formal models of the npm proxy

TLA+ models of the proxy in `src/`: an HTTP proxy that npm clients use as their
registry. It passes every request on, except that of a tarball: such a package
is examined in three layers, and what the policy engine makes of the signals
(allow, warn or block) decides whether the client gets it. TLC checks the models
on small instances, and TLAPS proves the theorems for every instance.
`PROJECT.json` lists the runs, the theorems, the source lines of every
definition and, per property, a plausible slip in the code that breaks it; the
slips are the definitions commented `Slip:` in the modules.

    tlc -workers 2 -config MCProxyShared.cfg MCProxy     # a run
    tlapm ProxyProofs.tla                                # a module of proofs

## 1. The system

| component | source | state | operations |
|---|---|---|---|
| request handler | `internal/proxy/handler.go` | per request: Layer 1 result, decision, answer | `ServeHTTP`, `handleTarball` with an early return per failure, `respondBlock`, `respondFromCache`, `emitEvent` |
| Layer 1 | `handler.go:133-173`, `internal/analyzer/layer1/` | one shared `signal.Result`, the errgroup's context | OSV, typosquat, metadata, anomaly and license checks, concurrently |
| OSV checker | `layer1/osv.go` | OSV keys in Redis, one hour | `Check`: cache, query, cache write |
| typosquat checker | `layer1/typosquatting.go`, `bktree.go` | BK-tree of popular names, list of scopes | build, `Check` |
| metadata checker | `layer1/metadata.go` | signals under a mutex | `Check` with a goroutine per maintainer and one for downloads |
| registry client | `internal/registry/client.go` | none | `getBytes` with retries and backoff, `doGet` with a size limit |
| integrity, extractor | `internal/integrity`, `internal/extractor` | file tree in memory | `Verify`, `Extract` under limits |
| post-download engine | `internal/analyzer/engine.go`, `layer2/`, `layer3/` | result, capabilities, string counts | `Analyze`: scripts, capabilities and entropy concurrently, sinks, version diff, deep check |
| combination, policy | `analyzer/combo.go`, `internal/policy` | none | `AddComboSignals`, `Decide` |
| Redis cache | `internal/cache/redis.go` | verdict keys by SHA-256 (24 h), OSV keys by name and version | get, set, list by SCAN, invalidate |
| recheck worker | `internal/recheck/worker.go` | its round | list warned entries, query OSV again, turn entries into blocks, emit |
| SIEM emitter | `internal/siem` | buffered channel, list of sinks | `New`, `Emit`, `run`, `Close` |
| process | `cmd/proxy/main.go` | | start, signal, `Shutdown` for 15 s, deferred closes |
| configuration | `internal/config` | | load, environment overrides |
| importer | `tools/import-benign` | tarballs, metadata and labels on disk | read the list, fetch with retries in goroutines behind a semaphore, write files, append a label |
| calibration | `internal/calibrate`, `tools/calibrate` | the analysed corpus, the trials | load labels, analyse in a pool of workers, split, search, Pareto table, write the configuration |
| other tools | `tools/import-datadog`, `tools/gen-top10k` | one output file | sequential, offline |

How they interact. Each request is a goroutine of `net/http`. It starts five
goroutines for Layer 1 that append to one slice, waits for them, downloads,
looks the digest up in Redis, analyses (two goroutines over one file map; the
previous version is downloaded on demand), stores the verdict, emits an event and
answers. The recheck worker is one more goroutine for the life of the process,
which shares the Redis keys, the OSV checker and the emitter with all requests and
is synchronised with nothing. The emitter's goroutine drains a channel into
syslog and webhook. `main` ends all this on a signal. The tools run offline: the
importer fills a directory, the calibration reads it, runs the proxy's detectors
over it and replays what they found through the proxy's policy engine. Nothing but
the files connects the two.

What is hard about it:

- handler and worker read, decide and write the same Redis keys with other steps
  in between; entries are keyed by digest, but verdicts also hang on the name;
- five unlocked appends to one slice, and a cancellation shared by detectors that
  have nothing to do with each other;
- every call can fail, each failure being handled on its own (answered, dropped, or
  taken for "nothing found");
- the order of map iteration decides in which order files are scanned, while one
  scan stops early and one verdict is cached for all later requests;
- deadlines within deadlines: client, analysis 15 s, deep check 8 s, retries;
- the channel is closed while those who send on it may still run;
- the importer writes three files per package with no order enforced but its own, can
  die between any two writes and be run again, and may be read meanwhile;
- the search keeps the best of thousands of trials through three loops, each with
  its own idea of what the best so far is.

What makes the parts correct is said property by property in section 3. All
hazards, with their lines and the properties aimed at them, are in
`PROJECT.json`.

## 2. The modules

| module | models | composed with |
|---|---|---|
| `Verdicts` | the order allow < warn < block | |
| `Engine` | `Add`, `AddComboSignals`, `Decide` as operators on a `Result` | used by `Policy` and, per trial, by `Search` |
| `Policy` | one request's signals and its two decisions | `Engine` |
| `Proxy` | handlers, OSV checker, worker, Redis, OSV database, restarts | implements `Gate` |
| `Gate` | what clients and the SIEM are promised | |
| `Layer1` | the fan-out of one request, appends word by word | |
| `Download` | fetch, retries, integrity, extraction, Layers 2 and 3, deep check | `Semver` |
| `Semver` | previous version, patch bump | |
| `Siem` | emitter, its callers, shutdown | implements `EventFeed` |
| `EventFeed` | what the emitter promises the SIEM | |
| `Typosquat` | loading the list of popular names, `Check` stage by stage | `BKTree` for the search |
| `BKTree`, `EditDistance` | the typosquat search and its distances | each other, in `MCTyposquat` |
| `JsLex` | the scrubbing of comments and literals | |
| `Import` | runs of the importer, their files, failures and crashes | |
| `Pool` | the worker pool of the calibration | |
| `Corpus` | an analysis of the corpus while imports run | `Import` and `Pool` |
| `Search` | split, random search, coordinate descent, Pareto table | `Engine` |
| `MCParts` | the parts with liveness, one at a time | `Siem`, `Download`, `Import`, `Pool` |
| `MCAlgorithms` | the algorithms and the corpus, one at a time | `JsLex`, `Typosquat`, `Policy`, `Search`, `Corpus` |
| other `MC*` | values of the constants | |
| `Induction` | what the proofs need of induction and recursion | extended by `*Proofs` |
| `*Proofs` | theorems about the module of that name; `SearchProofs` has those of `Policy`, `ImportProofs` those of `Pool` and `Corpus`, `DownloadProofs` those of `JsLex` | |

**Proxy** has one step for each call that leaves the process, as that is where
others come in between; `pc` is the line a goroutine stands at, `pkg`, `osv` and
`decision` are its locals, `events` and `answer` what it has told the SIEM and
the client. A step includes everything the code does up to the next call:
`GetVerdict` with a hit emits the event and sets the answer, `Invalidate` takes
an entry off the round's list and deletes its OSV key. `OsvGet`, `OsvQuery` and
`OsvSet` are `OSVChecker.Check` for both of its callers. The worker reads the
list key by key, each key at a time of its own. Signals are not in this model: a
decision is any verdict between what the surviving and what the full evidence
justify (`Layer1Max`, `BytesVerdict`, `FullVerdict`). That is sound because a
detector only adds signals (`RaceOnlyLoses` in Layer1) and because more signals
never make a verdict milder (`DecideMonotone`, proved in `SearchProofs`).
Failures count against `MaxFaults`; a client that goes away looks to the handler
like a failing call.

**Layer1** details one step of Proxy. A `Profile` is what the detectors look
at; each `Check` turns it into a list of rules with the code's order of tests and
early returns. `append` is the eight memory operations the compiler makes of
it: three loads, a possible `growslice`, the stores of the changed words and of
the element. An access beyond an array is undefined behaviour: `wild` records
it, and no property claims anything after it.

**Download** details three other steps of Proxy. A member of `Cases` is a
package as the registry publishes it. The two fetches share the steps of
`getBytes`, `Extract` and their give-ups; `job` says whose tarball it is. A file
is what the patterns find in it; which files are looked at, by whom, and how
the counts become signals is the code's. `ended` holds the contexts past
their deadline: a child's ends with its parent's. Deadlines may pass at any
step.

**Siem** names an event by the rank of its `Emit`. `Send` is the `select` of
`Emit`; with a buffer of 0 it needs a waiting `run`. `Offer` is the inner loop
of `run`, one sink at a time. The callers are there with as much of
their control as decides when they emit and whether a closed channel hits
them: a panic ends a request, and in the worker the process.

**Gate** knows neither cache nor worker. A request is answered once, by one of four
outcomes (bytes, a refusal by verdict, a failure, not listed), each with the
event that goes with it, and on conditions that only mention the packages and the
advisories published by then. `Proxy` implements it with `published <- everPublished`
and `asked <- pkg`: every internal step is a stutter, every answering step one of the four.

**Engine** keeps of a `Result` what the engine reads: a veto, the sum, the rules.
Scores are hundredths, so that comparisons with the thresholds are exact.

**BKTree** walks insert and search node by node. A node's place is the set of
edges above it, so a child is found by looking it up, as in the code's map.
**Typosquat** feeds it: one step per line of the list (its scope counts each time,
its bare name enters the tree once), one for `Check` up to the search, with every
early return, then the tree's own steps. Names are short sequences of letters, one
of them a capital, one a digit that looks like a letter, some of them separators.
**EditDistance** has the two tables as recursive functions of their rows; **JsLex**
has both passes, a turn of the outer loop at a time (`CommentTurn`, `StringTurn`), with their own
ideas of where a literal ends; what they are held against is `Mode`, what each character is, read off in one pass.

**Import** has a goroutine per name, `step` being the call it stands before. A file
is "torn" from the moment `os.WriteFile` truncates it until it is "whole". `pending` holds the
lines of the list a run has to do, `spawned` the last one started, and `Busy` is the
semaphore's content. A crash (`Crash`) leaves the disk as it is and forgets the rest;
`Start` reads the labels again, with or without `-refresh`. Versions may be published at any time
between two requests. Failures are of two kinds, as `httpGetBytes` has
them: those that another attempt may mend, and those that are final; `failures` counts both,
for `RunAccounted`, and bounds them.

**Pool** treats a send on an unbuffered channel as one step of its two ends. **Corpus** starts one
analysis at any moment of the import; a labelled entry gives a run if its files are whole at the
moment they are read. The labels are read in one step: an append that a reader sees in part is, to
the reader, the torn line the model has.

**Search** counts a trial as the confusion matrix of the validation runs; training runs are
evaluated too but decide nothing. Moves of a descent are enumerated in the code's
order, with `current` the weight the sweep began with and `track` the best trial so
far. Rates are integers in units of 1/`Unit`, chosen so that every quotient is exact. Which
permutation `math/rand` gives is the constant `Shuffle`; what matters is that it depends on the
draws made before.

## 3. The runs

| run | instance | shows |
|---|---|---|
| `proxy_shared` | 2 requests, worker, 1 tarball under 2 names, 1 failing call | `OsvCacheSound`, `CachedVerdictJustified`, `VetoAnswerBlocks`; `GateSpec`: `Proxy` implements `Gate` |
| `proxy_own` | 2 requests, worker, 2 packages, one oversized and one blocked by name, a restart | `AnswerJustified`, with entries that must not mix |
| `proxy_live` | as `proxy_shared` with 1 name, fair | `EveryRequestAnswered`, `DueEntryUpgraded` |
| `layer1_fan` | six packages, one to three detectors reporting | `RaceOnlyLoses`, `LoneDetectorHeard`, `MetadataComplete`, `FanOutEnds` |
| `parts` | the emitter: 2 requests, worker, 2 sinks, buffer 2, shutdown | `NoEventVanishes`, `FeedSpec`, `AbortOnlyAfterGrace`, `NobodyWaitsForSinks`, `BufferedEventOffered` |
| | an analysis: twenty packages, each at the edge of a limit or of a comparison | `TreeIsPublished`, `TreeWithinLimits`, `AnalysisOrderFree`, `DeepSignalsJustified`, `AnalysisEnds` |
| | the importer: 3 names, one listed twice and one with two versions, 2 slots, 2 attempts, 2 failures | `RunAccounted`, `ImportEnds` |
| | the pool: 3 workers and 4 entries, 1 worker and 1 entry | `EntriesAccounted`, `PoolDelivers` |
| `algorithms` | every source of up to 6 of 7 characters | `SourceScrubbed` |
| | every tree of up to 4 of 7 names | `SearchComplete`, `CloseMatchFound`, `DistancesRight` |
| | every list of up to 4 lines out of 5, seven names asked | `LookalikeReported` |
| | the scores and thresholds of `proxy.yaml`, one rule per class of rules | `VerdictNeverDrops` |
| | three corpora of 8 packages, 4 weights, 3 candidate gates (one twice), 2 random trials, 2 passes | `BestTrialSound`, `DescentsSettle`, `FrontierCovers` |
| | 2 names, 2 runs of the importer, crashes, 2 failures, one analysis at any time, one tarball that cannot be unpacked | `LabelsBacked`, `DropsExplained` |
| `proxy_stale`, `recheck_batch`, `layer1_veto`, `layer1_osv`, `download_new`, `search_split` | | a disagreement each, section 5 |

A run over several parts chooses one of them in its initial state and leaves the
variables of the others alone (`OthersStay`), so it explores the sum of their
states, not the product; each part's fairness is stated of its own steps. In
states (distinct): `algorithms` some 830,000, of which the sources are most, `parts`
some 49,000.

Why the bounds are enough to be of interest. Two requests and the worker are the
least with which two late writers meet over a third's entry. One failing call
lets each call fail with everybody else working, which reaches every error path.
`BatchSize` 1 makes `BatchFull` happen, and in `recheck_batch` keep a second entry out for good. Two requests and one upgrade make three
events against a buffer of two, so that one can be dropped. `Layer1` needs two
appending detectors for a lost append and three signals for `growslice` from an
array somebody else still writes to. `MaxRetries` is 2, as configured, and the
limits of the extractor are scaled down so that 3 files, 4 bytes each and 8 in
all can be reached and missed by one. In `proxy_shared` one name is condemned by
OSV only and the other worth a warning, so that each answers from the other's
entry; in `proxy_own` an entry under the wrong digest shows. `proxy_live` has one
name and one tarball, where a handler and the worker can undo each other's writes
most often. Names of up to four letters make every case of both distances (all three
edits, a swap, a swap across an edit); six characters make a comment in a
literal, a literal in a comment, an escaped quote and an unclosed one. Four lines make a
scope popular (three) and leave one for another name. Two attempts and two failures let a request run
out of attempts, or two names fail once each; two runs of the importer make every pair of
plain and refreshing runs, with a crash of the first at any step. Three workers for four entries
let results come in any order and one worker take two entries. In `Search` the grid has a
step of 50 so that a sweep has three values, its upper end among them; the corpora differ in whether
the best trial meets both caps, one cap or neither, and in whether a descent settles before its passes run out.

`CHECK_DEADLOCK FALSE` stands where the system does end: a decided request
(`Layer1`), an input used up (`algorithms`). `MCParts` says so itself with the step
`Stopped` of a process that has exited and of an importer nobody runs again, and `Download`
with a step `Done`, so that a deadlock of the pool or of a running import is
found; `Proxy` never stops, since its ticker does not.

**Fairness.** `Proxy`: weak fairness of each handler's steps and of the
worker's, as every call they make has a timeout (HTTP client, Redis client,
analysis context) and the scheduler is fair. Arrivals, advisories, expiry and
failures are never forced, and failures are finite. `Layer1`: weak fairness of the detectors and
of the handler. `Download`: of `AnalysisStep` only, so that `AnalysisEnds` does not
rest on a deadline. `Siem`: of handlers and `main`, and none of the sinks, since a
syslog connection has no write deadline; `BufferedEventOffered` assumes
it as an explicit antecedent (`SinksReturn`), true of webhook (5 s) and stderr.
`Import`: of the goroutines, the spawning loop and the final report, as every request has a
timeout; nothing makes anyone run the tool, and no crash is forced or forbidden. `Pool`: of every
channel operation and of `Runner.Run`, which has no step that waits for anything but the CPU and the disk.
`DueEntryUpgraded` needs no more than this: in the code the recheck's lost race
against a handler's stale answer is lost again only if another handler queried
OSV before the advisory, and those are finitely many.

## 4. The proofs

TLAPS checks every step; the only assumptions are the named `ASSUME`s of
`Proxy` (`PackageAssumption`, `ParameterAssumption`), `Engine`
(`ThresholdAssumption`), `Policy` (`SignalAssumption`), `Siem` (`EmitterAssumption`),
`Layer1` (`ProfileAssumption`), `Download` (`LimitsAssumption`, `CaseAssumption`), `Search`
(`SearchAssumption`, `WeightAssumption`, `CorpusAssumption`), `BKTree` and `Import`, which TLC
evaluates in the runs. They say what the constants are (numbers, finite sets, records with
these fields), that limits are ordered, and for `BKTree` that its distance is a metric, which
`TyposquatProofs` proves of the distance the code uses.

- `SearchProofs!DecideMonotone`: a result with at least the veto, the sum and the
  rules of another is decided at least as strictly. By cases on the
  thresholds; categories are the image of the rules, so more rules give no fewer.
  `TypeAndFloor` and `NeverDrops` follow: the inductive part is that the verdict is
  a floor for a decision on the *current* signals, as the verdict lags behind.
  `CombosComplete`: one pass of `AddComboSignals` is enough, although the rules it
  adds carry prefixes it tests itself.
- `ProxyProofs!TypeCorrect`: type correctness. The type invariant includes that a
  caller about to write the OSV cache holds a real answer; without it the cache's
  type is not inductive.
- `ProxyProofs!OsvSound`: positive OSV answers go back to advisories. `OsvInv` adds
  `osvDB \subseteq everPublished`.
- `ProxyProofs!CacheJustified`: cached verdicts are justified. Not inductive by
  itself, since a writer uses what it read long before. `EvidenceInv` adds
  `HandsBacked`: whatever a handler has decided and whatever the worker has listed
  or holds is still justified; this survives because `everPublished` only grows.
- `ProxyProofs!AnswersSafe`, `VetoBlocks`, `EventsFaithful`: answers are justified, a heard
  veto blocks, and the event says what the client was told. `ReplyInv` describes each request by
  the step it is at: nothing sent before an answer, the matching pair at `reply`.
- `ProxyProofs!GateKept`: `Spec => GateSpec`, the refinement. Each step of `Proxy` is shown to be one
  of `Gate`'s or to leave its variables alone, from the two invariants above; the
  answering steps need `CacheJustified` for what the cache says and `HandsBacked`
  for what the handler has decided.
- `SiemProofs!TypeCorrect`, `AbortsExplained` (`GraceInv`: the channel is closed only
  after Shutdown; if that did not time out, no request was active, and none can
  become active), `FeedRefined` (`OrderInv`: ranks increase from what was got through
  the event in hand to the queue; hence every step of the emitter is one of
  `EventFeed` or leaves its variables alone), `NothingVanishes`.
- `TyposquatProofs!LevenshteinIsMetric`, `DamerauAgainstLevenshtein`: what `LevAssumption` and
  `DamerauAssumption` ask of the two distances holds of the code's two tables, for words of any length. The
  tables are recursive functions of rows; that they exist and are unique is shown by a least counterexample
  (`Induction!RecursionExists`, `InductionOn`), and each cell is then known by what it is the least of (`LevCell`, `OsaCell`).
  The triangle inequality is the cell-wise `ac[i][k] <= ab[i][j] + bc[j][k]`, by induction over the sum of the
  places: the last steps of two tables together are a step of the third.
- `LevenshteinCountsEdits`, `DistancesAreEdits`: the two distances count edits. One way, an edit or a swap
  leaves a diagonal along which the table does not grow (`OneStepCosts`); the other, from the last
  cell back along the diagonal to where it was last paid for (`PaidAt`), which is the edit to make (`OneLess`).
  Hence, by induction over k, `levenshtein <= k` exactly within k edits, and `damerauLevenshtein <= 1` exactly
  for one edit or one swap. `DistancesRight` then holds of every tree and any tolerance, if the tree is searched and
  candidates are ranked by these two (`SearchesByLevenshtein`, `RanksByDamerau`), as the code does and the run does too.
- `TyposquatProofs!SearchIsComplete`: for any metric, the pruned search finds
  exactly the words within the tolerance. `TreeInv` says that an edge with distance
  d above a word means that word is at distance d from the edge's node, and that
  every node can be reached; `SearchInv` that a word not yet found has one of its
  ancestors still to visit. The triangle inequality carries it past the range
  of edges followed. `CloseIsFound`: since a Damerau step is at most two Levenshtein steps, a
  tolerance of twice the close distance loses no close match.
- `TyposquatProofs!CheckerSearches`: every step of the checker is a step of the tree's own specification or
  leaves the tree alone, so the two theorems above hold of each check too (`CheckerFinds`). `TypoTyped`:
  type correctness for any list; no scope is counted more often than lines were read (`Counted`).
- `TyposquatProofs!NoDisguisePasses`: `LookalikeReported` for any list and any names. `Stages` says which early
  return the check took, and what it had reported there; together with the invariant of the tree it is
  inductive, and each disguise is then followed through the stages: an edit or swap is at Damerau distance 1, so
  that the complete search finds it unless a look-alike was reported before; a word hung on leaves
  the popular name a segment of its own, with another one beside it. The theorem assumes
  that candidates are ranked by `damerauLevenshtein` (`RanksByDamerau`) and that the close distance
  is at least 1 and the scores of the tiers are not zero (`TiersOn`), as `configs/proxy.yaml` has them: with a score of
  zero the tier is off, and the name goes unreported by design.
- `ImportProofs!ImportTyped`, `LabelsKept`, `RunsAccounted`: for any list, any number of slots,
  attempts, failures and runs. `LabelsKept` is not inductive, because a goroutine writes the
  label long after the files. `Promise` adds `FilesOK`, what a goroutine has behind it at each step (from
  "openMeta" on its tarball is whole, at "label" both files), and `Schedule`: a name in hand belongs to
  exactly one pending line that was started, and it has a label only if some run refreshed. `CountOK` says that the
  imported and the skipped are the pending lines whose goroutine has returned, and that no request
  failed more often than there were transient failures.
- `ImportProofs!OnlyCorruptDropped`: an analysis started at any time during plain imports drops
  only what cannot be unpacked. Without -refresh every line that parses names whole files
  (`LinesOK`), and the entries loaded are such lines (`EntriesOK`), so a worker fails
  on corrupt ones only (`ReasonOK`); `HeldOK` has each entry with at most one worker, so that the dropped ones are
  counted once each (`DroppedOK`). `LabelsKeptInCorpus` carries the importer's invariant over.
- `ImportProofs!PoolAccounts`, `CorpusAccounts`: for any number of workers and entries. `PoolInv` has every entry at
  one place: not yet sent, with exactly one worker, or collected; what is collected stands at its own index of
  `ordered` or was dropped, so that the runs that are kept and the dropped ones make the corpus (`Kept` is counted by
  `KeptFacts`), and the collector stops only when the workers have nothing left to send.
  `CorpusComposes`: an analysis during imports is a run of the pool over whatever entries it loaded, and the imports are
  runs of the importer, so the theorems of the two carry over; `PoolTyped` and `CorpusTyped` are their types.
- `Layer1Proofs!TypeCorrect`, `RaceLoses`, `LoneHeard`, `MetadataWhole`: for any packages, any number
  of maintainers and any interleaving of the loads and stores of `append`. The type invariant has
  half-written headers in it: a pointer and a length that belong to different arrays are of
  their types. `RaceOnlyLoses` is not inductive: `HeapOK` says of every array, reachable or not, that it holds
  each signal at most once and only such as were added, which survives because an element is stored
  once, after its slot was chosen, and only copied from then on; `AddedOK` says how many those are from where each
  detector stands. `LoneOK` follows a single append step by step while all others are silent. `FetchOK` has what
  `metadata.Check` has gathered so far.
- `DownloadProofs!WholeTarballs`, `WithinTheLimits`, `OrderFree`, `DeepJustified`, `TypeCorrect`: for any
  packages and any limits. `ExtractOK` says that what is left to read follows upon what is unpacked, from the
  moment a body is complete, verification included; a body that was cut is torn at its end and gets no
  further. `LimitsOK` bounds the sum of the sizes kept by the count of bytes read, as a path
  that comes again is counted twice and kept once. `ScanOK` has found and still-to-scan
  make the whole, for each of the two scans and whichever file comes next; `ResultOK` says which signals are in
  the result at which step. The sums over files are folds: that they grow by what a file adds, and do not depend on
  the order, is shown by a least counterexample (`Induction!MinimalSet`), as induction theorems are out of the provers' reach.
- `DownloadProofs!Scrubbed`: `SourceScrubbed` for sources of any length. The passes and `Mode` are three lexers of their
  own, and the proof is that they agree. A turn of the first pass can only begin where the source has left comment and
  literal, or before the newline that ends a line comment (`Stops`), one of the second also within a comment, blank by
  then (`Places`); at such a position a turn writes what its places may show and leads to the next such position
  (`CommentTurnFits`, `StringTurnFits`). Within a literal both passes and `Mode` step alike, over escapes and up to where it is given
  up (`LiteralCopied`, `LiteralBlanked`), and the turns make a whole (`WrittenFits`). These go by induction from the end of the source, as the loops
  refer to what is behind them only (`BackwardInductionOn`, `BackwardRecursionExists`).
- `SearchProofs!BestSound`, `DescentsSound`, `FrontierSound`: for any corpus, caps, grid and candidate gates.
  `BestOK` carries that nothing tried scores higher than the best, `GatesOK` that every gate left
  behind had its baseline tried, and `SweepOK`, the one that took finding, that in a pass without an
  improvement every move passed over has been tried against the best trial there *now*: an improvement restarts the
  argument, and the value a sweep leaves out is that trial's own. `BestTrialSound` then follows
  from what `Score` is made of, integers that a higher catch rate always moves. `MovesFacts` has
  the order of moves, a concatenation of sweeps; `FrontierComplete` finds a dominating trial of least cost in the log,
  which is finite. `SearchTyped`: a trial that is held was logged, and it blocks above where it allows, whichever
  threshold a move changed (`HeldOK`), and the validation part comes from the corpus. The latter assumes that no two
  tarballs have the same hash and that `rand.Shuffle` exchanges places (`ShasDiffer`, `ShufflesPlaces`), as sorting by
  hash does; that each place of that order is taken is a matter of counting (`SortedMember`).

Only model-checked: all liveness properties (and anything with ENABLED), which are out of the provers' reach, and that
the conjunctions `PartsTypeOK` and `AlgTypeOK` hold while several parts share one run. Each of their conjuncts is a
theorem of its part's own specification (`SiemProofs!TypeCorrect`, `DownloadProofs!TypeCorrect`, `ImportTyped`,
`PoolTyped`, `TypoTyped`, `TypeAndFloor`, `SearchTyped`). Every other invariant and action property of the
runs is stated by a theorem. No module uses RECURSIVE.

## 5. Disagreements between code and documents

Each of these is a run that TLC refutes.

- `proxy_stale`: `worker.go:114-115` promises that the next OSV query goes to the
  network. Between the worker's delete and its `Check`, a handler that had queried
  OSV before the advisory stores its "clean", and the worker takes that.
- `layer1_veto`: `README.md:76` says a veto always blocks. An unlocked append of
  another detector can overwrite it (`signal.go:19`).
- `layer1_osv`: `handler.go:170` calls OSV errors non-fatal. The error cancels the
  errgroup's context, and with it the metadata checker's requests.
- `download_new`: `README.md:66` has `version_diff_new_exec_in_patch` report
  `child_process` appearing in a patch. A previous version without any capability
  gives a nil list, which `engine.go:147` takes for a failed fetch.

- `recheck_batch`: `proxy.yaml:92` has the worker rescan cached warn verdicts. With more of them than
  `batch_size`, each round lists the first of SCAN again and stops (`redis.go:121`), and an
  entry behind them is not rescanned as long as they stay.
- `search_split`: `search.go:67-68` says that the same corpus always splits the same way. The groups
  are a map, and one generator serves both in its order of iteration.

Others met while reading, for which there is no run:

- `proxy.yaml:90` has the category gate on warn and block, `policy/engine.go:97` and
  the README on warn only; `README.md:94` counts license as a category of its own,
  `engine.go:159` files it under metadata.
- `typosquatting.go:169-171` says that a homoglyph match still goes on to the
  combosquat and distance tests; line 180 returns.
- `README.md:162` promises stderr when the SIEM is unreachable: it stands in only if
  no sink could be built (`emitter.go:83-85`), not for a failed event.
- `README.md:98` has retroactive blocks as an event type of their own; the worker
  emits `package_verdict` with a rule of that name (`worker.go:149`).
- `README.md:160`: every verdict with its CWEs; events from cached entries have none
  (`handler.go:350-361`).
- `README.md:50`: `install_script_present_<hook>` for any hook; the rule has no
  suffix and is there only if no other pattern matched.
- `engine.go:158-159`: the deep check never blocks the request; its 8 s lie within the
  analysis's 15 s, and a slow previous version after slow scans ends in a 403 by
  timeout. A client that goes away during the analysis is recorded as
  `analysis_timeout`.
- The worker stores an upgrade before it emits: a crash in between loses the event
  (`worker.go:143`). Events still buffered when `main` returns are lost, and a worker
  that is past `SetVerdict` at shutdown meets the closed channel and panics
  (`WorkerPanic` in `Siem`).
- The previous tarball is not checked against its digest; a body beyond the limit is
  cut without an error (`client.go:251`), which `TreeIsPublished` shows to be caught
  later; an SRI of another algorithm is skipped even if there is no SHA-1
  (`shasum.go:53`).
- With several manifests, the map decides which is read (`install_scripts.go:131`);
  `AnalysisOrderFree` claims all but that.
- Two swaps are Damerau 2 and Levenshtein 4: the search with tolerance 2 misses such a
  name, although it would be a warning (`typosquatting.go:199-232`). `CloseMatchFound`
  is about close matches only.
- `typosquatting.go:113` makes a scope popular from three lines on. Names of the list whose scope has fewer
  are reported when a popular scope is near (`configs/top10k.txt` has such pairs, as @mui and @mux), while
  `typosquatting_test.go:82` and `:115` expect no signal for popular names: `LookalikeReported` claims what must be reported, not that nothing
  else is. A popular name with nothing but separators behind it is one segment and goes unreported (`typosquatting.go:300`). A popular name that contains a digit in the homoglyph table is never matched through it, and
  the scope named in a signal depends on the order of a map.
- A line of `labels.jsonl` torn by a crash makes every later run of the importer and of the calibration fail until it is
  mended by hand (`import-benign/main.go:281`, `loader.go:65`); the model has it in `Start` and `Calibrate`.
- `/` becomes `_` in file names, so "@a/b_c" and "@a_b/c" share their files, and all
  versions of a package share one metadata file; `Import` assumes distinct file names for distinct listed names. `import-datadog` appends its labels anew on
  each run and overwrites a tarball whose name and version return under another category.
- `search.go:69`: "both classes appear in both splits"; a class of 3 with a fraction of 0.3 has none in the
  validation part, as the number is rounded down. Random weights are drawn in the order of a map (`search.go:298`), so a seed
  does not fix the trials.
- `metrics.go:136`: "Catch dominates": with more than a hundred malicious runs, one more catch weighs less
  than the term for warnings may. The best trial may be
  dominated by one of equal score and fewer hard false positives, as the score has no term for these below the cap.
- `-trials 0` gives a zero trial, without weights, that is then written as the calibrated configuration (`search.go:164`).
- `runner.go:157-159` says that rules without network data keep weight zero: their weights are drawn and
  tuned like the others, only no recorded signal uses them.
- A trial's total has the combination scores of the recorded run, which the weights replace only
  rule by rule: in the proxy a changed weight never removes or adds a combination, so the replay agrees with it
  unless a tuned score of zero would have silenced the rule itself.
- `config.go:148-151`: the replacer turns every "_" of a key into a separator, so `PROXY_CACHE_REDIS_ADDR`, the example
  of the comment, names `cache.redis.addr` and not `cache.redis_addr`.
- A pre-release as latest earlier version makes `IsPatchBump` false, and the version
  diff is skipped.

## 6. Not modelled

- Payloads, wording, headers, HMAC, RFC 5424 formatting, logging: no property hangs on
  them.
- HTTP, Redis, OSV, gzip, tar, semver parsing: external; what `src/` relies on is
  modelled where it is used.
- Regular expressions and Shannon entropy: facts of a file. Time: deadlines pass at any step,
  durations are not compared.
- Configuration loading: one pass of a library before anything runs. The importer of the Datadog archive and the
  generator of the list of names: sequential, and the search of the registry with them; the list is a
  constant of `Import`. `report.go`, the printed tables and `-eval-only`: output.
- What `Runner.Run` records: a fact of the run; that it drops an entry, and why, is modelled.

## 7. Where to go from here

Modelled since the first plan: `Gate` and its refinement, the listing by SCAN order, the typosquat
stages, the importer, the pool, the search. What is left is worth its effort in this order:

1. `Download` as a refinement of `Proxy`'s fetch and analysis steps, which are its
   abstraction by description only.
2. Two listing orders at once in `recheck_batch`: Redis may rehash during a SCAN.
3. The parsing of tarball paths in the handler, and the environment overrides.
