# Wonslate: a verification project

Wonslate translates text on the machine it runs on.  A Rust library (a C dynamic library, also
linked into an MCP stdio server) decides which engine answers and keeps a translation memory and
a glossary in JSON files.  A Python sidecar process holds the neural models and answers over
HTTP.  A C# WPF application starts the sidecars and calls the library.  Python scripts, run by hand or
by a scheduled job, fetch the models, watch their upstreams, carry them to machines without a
network, and measure the engines.

This directory holds TLA+ modules translated from that code, TLC configurations that check them
on small instances, and TLAPS proofs for every value of the constants.  `PROJECT.json` lists the
runs, the mutants that show each property can fail, the source lines behind each definition,
the hazards and the disagreements between code and comments that came up.

    tlc -workers 2 -config MCTmStore_concurrent.cfg MCTmStore.tla
    tlapm TmStoreProofs.tla

## Inventory

| Component | State it keeps | Operations | Talks to | Hard part | Correct when |
|---|---|---|---|---|---|
| Translation memory (`translator-engine/src/tm/`) | index behind a RwLock, LRU cache behind a mutex, dirty counter behind a mutex, `translator_tm.json` | lookup, upsert, count a hit, flag, flush, open and warm-up | pipeline, C interface, MCP server; the file is shared with other processes | four separate critical sections per write, flush that fails half-way, crash | the cache never answers better or other than the quality rule kept; a crash loses a bounded number of writes; the file is a whole earlier state |
| Glossary (`glossary.rs`, `tm/store.rs`) | records behind a RwLock, its own dirty counter, file | machine and manual upsert, delete, pack import, query | pipeline, distillation, UI | machine against manual writes, an import that fails in the middle | a locked term is never overwritten by a machine, and no machine makes a row worse |
| Distillation worker (`distill/mod.rs`) | unbounded inbox, one thread | submit, extract, upsert terms | pipeline to glossary | not drained at shutdown | terms below the threshold never get in |
| Pipeline and router (`pipeline.rs`, `router.rs`) | none of its own | plan, privacy clamp, memory lookup, local answer, upgrade | every other Rust part | reachability cached for seconds, two paths into the upgrade | private text never leaves the machine; what is remembered was good enough |
| Engine clients (`engine/`) | none | request with busy retry, reachability probe | sidecar, ollama | deadline against promised wait | a call ends within its budget |
| Configuration (`config.rs`) | one process global | load, get | all | first call wins | the caller's settings are the ones in force |
| C interface, MCP server (`lib.rs`, `bin/wonslate-mcp.rs`) | none | `tt_*`, JSON-RPC tools, shutdown flush | UI, AI clients | two processes over one directory | what one saved the other does not erase |
| Sidecar service (`sidecar/ct2_sidecar.py`) | decode semaphore, counters of `HealthSignals`, request budget, exit flag | `POST /translate`, `/health`, retirement | engine clients | a thread per request, exceptions, exit while handlers work | slots, queue and budget are accounted for on every path |
| Models in memory (`CT2Backend`, `MadladBackend`) | dictionary of engines or one checkpoint, load lock | load, warm, reload | handlers of the service | double-checked load, reload without a lock | one load at a time, claimed once |
| Sidecar manager (`Wonslate.UI/Sidecar/`) | process handle, ownership flag, state | start, warm, observe identity, stop | service over HTTP, application exit | start and stop from different threads | no child outlives the application, a stopped state stays stopped |
| View models (`ViewModels/`) | the current call and its cancellation | translate with timeout and retry | C interface | a native call outlives its timeout | a late result is dropped |
| Voice (`Audio/`) | recorder buffers | record, recognise, translate, speak | view models | device callbacks | a recording holds its own sound only |
| Guarded download (`script/net_guard.py`) | destination, `<name>.part` with its claim, a working file per process | fetch with resumption, pin, redirect policy | fetch scripts | several processes, cut connections, an asset replaced in between | what lands under a pin is the pinned bytes; parked bytes have one resumer |
| Origin record (`script/model_origin.py`) | `wonslate-origin.json` per directory | record, read, conditional question, refresh | fetch scripts, upstream check, bundle | one file for several assets, a torn write | an etag is kept only beside the digest it describes |
| Fetch scripts (`script/fetch_*_model*.py`) | model directories | check the cache, download, unpack, verify, record | guarded download, origin record | kills between any two steps, a 304 about bytes changed by hand | success means the pinned, or current, bytes are in use |
| Upstream check and report (`script/check_model_updates.py`, `report_model_updates.py`) | baseline file, issues | probe each asset, verdict, accept, report | origin records, `gh` | some probes fail, findings change, issues are closed | an all-clear is earned; a finding can be read somewhere |
| Offline bundle and installer (`script/offline_bundle.py`, `pack_installer.py`) | archive, manifest, destination, receipt, deliverable | pack, verify, install, assemble | origin record | directories that change, rotten media, kills | an install matches its manifest and spares what it was not told to replace |
| Benchmark of a domain (`script/run_av_baseline.py`, `bench_domain_av.py`, `score_comet.py`, `sidecar_identity.py`) | evidence file per arm, sidecars started | start, measure, retry, score, report | sidecar service | ports taken by strangers, retries, rebuilds in between | no sidecar is left behind; a noise floor is of one measurement |
| Benchmark over drawn sentences (`script/bench_flores.py`) | evidence file per engine | collect, resume, copy | sidecar service | hours long, killed, resumed over another draw | draws never mix; a resumed run keeps what it does not measure |

`PROJECT.json` lists the rest (interop, scripts, tests, string heuristics) and why each is left out.

## Modules

### Translation memory

* **`TmCache`** has one operator per method of `TmCache` (cache.rs) on the pair its mutex guards:
  the map and the recency order.
* **`TmContract`** is the abstract specification: a table and a file.  A candidate improves a row
  or only counts as a use, a rejection marks a record, a save makes the file equal to the table,
  a restart makes the table equal to the file.
* **`TmStore`** is the code with its threads.  A step is one critical section:

  | Code | Actions, in program order |
  |---|---|
  | `tm::lookup` | `LookupCache`, `LookupIndex`, `CacheRow` |
  | `tm_upsert` | `UpsertIndex`, `BumpDirty`, [`StageFlush`, `CommitFlush` or `FailFlush`], `CacheRow` |
  | `tm_increment_hit` | `HitIndex`, `HitCache`, `BumpDirty`, [flush] |
  | `tm_flag_bad` | `FlagIndex`, `FlagCache`, `BumpDirty`, [flush] |
  | `tt_shutdown`, MCP `shutdown` | `FlushAll`, flush |
  | crash or exit, then `tm::init` | `Restart`, enabled in every state |

  A flush holds the read guard from `StageFlush` to the rename, so `WriteLock` keeps the index
  writers out meanwhile; readers are not kept out.  A flush error leaves the operation with an
  error (`FailFlush`): an upsert then never reaches its cache step.
* **`MCTmStore`** gives the constants values.

Data: a key stands for the content hash of text and languages; a candidate is a text and a
quality; provenance, timestamps and confidence details of a row are left out because no
operation of the memory branches on them.

### Glossary and distillation

* **`Glossary`** is `glossary_*` of the same store, and the worker thread of `distill/mod.rs` that
  shares it with the callers of the C interface:

  | Code | Actions, in program order |
  |---|---|
  | `glossary_upsert_manual`, `glossary_delete` | `Edit`, `Delete`; `BumpDirty`, [flush] |
  | `glossary_import_pack` | `BeginImport` (the whole pack is checked), then per row `OfferRow` (`glossary_upsert`, `HoldBack` keeping the row that wins), `BumpDirty`, [flush]; `EndJob` |
  | `distill::submit`, the worker's loop | `Submit`; `TakeTask` (`process_pairs` with its bar), then per pair as above |
  | `flush_all`, `flush_glossary` | `FlushAll`; `StageFlush`, `CommitFlush` or `FailFlush` |
  | crash or exit, then `open` | `Restart`: the inbox is gone, the file is read |

  A failed flush ends an import with an error, half applied; the worker ignores it and goes on to
  the next pair.  `Listed` is the choice `glossary_records` makes while it walks the hash map, as a
  recursive function over the order of the walk.  `pledge` is a history variable: for each row, the term a person
  locked and the best confidence a machine has offered since a person last touched the row.
  Frequencies and the listing's final sort are left out: nothing is decided by them.
* **`GlossaryContract`** is the abstract specification: a table and a file.  A machine adds a row or
  raises one nobody locked, under the provenance it had; a person writes and removes rows; a save
  makes the file equal to the table, a restart the table equal to the file.  No run checks it; the
  refinement is proved.
* **`MCGlossary`** gives one term, two domains, a typed entry, packs and extracted terms.

### Sidecar service

* **`SidecarService`**: one process.  `pc` follows a handler thread through `do_POST`:
  `Accept` with what the body is read as (an unreadable one is answered before the gate);
  `acquire_decode` as `EnterUngated`, or `EnterQueue`, `Grant` or `Refuse`, `LeaveQueue`,
  `StartDecode`; the engine call `Decode` with its four outcomes (text, `UnsupportedTarget`,
  `MissingDependency`, any other exception); `release_decode` as `FinishDecode` and `ReleaseSlot`;
  `count_served` as `Charge`, `LookAtBudget`, `Retire`; the write `Send`, which may find the caller
  gone.  The charge precedes the write, whether or not somebody still waits for it; `gone` counts
  the writes nobody took.  The two declared errors are charged and answered *inside* the `try`, before the slot is
  given back, a translation after it; the model keeps both orders.  `CloseLoop` and `ExitProcess`
  are the main thread; its exit kills the handlers (`daemon_threads`).  `Gate` resolves the limits
  of the command line: zero and below mean none.
* **`MCSidecarService`** gives the budgets of the command line.
* **`ModelStore`**: what the handlers share of the models.  `Ask`, `Enter`, `Test`, `Lock`, `Recheck`,
  `Load` or `LoadFails`, `Fetch`, `Use` are `_load` or `_ensure_engine` with its two tests, its lock
  and its second read of the attribute on the way out; `AskReload`, `List`, `EndListing`, `Drop` and
  the looks that follow are `reload`; `Readyz` and the report of a warm-up list what is loaded, too.
  The dictionary of CT2Backend raises when it grows under an iteration.  `Fold` is
  `resolve_source`/`resolve_target`: a region-qualified code falls back to its language, an empty
  one serves a warm-up only.  Storing an engine into the attribute is one step (CPython switches
  threads between calls, and there is none between the two).  `SidecarService` treats the engine call
  as one step with any outcome, which covers whatever `ModelStore` makes of it; the two share no
  variable.

### Models on disk

* **`Fetch`** is `net_guard.fetch` run by several processes over one destination.  A file is the
  sequence of its blocks, each named after the generation of the asset it comes from, so that a
  splice and a short file can be told from a whole one.

  | Code | Actions, in program order |
  |---|---|
  | policy, pin, working file | `Begin` |
  | claim of parked bytes | `FindPartial`, `TakePartial` (the rename), `Unclaim` |
  | the response | `NotModified`, `OpenFails`, `RefuseBareSlice`, `OpenSlice`, `OpenWhole` |
  | the body | `Read`, `StreamDies`, `Interrupt` |
  | length, digest, rename | `Truncated`, `RefuseDigest`, `Land`, `LandFails` |
  | the `finally` clause | `Describe` (the claim), `Park`, `Unparkable`, `Discard` |
  | outside | `Kill`, `Release` (upstream replaces the asset) |

  **`MCFetch`** gives the two generations different lengths.
* **`ModelOrigin`** has one operator per function of model_origin.py on the record: what it says of
  an asset, what a server may be asked with, what a write leaves of the other entries.
* **`Downloads`** is a run of one of the three fetch scripts over a model directory: the cache test of
  each family (`CachedArgos`, `CachedVoice`, `CachedMadlad`), the attempts (`Refused`, `AttemptFails`,
  `Downloaded`, `NotModified`), unpacking (`Clear`, `Unpack`, `UnpackOver`, `SkipUnpack`, `Unpacked`,
  `Move`), `Verify`, and the record in two steps (`OpenRecord` or `OpenRefresh`, `CloseRecord`) because
  it is rewritten in place.  `Kill` can come between any two; `Release` and `Tamper` are upstream and
  a person.  `net_guard.fetch` is one step here, with the outcomes `Fetch` shows it has: `parked` is
  what an attempt leaves for the next one, and a download that goes on from another release's bytes
  lands a `Splice`, which a pin refuses and nothing else does (`Landable`).  A removal or an
  extraction passes through trees of which a part is there (`tree.whole`), and the layout tests of
  the scripts may or may not notice (`tree.laid`); `cut` is a history variable: a kill has left the
  tree so.
* **`ModelUpdates`** is check_model_updates.py and report_model_updates.py: a probe per asset
  (`AskBaseline`, `AskInstalled`, `AskUnusable`), the verdict (`Conclude`), `RecordBaseline`, and the report:
  `ListIssues`, then `Quiet`, `Create`, `Comment`, `DryRun` or `GhFails`; a person closes issues meanwhile.
* **`OfflineBundle`** is offline_bundle.py and pack_installer.py: `PackBegin` to `PackClose` with a file
  read twice (for the manifest and for the archive), `Begin`, `Check`, then per file `Keep` or
  `Stage` and `Settle`, `Stamp`; `Assemble`, `Embed`, `VerifyDeliverable`, `Unwrap`.  Both directories
  change, media rot, and every command can be killed.

### Measurements

* **`Evidence`** is run_av_baseline.py with the programs it runs: start or reuse a sidecar (`Reuse`,
  `Launch`, `PollProcess`, `Probe` with sidecar_identity.py's verdict), measure (`TranslateRow`,
  `WriteEvidence`, `BenchFails` with its one retry), free the sidecars, score (`ScoreComet`), and
  `GenerateReport`.  Sidecars die or lose the port to a stranger, the library is rebuilt, the script
  is killed.  The files begin with up to `MaxPublished` runs measured before builds were recorded
  (`Published`), such as docs/evidence/av-domain-ollama-qwen.json holds, and a report reads such runs
  of other engines.  `BuildGroups` groups by the recorded id as the code does, runs without one
  together.
* **`FloresEvidence`** is bench_flores.py: `Start` with a split, a draw of sentence numbers, and with or
  without `--resume`; engine by engine and direction by direction (`First`), `Cached`, `Sampled` or
  `SampleFails` per sentence in the order of the numbers, with a rewrite of the file after each new
  one; `EndDirection`, `Copy`.  A stored sentence carries the split and the draw it was asked for (a
  history: the file stores its number only).

### Together

* **`Scripts`** composes the five modules from `Downloads` to `FloresEvidence`.  The scripts share no
  state (each works on a directory, a file or a port of its own), so the composition is a sum: one
  of them moves in a behaviour, and the variables of the others stay `None`.  It states the
  properties of each under one name per property.  **`MCScripts`** gives it values.

## Runs

| Run | Instance | Shows |
|---|---|---|
| `tm_concurrent` | 2 threads, 1 text, 2 candidates of different quality, threshold 2, 1 failed flush | `CacheNeverAhead`, `LossBounded` and the refinement of `TmContract` under every interleaving of two callers, flushes that fail and restarts at any step |
| `tm_sequential` | 1 thread, 3 texts, capacity 2, warm-up longer than the cache, threshold 1, 3 hits | the two structures of the LRU agree; with one caller the cache answers what the index keeps |
| `tm_flag` | 2 threads, 1 text | **violated**: a rejected row can go on answering |
| `glossary` | 2 callers and the worker, 1 term in 3 domains (one of them never written), threshold 1, 1 task in the inbox | locks hold through imports, distillation, flushes and restarts; no machine makes a row worse; an import accounts for its rows; a listing is the same for every walk of the map |
| `glossary_source` | 1 caller and the worker | **violated**: a pack's row can carry the source of the row it replaced |
| `sidecar_gate` | 2 requests, gate off or 1 or 2 slots, with and without a wait, budget none (given as -1), 1 or 2 | slots, queue, charges and exit announcements are accounted for on every path; a queued caller is admitted or refused, a spent budget ends the process |
| `sidecar_last_answer` | 1 request, budget 1 | **violated**: the process can exit before the last answer is written |
| `model_load` | 2 handlers, 2 pairs or one checkpoint, 2 loads | one load at a time, into an empty place, claimed once; the lock comes back |
| `model_reload` | 2 handlers | **violated**: a reload leaves a request without an engine |
| `fetch` | 2 processes, 3 attempts, generations of 2 and 3 blocks, 1 release, a public and a non-public host, pinned and not | what lands under a pin is the pinned bytes, what lands without one is whole, parked bytes have one resumer |
| `tools` | each script of `Scripts` in turn, at the bounds below | what a script reports as fetched, checked, installed, measured or stored is so |
| `flores_resume` | 2 engines, 2 directions, 2 draws, a run and one that resumes it | **violated**: a resumed collection that is killed has dropped stored samples |

Why the bounds are enough.  Races in the memory are between two operations on *one* key: keys
meet only in the cache's eviction and in the shared counter, so one key with two threads shows
the orders that matter and three keys over a capacity of two show the eviction.  `MaxHits` caps the
only counter that grows for ever, in the guards; `MaxFailures` bounds the flush errors between two
that succeed, and is 0 in `tm_sequential`, where a failed flush would leave the cache behind by
design (that case is `CacheNeverAhead`'s).  In the glossary keys meet only in the dirty counter, and
two rows of one term in the listing: one term in the generic and in one domain shows both, and a
third domain that nothing is written to shows that a listing never borrows.  A threshold of 1 makes
each write start its flush, which leaves the most states in which a flush is under way; a failed
one still leaves rows that only the index holds.  The confidences 1, 2 and 3 order typed, extracted
and packed terms, so that each can beat one and lose to another.  `MaxInbox` caps the unbounded
channel in `Submit`.  In the service one slot and two requests give a full gate with one caller
outside it, two slots a gate that never fills, and a budget of one lets two handlers overspend it.
In `model_load` a load, a drop and a second load need `MaxLoads` 2.

In `fetch` three attempts are the shortest history in which bytes are parked, taken by one of two
processes, and parked again; the two lengths tell the size in a claim from another generation's, and
one release is enough for a resumption to meet bytes of another generation.  In `tools` every
script runs at least twice, because what a run leaves behind is what the next one trips over:
3 fetches with 2 attempts, 1 release and 1 file changed by hand (`MaxRuns`, `Attempts`, `MaxReleases`,
`MaxTampers`), 2 checks with 2 changes upstream and 1 closed issue (`MaxChecks`, `MaxMoves`,
`MaxCloses`), 1 bundle of two files, 2 installs and 2 changes or rotten bytes (`MaxPacks`,
`MaxInstalls`, `MaxChanges`), 2 invocations with 2 launches, 1 rebuild and 1 mishap over one row,
after at most 2 published runs, the fewest a floor is taken over (`MaxInvocations`, `MaxLaunches`,
`MaxRebuilds`, `MaxMishaps`, `MaxPublished`), 2 collections over two draws of two splits with 1 failed
sentence (`MaxCollections`, `MaxErrors`).  All these bounds stand in guards.  The scripts make 4 attempts; an
attempt after the second differs from it in nothing.

`SYMMETRY` is used for the callers of `glossary`, the processes of `fetch`, and the generations,
builds and splits of `tools`; none of these runs checks liveness.  Deadlock is not checked in the runs of the
service and of the scripts: a process that exited, a service that has answered every request of the
instance, and a script that has used up its runs have nothing left to do.

Fairness.  `SidecarService` assumes that every handler thread that can take a step is scheduled
(weak fairness of `Handle` as a whole), that `serve_forever` polls (`CloseLoop`) and that `main`
returns (`ExitProcess`).  It assumes nothing of `Decode`: an engine call may hang for ever, and
whether a client connects is its own affair.  `ModelStore` assumes the same of a thread in the
middle of a call (`Proceed`); a load ends with an engine or an exception.  `TmStore`, `Glossary` and
the scripts state no liveness: the operations of the stores never wait for one another except for
a lock held over file writes, and a script that is never scheduled is one that was killed.

## Disagreements found

Five places where a comment or an interface promises more than the code does; each is a run that
TLC refutes and a finding with the lines quoted in `PROJECT.json`: a flagged row cached again by
a lookup in flight, an exit that does not wait for the answer it was announced in, a pack's term that
keeps the source of the row it replaced, a reload between the test of an engine and its use, and
a resumed collection that drops stored samples until it comes to them.

Other behaviour the models show that is worth knowing, without a run of its own:

* Of two upserts of one text the worse may reach the cache last; `CacheNeverAhead` bounds it to rows
  the index has kept.
* `/readyz`, `/warmup` and `/reload` of CT2Backend end in an exception when a load adds to the
  dictionary they are listing (`EndListing`).
* `net_guard.fetch` parks a whole file when the rename onto the destination fails (`LandFails`); the
  next attempts ask for bytes past its end, are refused, and park it again, until somebody removes it.
* The claim beside parked bytes names host, pin and size and no etag, so an unpinned resumption may
  splice two releases; `UnpinnedLandsWhole` therefore speaks of files that were not resumed.  The
  fetch scripts then record the digest of the splice beside the etag of the new release, and a
  later `--force` run is answered 304 about that etag, finds its copy as recorded, and keeps it.
  `ForcedIsCurrent` and `ValidatorsDescribeDigest` except unpinned splices by name (`Spliced`).
* A run killed while it removes or extracts a tree leaves a part of it.  The next run looks at the
  layout only (`Verify`, `CachedVoice`, `SkipUnpack`): if the files it asks for are there, it succeeds
  over a tree with others missing.  `FinishedIsPinned` promises the whole tree only where no kill
  has cut it short (`cut`); that what is there is of the pinned archive it promises in any case.
* The Argos script leaves an unpacked directory as it is without `--force`, so that an unpinned
  package that is downloaded again is recorded with its new digest over the old tree (`SkipUnpack`).
* A request whose caller has hung up is charged: `count_served` comes before the write
  (ct2_sidecar.py:1246-1252, 1502), so that one decode is counted in `requests_served` and in
  `answers_to_gone_clients`.  The module comment says the two "never overlap requests_served"
  (ct2_sidecar.py:55-56), and so does docs/sdk.md:405, which a few lines before defines
  `requests_served` as the requests that reached the engine.  `ChargesMatchAnswers` states the latter,
  charged exactly when the engine was reached and came back, and nothing about gone callers.
* Runs with no recorded build are pooled, and get a noise floor (`_build_groups`, `_spread`), which
  tests/test_run_identity.py:146-152 wants, with a caveat beside it; run_av_baseline.py says in the
  same place that unknown is not equal.  `FloorIsOneSeries` therefore says one invocation of runs
  that share a recorded build, and of runs without one only that nothing else is pooled with them.
* `_load_resumable` compares the numbers of the sentences and not `--split`, so that a run over dev may
  take stored answers to sentences of devtest that have the same numbers.  `OneDrawPerFile` speaks of
  draws of numbers; `FloresEvidence` reaches files in which the splits mix.
* `--record-baseline` with `--only` rewrites the baseline from the families it asked about, and drops
  the others (`RecordBaseline`).
* A finding that was announced in a comment is commented again by the next report: only the bodies of
  the issues are read back (`ListIssues`).
* The build recorded with a measurement is that of the library on disk when the file is written
  (`RecordedBuild`), and a sidecar too old to name its pid is measured as "unproven".
* The last step of a FLORES run writes its record over another engine's newer file (`Copy`).

## Proofs

`tlapm` checks every theorem for any number of threads, keys, requests, processes, files and any
limits.  Each module proves an inductive invariant, then reads its theorems off it.

**`TmStoreProofs`** assumes `CacheAssumption` (finitely many keys, a capacity of at least one),
`StoreAssumption` (finitely many threads, qualities are naturals, a threshold of at least one) and
`RowAssumption` (`NoRow` is not a row).

* `TypeCorrect`: `TypeOK` is not inductive, because a step uses what an earlier section of the same
  operation left in the thread.  `TypeInv` adds `Carrying`: at each step of an operation the thread
  holds the key and the row that step needs, and a thread that is about to rename holds the index
  *as it is now*, which is what the read guard is for.
* `StoreKeepsContract`: with `Carrying`, every step of `TmStore` is a step of `TmContract` or
  leaves table and file alone.  A `CommitFlush` is a `Save` only because the staged file equals the
  index.
* `CacheStaysBehind`: `CacheNeverAhead` is inductive relative to `TypeInv`.  The lemma
  `StaysBehind` says what it takes: the index's row for a key only gets better, and what goes into
  the cache is a row some thread carries, which is itself no better than the index's.
* `CrashLosesLittle`: `LossBounded`, a sum over threads; `LossShare` says what one thread contributes
  to it at each step, and `Distributes` splits the sum.
* `OneCallerAnswersMatch` and `OneCallerStopsAnswering`: `AnswersMatchIndex`, and the promise of lib.rs
  that the run `tm_flag` refutes, for one caller on a disk that takes every flush (`OneCaller`,
  `NoFlushFails`, as in `tm_sequential`).  `Synced` says that each line of the cache is the index's row
  but for the one key whose operation is between two sections, and how far that one may lag.  The two
  hypotheses are needed: two callers cache their rows in the other order, and an upsert whose
  flush fails never reaches the cache.
* `RowsOnlyImprove` and `FileStaysBehind`: over time a row is never replaced by a worse one and a
  rejected row answers again only as a new one; and each row of the file is an earlier state of
  the row in memory until somebody rejects it.  The first is an action property, with an
  order on rows (`Improves`) that the quality rule respects (`SettledImproves`).
* `CacheStaysConsistent`: `CacheConsistent`, by one lemma for each operation on the pair of map and
  recency order (`PutConsistent`, `RefreshConsistent`, `InvalidateConsistent`, `BumpHitsConsistent`)
  and one for the warm-up (`OpenedConsistent`), whose list may be longer than the capacity.

**`SidecarServiceProofs`** assumes `ServiceAssumption` (finitely many requests, flags are integers).
The inductive invariant is `IInv == TypeOK /\ Shape /\ Books /\ ChargesMatchAnswers /\ AllAnnounced`.

* `Shape`: where a handler stands says what it has done, for example that a handler that
  crashed has not been charged.  Without it a handler could be charged twice.
* `Books`: the counters are the cardinalities of the sets of handlers they count, as long as the
  process lives.  `GateAccounted` and `QueueAccounted` follow; they say less, and are not inductive
  alone: that the decodes are at most the slots holds because each of them holds a slot.
* `AllAnnounced`: a handler whose permit reached the budget knows it by the time it answers.  The
  look at the budget comes after the charge, in another critical section, so that the counter may
  have moved on: the permit is at most the counter.

The theorems `TypeCorrect`, `GateIsAccounted`, `QueueIsAccounted`, `ChargesAreDue` and
`LastPermitsAreAnnounced` follow.  `RetirementIsEarned` adds why a process leaves: it announces its
exit, stops listening and exits only once the budget's number of requests have been answered by the
engine and charged (`Earned`: whoever asks the loop to stop has found the budget spent).

**`ModelStoreProofs`** assumes `StoreAssumption` (finitely many threads and pairs, at least one pair).
`IInv == TypeOK /\ PairKnown /\ LockHeld /\ EmptyPlace /\ EveryLoad /\ ClaimsMatchLoads`: a thread
past `Enter` works on a pair there is a package for; the lock is held exactly while one thread is
inside; that thread's place is still empty when it loads, because a drop only empties places; and
every load is resident or was dropped.  `TypeCorrect`, `OneLoadPerPlace` and `LoadsClaimedOnce` follow.
Around the disagreement `model_reload` shows, two more theorems say what it takes: a request is left
without an engine only if a reload has dropped one (`OnlyDropsStarve`: a thread past its test sees
a resident engine until a drop, `Sighted`), and with one caller a reload costs a load and nothing
else (`OneCallerPaysTheLoad`).

**`GlossaryProofs`** assumes `GlossaryAssumption`.  `IInv` says, besides types, that what is staged for
the file is the index as it is now, that locked terms and best offers are kept in the index *and* in
the file (a restart reads the file), and that a refused import has nothing left to write.
`TypeCorrect`, `LocksHold`, `MachinesOnlyImprove` and `ImportsAccount` follow.  `GlossaryKeepsContract`
is the refinement of `GlossaryContract`: `LearnedRow` shows that what a machine writes is what the
contract lets it write, and a `CommitFlush` is a `Save` because what is staged is the index as it
is now.  `ListingsIgnoreOrder` needs no invariant: after n rows the walk has chosen the best row
among those it met (`WalkKeepsBest`), and an order of a finite set meets every row (`OrderMeetsAll`).

**`FetchProofs`** assumes `FetchAssumption` (generations are not empty, pins are generations).
`IInv == TypeOK /\ Positions /\ Parkings /\ OneResumer /\ Landed`: where a process stands says how its
working file, its digest and its count of resumed bytes agree (the digest is of the stream, the
file is what lands, and they meet only because the resumed prefix was hashed first); every parking has
a number that at most one process, or the parked file, holds.  `TypeCorrect`, `PinnedIsExact`,
`UnpinnedIsWhole` and `ResumerIsAlone` follow.

**`BundleProofs`** works in `Scripts`, under `ScriptsAssumption` and `OriginAssumption`.  Its invariant
holds while the bundle is the script that moves: `Landing` (what is promised and done is in place as
promised), `Unwritten` (nothing is written before every destination was looked at), `Spared` (without
`--force` what was there agrees with the manifest or is none of its business), and `Judged` (a verdict
is about the bundle now in the deliverable).  `InstallsAreExact`, `RefusalsSpare` and
`DeliverablesAreUsable` follow.

**`BenchmarkProofs`** and **`MaintenanceProofs`** work in `Scripts` too, each invariant holding while
its script is the one that moves.

* Benchmark of a domain (`EInv`): every file holds the runs of one invocation, or published runs only (`OneSeries`; while it
  measures, an invocation adds to runs of its own only, `Joining`), and published runs have no build
  on record, so that `FloorsAreOneSeries` holds for any repeats, rebuilds and published runs, because
  a floor is taken within one group of one recorded build, or of none.  Of its own
  sidecars, an invocation has running only those it has noted for the clean-up and the one it is
  waiting for (`Watched`); `SidecarsAreStopped` follows, because every way out stops what is noted
  and a sidecar that was turned away was stopped there.
* Benchmark over sentences (`FInv`): `Sound` (the run works on cells it was asked for and holds
  sentences asked for its own draw of numbers, each number once), `Stored` (so does every file and what was resumed) and `Carried` (the
  cells it does not collect are in the file as they were, and in the run while it lasts).
  `FilesHoldOneDraw` and `OthersAreSpared` follow.  `Gathered` says how much of a resumed file a run has
  back: everything stored of the directions it has done, and of the one at work all but the sentences
  still to come.  `ReachedIsKept` and `OnlyKillsDropSamples` follow: the loss the run
  `flores_resume` shows takes a kill in the middle of a direction, and nothing else brings it about.
* Upstream check (`UInv`): `Honest` (rows and comparisons agree, row by row as they come), `Labelled`
  (an issue's first post is known by what it found) and `Listed` (what the report takes as announced
  is on an issue still; issues are closed but never lose a post).  `AllClearsAreEarned` and
  `FindingsAreRead` follow.
* Fetch scripts (`DInv`): `Fit` (a record names pinned bytes by their pin, and its etags are about the
  bytes it names, or beside an unpinned splice: `AsServed`), `Told` (the digest a run carries is the
  pin's, or what the server said), `Planted` (what was checked is what is unpacked and recorded, and
  a tree that passes for unpacked is whole, is at work, or was cut short by a kill: `CutShort`),
  `Answers` (what the server
  answered for is where it is used) and `Kept` (a leaf of the checkpoint that a run is done with is in
  the record, or fails the last verification).  `FetchesEndPinned` needs `Fit`: a 304 is believed for
  the recorded digest, which must then be the pin.  `ForcedFetchIsCurrent`, `EtagsDescribeDigests`,
  `FetchesEndPinned` and `RecordsNameWhatIsHeld` follow.

`ScriptsTypeCorrect` is `TypeOK` of `Scripts`, script by script; the fetch scripts and the upstream
check need a little more than their types (`TryingKeeps`: a run has attempts left while it tries;
`PointedKeeps`: the issue a comment goes to is on the list).  `MaintenanceProofs` extends the other two
modules of `Scripts` for the types of the scripts proved there.

A fact about every length of a sequence is proved from the least length for which it fails
(`NatLessThanWellFounded` with `WFMin`), because the induction theorems of the library take an
operator as a parameter, which the provers cannot instantiate.

Only model-checked: the liveness properties `QueueMoves`, `BudgetRetires` and `LockComesBack`, which are
out of the prover's reach, as is everything that rests on `ENABLED`.

## Not modelled

* The pipeline and router (`pipeline.rs`, `router.rs`), the engine clients with their busy retry, and
  the configuration's first-call-wins global: the decision sequence keeps no state of its own, and
  what it shares with the memory and the glossary enters those models as arbitrary callers.  The
  deadlines of the clients, and a native call that outlives the UI's timeout, would need the
  client side composed with `SidecarService`.
* The C# sidecar manager: launch, identity, warm-up and stop of a child on UI and pool threads; its
  races are listed as hazards.  View models, native interop and voice are bindings, marshalling and
  sequential audio stages.
* Two processes over one data directory (the MCP server beside the application): each loads once and
  writes whole files, so that the last one to write wins.  It is listed as a hazard and not covered.
* The read-only parts of modelled components: fuzzy search and listings of the memory, the choice of
  glossary terms for a prompt, `/health`'s percentiles, the reports' prose.
* HTTP and JSON parsing, text splitting, language detection, term extraction and confidence scoring
  (string heuristics whose result is an input of the models), the demo engine's table, and the
  one-shot scripts: builds, latency measurements, diagnoses of a running sidecar and scans over source
  text, which keep no state that outlives them.
