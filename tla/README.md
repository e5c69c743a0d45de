# TLA+ models of autter-runtime

autter-runtime is an error and trace pipeline: SDKs (Node, browser, edge, Next.js,
Python) capture occurrences and spans, an OTLP ingester receives them over HTTP, writes
them to ClickHouse and forwards them to a consumer (the *sink*). This directory holds
TLA+ models of the parts whose correctness depends on the order of events, TLC runs that
check them on small instances, and TLAPS proofs of the properties that matter most.

All paths below are relative to the repository (`packages/` is left out of most).
`PROJECT.json` maps every definition to the lines it models, lists the hazards each
property is for and, for each property, a mutant of the model that breaks it.

## 1. The system

| Component | Source | State it keeps | Operations | What is hard |
|---|---|---|---|---|
| Loop collapse | `otlp-ingester/src/loop-collapse.ts` | windows per identity and minute, sample slots, remembered ids, failed samples | `plan`, `commit`, `rollback`, `flush`, `stop` | requests overlap in one window; retries; a failed flush; a request that never ends; shutdown |
| Sink forwarder | `otlp-ingester/src/sink.ts` | bounded queue, bytes per org, POSTs in flight, failure episode, wake timer | `enqueue`, `pump`, `send`, `stop` | answers out of order, retries into the middle of the queue, eviction, lost wake-ups |
| Ingest drop counter | `ingest-drops.ts` | rows, key hashes, overflow, the write in flight | `record`, `flush`, `start`, `stop` | records during a write, stalled writes, shutdown during a write |
| Key resolver, rate limiter | `auth.ts` | cache of validator answers, request counts | `resolveDetailed`, `allow` | concurrent lookups of one key, outages, eviction, expiry |
| Ingest HTTP server | `server.ts`, `index.ts` | none of its own; wires the others | one handler per route, shutdown | independent inserts, 503 and resend, hung-up clients |
| ClickHouse store | `clickhouse.ts`, `migrations.ts` | memoised schema promise; the database | `ensureSchema`, inserts | replicas of two releases, no lock, migrations failing half way |
| Trace dedupe | `trace-dedupe.ts` | none (pure) | grouping of the recordings of one error | greedy grouping in time order |
| Normalizers, log promotion | `normalize-*.ts`, `request-spans.ts`, `log-promotion.ts` | none (pure) | spans, records and metrics to counts and occurrences | three feeds see one request, any batch may be lost |
| Suppression | `suppression.ts`, `server.ts` `admit` | the tenant's rules | match, sample | a retry must keep what its first attempt kept |
| SDK sightings, compatibility | `sdk-versions.ts`, `runtime-node/src/compat.ts` | rows seen, what is known of the ingester | `note`, `flush`, checks, probes | overlapping writes that fail; answers out of order; upgrades |
| Source maps, symbolication | `symbolicate.ts`, `source-map*.ts`, `runtime-cli/src/*` | cache with loads in flight, TTLs, two budgets; files and rows of a build | `load`, `lookup`, `inject`, `upload`, `verify`, `setup` | concurrent loads, eviction, a build killed between two writes and run again |
| Node log sink | `runtime-node/src/sinks.ts` | buffer, bytes, flush promise | `write`, `flush`, `shutdown` | requeue in front of newer records; shutdown during a flush |
| Node lifecycle | `runtime-node/src/lifecycle.ts`, `logging-only.ts`, `shared.ts` | dirty flag, flush promise, handlers, slots on `globalThis` | `mark`, `flush`, signal, `beforeExit`, init, shutdown | a signal during a flush; several copies of the package |
| Handled and unhandled errors | `caught-errors.ts`, `unhandled-rejections.ts`, `runtime-core/src/handled.ts` | captured errors, burst counts, patches | hooks, captures, tails | one report per error across several paths |
| Operations, LLM calls, retention | `logger.ts`, `requests.ts`, `llm*.ts`, `server.ts` of `runtime-node` | open operations, open spans, retained traces | begin, finish, roll up, export | code that runs on after its operation ended |
| Next.js SDK | `runtime-next` | none of its own | wrappers, `onRequestError` | one error through wrapper and hook, in several requests |
| Browser SDK and relay | `runtime-browser/src`, `runtime-node/src/relay.ts` | event queue, breadcrumbs; windows per address | `enqueue`, `flush`; relay handlers | budgets over queued and sent; who a request counts for |
| Edge SDK | `runtime-edge/src/index.ts` | queue, flush promise, per-request runtime | `deliver`, wrapper, captures | several deliveries draining one queue |
| Python adapter | `adapters/python` | buffered traces, lock | processors, sweeps, fork | threads export outside the lock; a fork between two steps |

**How they interact.** A request handler authenticates (key resolver, rate limiter),
decodes, suppresses and plans its occurrences (loop collapse), inserts into ClickHouse,
and then commits and enqueues to the sink, or rolls back and answers 503; each refusal is
recorded by the drop counter, and so is each batch the sink gives up. The collapse flushes
samples to ClickHouse and to the same sink every 5 s. On SIGTERM (`index.ts`) the sink
stops, the server closes, then the collapse and the drop counter flush. On the SDK side an
error passes a hook, the burst limiter and the operation around it on its way to a sink of
log records or to the span exporter, whose retention buffer decides what sampling loses.

Node runs everything of one process on one thread: interleavings happen at `await`s,
timers and callbacks only, and that is how the models are cut into actions. A synchronous
run is one step, or, where it loops over state others can see, one step per iteration with
a variable (`planner`, `task`) that disables everything else until the run ends. Several
processes (replicas, build runs) and Python's threads interleave at each of their steps.

## 2. The models

| Module | Models | State and actions |
|---|---|---|
| `LoopCollapse` | `loop-collapse.ts`, its callers in `server.ts`, the shutdown of `index.ts` | see below |
| `SinkForwarder` | `sink.ts` | see below; implements `SinkDelivery` |
| `SinkDelivery` | the promise of the sink | a batch accepted is pending until it is delivered (perhaps more than once) or reported dropped |
| `IngestDrops` | `IngestDropCounter` | the rows buffered, the write in flight, overflow; histories `recorded`, `written`, `discarded`, `table` |
| `KeyResolver` | `resolveDetailed` and its cache | `Ask` reads the cache and starts the request, `Answer` is the validator, `Resume` the code after the `await`, `FallBack` its `catch`; keys are issued and revoked meanwhile (`ChangeKey`) |
| `IngestServer` | the routes of `server.ts`, `RateLimiter` | a request is a record that moves through authentication, body, promotion, inserts and answer; `Accept` leaves out the counters of `countAccepted` |
| `TraceDedupe` | `trace-dedupe.ts` | a program that throws, retries and fails over a span tree; the pass is an operator compared with what was thrown |
| `SchemaBootstrap` | `ensureSchema`, `migrations.ts` | statements of each replica's run, one per step, over a shared database |
| `RequestCounts` | request and failure counting of the normalizers | the feeds of a request, batches cut anywhere and lost; promotion of logged errors per trace, its lookup seeing the store or not |
| `SuppressionRules` | `suppression.ts`, `admit` | rules in effect, retries of a batch; the glob matcher against its definition |
| `SdkSightings` | `SdkVersionTracker`, `reportIngesterInfo` | keys noted, writes in flight that overlap and fail, the table |
| `LogSink`, `NodeExit` | `otlpSink()`, `installAutterAutoFlush()` in logging-only mode | see below |
| `BurstLimiter`, `HandledErrors` | `handled.ts`, `caught-errors.ts` | the token buckets; the four ways an error is seen, the tail timer |
| `LoggerPatches` | the patches of loggers and `console` | prototypes loaded at any time, started and stopped |
| `Rejections` | `unhandled-rejections.ts` | the listeners in their order, Node's decision |
| `TraceRetention` | span retention of `server.ts` | spans of sampled and unsampled traces, entries with a TTL, sweeps and caps |
| `OperationLogger` | `logger.ts`, `requests.ts` | operations with their context, lines, outcome, one summary |
| `CompatCheck` | `compat.ts` | what is known of the ingester; version, schema, applied list, routes; the deferred check, probes, headers and 404s answered in any order, an ingester upgraded meanwhile |
| `LlmCalls` | `llm-instrument.ts`, `llm.ts` | a call, its span, its stream read by several iterators, the operation's totals |
| `NextErrors` | `runtime-next` | a thrown error through wrapper, Next and `onRequestError`; what is handed to `after()` |
| `SdkLifecycle` | `shared.ts`, init and shutdown of both modes | slots per package layout, handles, the steps of a `shutdown()` |
| `PythonTracing` | `autter_tracing.py` | threads ending spans, the buffer under its lock, what they export outside it, forks |
| `BrowserSdk` | queue, timers, breadcrumbs of `runtime-browser` | events, budgets per event and per window, page visibility |
| `BrowserRelay` | `relay.ts` | calls, addresses as claimed and as appended by proxies, windows |
| `EdgeRuntime` | `runtime-edge/src/index.ts` | requests, their captures and logs, the exporter's queue, concurrent deliveries |
| `SourceMapCache` | `symbolicate.ts` | two stores with budgets, fetches in flight, stacks that read contents later |
| `FrameNames` | `scopes.ts`, `source-map-scopes.ts`, `source-map-mappings.ts` | both look-ups over every small mapping; the field of a bundle's functions by its columns |
| `SourceMapBuild` | `inject`, `upload`, `verify`, the bundler plugins | files and rows of bundles; a run that may die at each write |
| `SourceMapSetup` | `setup*.ts` | a project's files and how setup reads its map setting; runs planned, killed, repeated |

`MC*` modules are the instances TLC checks. Three of them hold several components that
share no state: a variable `part` chooses one when a behaviour starts, the others stay as
they started (`Rests`), and a property reads `Of(part, ...)`. A behaviour of such a module
is a behaviour of one component; nothing is composed that the code composes, and the
number of states is the sum of the parts'. Operators named *Mutant of ...* stand before the
definition they would replace: no specification uses them.

**LoopCollapse.** A *window* is an identity in one arrival minute: its first `After`
occurrences are stored, later ones are *folded*: counted, with the newest kept as a sample
that is stored when the minute is over.

| TLA+ | code |
|---|---|
| `win[k]` | the `Window` object (`admitted`, `kept`, `foldedIds`/`tracking`, `count`, `sample`, `reserved`, `pending`, `holdsSlot`, `flushed`); `late`/`lateSample` is its carried `Due` |
| `tracked`, `held`, `carry` | `trackedIds`, `heldSamples`, the failed `Due`s of `this.carry` |
| `writing`, `flushing`, `stopped` | the rest of a `flushDue` under way, `this.flushing`, the shutdown |
| `req[r]` | a request: its batch, its minute, and the local variables of `planWindows` |
| `PassWithoutWindow`, `KeepAgain`, `Recognise`, `Keep`, `PassWithoutSlot`, `FoldIn` | the branches of the loop of `planWindows` |
| `WritesSucceed`, `WritesFail` | the inserts of `server.ts` settle: `commit()` and 2xx, or `rollback()` and 503 |
| `FlushTimer`, `FlushStores`, `FlushFails`, `FlushEnds` | `flush` → `collectDue` → `flushDue`, one write per tenant |
| `Shutdown`, `FlushAll` | `index.ts` `shutdown`, `LoopCollapser.stop` |

A counter of folds (`count`) is represented by the *set* of folds it counted, so that the
model can say "counted once"; the stored `collapsed_count` is the size of the set less
one. `WritesFail` may leave the occurrences stored (`partial`): ClickHouse has no
transaction over the tables. Left out: statistics, the log throttle, `after = 0` (plan
passes through), a handler that reaches `plan()` after `stop()`.

**SinkForwarder.** `queue` in age order, `queuedBytes`/`orgBytes` kept by hand through
`Track`/`Untrack`, `sending` and `returning` (a send that settled and one whose `finally`
has not run yet: `inFlight` counts both), the failure episode (`failures`,
`failureEpoch`), the wake timer (`armed`), and the two synchronous loops as `Evict` and
`Launch` under `task`. The refinement mapping sends *waiting or being sent* to pending.
A payload is its size; time is whether a batch's backoff is over.

**LogSink and NodeExit.** `LogSink` is `otlpSink()`: `queue`, the batch in flight, and a
flush that sends as many records as were queued when it began (`remaining`), in batches
cut by number and bytes (`NextBatch`), each POSTed up to `MaxAttempts` times; a failed
batch goes back in front. `NodeExit` extends it with the life of the process in
logging-only mode (`initAutterLogging`): `AutoFlush` is the coalescing `flush()` of
`lifecycle.ts`, `LoopDrains`, `SignalArrives`, `CrashCaptured` and `CrashHandled` its
listeners, `AppShutsDown` the handle's `shutdown()`. `LoopAlive` is Node's rule for
`beforeExit`: sockets and the timers of a flush keep the loop alive, the sink's own timer
is `unref`'ed. What a settled POST sets off (the flush's `finally`, a waiting `shutdown()`,
a waiting exit) runs as microtasks of one event and is one step. `promised` and `owed` are
histories. The backoff times, the other sinks and `pendingCaptures` (counted by
`initAutterServer` only) are left out.

## 3. The runs

| Run (module) | Bounds | Shows |
|---|---|---|
| `collapse_any` (`MCLoopCollapse`) | 3 requests, 2 batches (1 and 2 occurrences), 2 identities of 2 tenants, `After` 1, 2 windows, one sample slot, one remembered id, 2 arrival minutes, forced flush after 1 | `FoldsConserved`, `FoldsCountedOnce`, `WindowsAccounted` (slots, requests holding a window, no early close, newest sample, stored samples forwarded) under any retries, partial writes and shutdown |
| `collapse_exact` (`MCLoopCollapse`) | 2 batches of 2 occurrences, one of them with an occurrence of another identity; one window, one slot, room for all ids; a retry waits for the earlier attempt | `AcceptedIsCounted`: a batch answered 2xx is counted; `SamplesExact`: once if its attempts share a minute and did not fail after storing, and shutdown stores every fold that ClickHouse takes |
| `collapse_overlap` (violation) | one identity, overlapping retries | finding 1 |
| `ingest` (`MCIngest`) | *sink*: 3 batches of sizes 1 and 3 of 2 orgs, a buffer of 2 batches and 2 bytes, 2 attempts, concurrency 2. *keys*: 2 lookups, 2 keys, a cache of one, TTL 1, timeout 1, 2 changes, 3 ticks. *server*: 2 requests, one payload per route, a key per scope and one unknown, limits of 1 a minute and 1 kept count. *dedupe*: a span over two leaves, 2 throws, a window of 2, an error gone within 1. *schema*: 2 replicas with 2 callers, one restart, 2 runs. *counts*: a request that calls another, in one process or two, one trace, 7 ways to be served, one lost batch. *rules*: 6 raw rules, two kept, 3 occurrences, 2 attempts; globs to length 4. *sightings*: 3 senders, one remembered key, 2 writes at a time, 5 ticks | `SinkAccounts`, `SinkStepsFair`, `ImplementsDelivery`; `KeyLimits`, `AnswersAreRecent`; `RequestsAccounted`; `ThrowsGrouped`; `SchemaInEffect`; `CountedOnce`; `RulesApplied`; `SightingsAreStored`; `IngestTypeOK` |
| `ingest_live` (`MCIngestLive`) | *loop*: 2 requests, 2 identities of one tenant, one window a minute; *sink*: 2 batches, a buffer of one; *drops*: 4 drops, 2 rows, one hash of two | `StoredInTheEnd` (a committed fold is stored, the drop buffer drains), `ImplementsFairDelivery` (nothing waits in the forwarder for ever), `DropsAccounted` |
| `drops_shutdown` (violation) | 2 drops, 2 rows, under `FairDrops` | finding 2 |
| `keys_outage` (violation) | 3 lookups, 4 ticks | finding 3 |
| `node_exit` (`NodeExit`) | 3 records of sizes 1, 2 and one too large, a buffer of 3 records and 4 bytes, batches of 2 records and 2 bytes, 2 attempts, 2 signals twice each, one crash | `RecordsKept`: records keep their order and are accounted for, a flush sends its snapshot, a natural exit and a shutdown lose nothing unseen; `ExitsInTheEnd` |
| `node_exit_covers` (violation) | same | finding 4 |
| `node_sdk` (`MCNodeSdk`) | *handled*: 3 errors of 2 kinds, a burst of 1, 5 ticks; *patches*: 2 loggers, 2 cache scans, 3 starts; *rejection*: 2 copies and the application listening, every mode; *retention*: 3 spans of 2 traces, caps of 2; *operation*: 2 operations, an expected and a falsy error; *compat*: 2 features, one route, 2 configurations; *llm*: 2 calls, 3 reads of a stream; *next*: 4 routes (each wrapper, one edge), 2 errors, one of them control flow; *lifecycle*: 2 copies of one layout or two, 2 handles, 2 shutdowns; *python*: 3 spans of 2 traces, 2 threads, a fork, one kept trace | `HandledCounted`, `LoggedErrorsReported`, `RejectionsAsNode`, `SpansKept`, `OperationsSummed`, `WarningsAreProven`, `TokensCountedOnce`, `NextErrorsHandled`, `CopiesActAsOne`, `SdkTypeOK` |
| `compat_probe` (violation) | 2 features with a route each | finding 5 |
| `clients` (`MCClients`) | *browser*: 3 events, 2 kept crumbs, budgets of 2 an event and 3 a window, 3 ticks; *relay*: 3 calls of 2 visitors, one request a minute, one window kept; *edge*: 2 requests and a flush, a queue of 3 records and 4 bytes, batches of 2; *cache*: 2 maps, 2 stacks, 3 uploads, one map and 2 bytes of sources kept; *frames*: up to 3 groups of mappings, 2 functions; *build*: 2 bundles of any shapes, 7 jobs, 2 attempts, one crash; *setup*: 8 kinds of project, 2 runs | `PageEventsLeave`, `RelayLimits`, `EdgeReportsOnce`, `SummariesLeaveLast`, `FramesResolved`, `BuildKeepsMaps`, `SetupWires`, `ClientsTypeOK` |

*Why the bounds are enough.* In each model the interesting cases need two or three actors
and one unit past each limit, and the bounds are chosen so that each limit is hit: one
slot for two windows, one remembered id for three, a third batch in a buffer of two, a
retried batch that returns to a full queue with an older and a newer neighbour, a second
row of the second hash, a second key in a cache of one with another lookup holding the
evicted entry, a batch cut by bytes while a record is appended behind it, a crash between
every two writes of a build. A window's life is arrival, overlap, flush, late commit,
carried flush: two arrival minutes and the forced flush give each of them room. Where a
property does not depend on the bounds, section 5 proves it for all of them.

*Deadlock* is not checked: every model stops by design when its bounded inputs (requests,
batches, drops, clock) are used up, or after shutdown. Symmetry is used for requests,
lookups, organisations and errors of one kind in runs without liveness properties; the
sets carry no order and no constant tells their members apart.

*Fairness.* In `ingest_live` the loop part assumes the clock, the 5 s timer, a plan and a
flush to go on (they are the event loop of one process), and that a write of samples which
is tried for ever succeeds in the end (strong fairness of `FlushStores`); nothing is
assumed of the requests. The sink part assumes that callbacks and timers run and that each
POST settles: `AbortSignal.timeout` guarantees it. The drops part assumes the timer and
that a write settles, which `writeTimeoutMs` guarantees. `node_exit` assumes that Node
runs handlers and timeouts and that each POST settles, in whatever way: the ingester may
refuse every one. Loop and sink look at runs in which the process is not stopped;
`BufferDrains` says so in the property.

## 4. Findings

1. **`collapse_overlap`**: `loop-collapse.ts:256` recognises an id that an earlier request
   has only *reserved*. A resend that overlaps its first attempt is then answered 2xx with
   the occurrence neither stored nor folded by it; when the first attempt fails, `rollback`
   takes the fold back and the accepted occurrence is counted nowhere, against
   `loop-collapse.ts:27-28`.
2. **`drops_shutdown`**: `stop()` during a write in flight gets that write's promise from
   `flush()` and leaves what was recorded between that write's start and the call, against
   `ingest-drops.ts:504`. Rows recorded after the call are not held against it.
   `FairDrops` says that the write settles, so the counterexample is no stalled write.
3. **`keys_outage`**: a 5xx of the validator is cached over an earlier good answer, so a
   known key is refused as `key_unverified`, against `auth.ts:33-34`.
4. **`node_exit_covers`**: on a signal or an uncaught exception `flush()` joins the flush
   under way (`lifecycle.ts:239`, `sinks.ts:109`), which covers what was queued when it
   began; the process exits when it is over, and what was written since, the captured
   crash included, is lost although "telemetry flushed" is logged. Against
   `lifecycle.ts:7-9` and `runtime-node/README.md:397-402`.
5. **`compat_probe`**: `compat.ts:269` marks the routes of every feature noted by then as
   asked about, those noted while the check was waiting included, which nobody probed;
   with an ingester from before `/v1/compat` such a route is never asked about. Against
   `compat.ts:303` ("Legacy ingester + a newly used feature with an unprobed route: probe
   it").

*Seen while modelling, without a run of their own.*

- Loop collapse: windows are keyed by arrival minute, so a batch whose 2xx was lost and
  which is resent in a later minute is counted again, against `loop-collapse.ts:34-36` and
  `docs/ARCHITECTURE.md:389` (the reason for the conditions on minutes and on `partial` in
  `SamplesExact`); `loop-collapse.ts:37` says the forced flush comes five minutes after the
  window's minute, the default is four; past `maxTrackedIds` a window forgets the ids it
  had remembered too, not only new folds (`loop-collapse.ts:46-47`).
- Lifecycle: signals are counted by kind, so SIGTERM after SIGINT does not exit at once,
  against `lifecycle.ts:182-183`, and a second signal of a kind exits at once also when the
  application listens to it, against `runtime-node/README.md:403-405`. A `shutdown()` that
  overlaps a new init takes the new handle's sinks (`SdkLifecycle` `LoggingIsWired`, not
  run: `logging-only.ts` awaits before it wipes the logger; `server.ts` removes its flush
  targets unguarded). Both modes in one process are a misuse
  (`docs/REQUESTS-AND-ERRORS.md:287`) and are only modelled as far as the slots go.
- Errors: with error retention off, an exception recorded on an unsampled span is not
  exported, against "100%" in `runtime-node/README.md:211` (the run has it on). A primitive
  thrown value is reported by a wrapper and by `onRequestError` both, and a primitive
  rejection reason by each copy of the package (`unhandled-rejections.ts:66-75`): neither
  can be marked.
- Operations: an outcome set explicitly wins in requests (`ExplicitOutcomeWins`) but not in
  plain operations, against `logger.ts:775` (`OutcomeSetWins`); `withRuntimeRequest`
  summarises an error the capture rule turned down as failed, against `requests.ts:86`
  (`TurnedDownDoesNotFail`).
- LLM calls: the span of a stream nobody reads to its end, or reads by events only, never
  ends; tokens that arrive after the operation's summary are in no summary; a failed
  instrumented call is not rolled up.
- Browser: `schedule()` leaves the slower timer of an earlier usage event running when an
  error comes (`ErrorsFlushFast`, against `runtime-browser/README.md:307`);
  `clearBreadcrumbs` restarts the window's budget (`breadcrumbs.ts:58-61`, 252-255).
- Edge: of two calls that waited for one flush the second may return while records are
  still in the first one's batch (`FlushDeliversBuffered`, against
  `runtime-edge/src/index.ts:202`).
- Trace dedupe: a recording may be merged with a recording of another attempt
  (`PairsWithItsOwn`); the number of occurrences is right all the same.
- Log promotion: once per trace, over every occurrence the store holds of it, so a logged
  error is neither promoted nor counted as a failure when its trace has an *earlier*
  occurrence within a minute, one of another request or a caught one. A lookup that fails
  or is over its budget promotes unchecked (`server.ts:648`, 658-663), and one of a trace
  whose occurrence is older than a minute finds none; the model calls these traces
  `missed`, and `CountedOnce` limits their counts no further.
- Version check: after an upgrade the list of applied migrations may still be that of the
  old version, reported as ready, while a header has brought the new version. The check
  then warns that a migration is missing from an ingester that has it, against "no false
  positives" (`otlp-ingester/src/compat.ts:165-168`): `mergeInfo` keeps the list
  (`runtime-node/src/compat.ts:290-298`, 351-355). `WarningsAreProven` admits
  this one: the ingester the warning is about is one of the deployment, not always the one
  that runs. The model has a feature's migration ship with the version it needs;
  that of `source_map_verify` shipped before it.
- Setup: exit 0 with nothing to upload, in two cases `AppliedMeansWired` leaves out. A
  config whose object cannot be found (a `mergeConfig()`) has an unknown map setting
  (`setup-detect.ts:393`), which is no reason for a manual step where the plugin sets maps
  itself; a plugin called by hand then reads as "already" (`setup-edit.ts:379`), although
  maps set to inline leave no file. And any script that names `sourcemaps inject` or
  `upload` keeps `addScript()` from acting (`setup.ts:359`), also one no build runs.
- Setup: a run whose install failed after it raised the CLI's version range is not told
  about the install by the next run (`setup.ts` near 594).
- Trace dedupe: with equal stacks and times, a recording may join the group of another
  throw of the same failure; the count is right as long as the attempts in a row take no
  longer than the window (`RetriesAssumption`). With a window of 2, three attempts that each
  take 1 tick to reach the parent, and start in the tick the one before got there, are four
  occurrences: at one instant the inner recording comes first, so each parent recording
  joins the group of the next attempt, and that of the last finds room in the group of the
  first only, which has expired. The comment (`trace-dedupe.ts:38-42`) has each attempt
  pair with its own; the window is 5 s, so it takes retries of seconds that start at once.

## 5. The proofs

Checked by TLAPS for all values of the constants that satisfy the assumptions named in the
modules (`ASSUME`s on limits being natural numbers, on sets being finite where the code
counts them, and on model values being distinct; TLC evaluates them in each run).

**LoopCollapse** (`FoldsAndDropsProofs`): `TypeCorrect`, `FoldsAreConserved`,
`FoldsAreCountedOnce`. They are proved together by one inductive invariant,
`InvariantHolds == Spec => []IInv`, because none is inductive alone:

- two windows collected by one flush yield samples with disjoint folds only if what a
  window counts belongs to it: `KeyLinked`;
- a collected sample has a type only if a window that counted something has a sample, one
  of its folds: `SampleLinked` (and `Newest` picks one of its arguments: `LastExists`, by
  well-foundedness of the subset order, and `NewestIsOneOf`);
- the row of a sample has an id only if its folds are positions of a request's batch:
  `RequestsSound`;
- `collectDue` overwrites nothing only if a flush begins with nothing left to write:
  `WritingInFlush`.

The argument: steps fall into four kinds. Those that count, collect and store nothing
(`NothingMoved`), the plan steps among them (`Planned`); a commit, which adds folds that
were nowhere (`Committing`); a collection, which moves folds from windows to samples
(`Collecting`); and a write, which moves samples to the table or back to the carry
(`MovingSamples`).

**LoopCollapse, windows and counts** (`FoldsAndDropsProofs` too).
`WindowsStayAccounted` proves `WindowsAccounted` from `WindowsInvariant`. Its conjuncts
need each other: `pending` and `reserved` count requests only while every plan agrees with
its windows, which needs `ReservationsSound` besides: `plan()` runs inside its request's
minute over windows nobody has flushed (`OpenWhilePlanning`), has folded only what it has
passed (`FoldsBehind`), and an id it reserved is in its window and reserved by no other
(`IdsHeld`, or a rollback would take away another's id). A step is taken by what it does
to one window: an occurrence planned, a request settled, a window collected.

`AcceptedStaysCounted` proves `AcceptedIsCounted` from `AcceptedInvariant`: an id a window
knows as folded is that of a fold committed or reserved (`KnownFolds`), and what a plan has
passed is to be stored, or folded by it or by a committed fold (`PassedCounted`).
`ShutdownLeavesNothing` follows with `NoneLeft`. They assume `OrderlyExporters`: an
exporter resends a batch only when its request is over, and no occurrence is in two
batches. The first fails when an
exporter gives up waiting while the handler still runs, and finding 1 shows that it is
needed; the second is how `occurrenceIdFor` makes ids, which accepts that two signals of
one millisecond without a trace or session coalesce (`fingerprint.ts:353-357`).

`SamplesStayExact` proves `SamplesExact` for behaviours whose plan steps stay
`WithinLimits`: a fold finds a sample slot and budget for its id. Beyond them the code
stores as usual, or forgets the ids of a window, and may count a resent occurrence twice
(`loop-collapse.ts:43-47`); both cases are in the run `collapse_any`. The invariant is
`ExactInv`: the window of what a live request kept knows it as kept, or can never come to
be (`KeptStays`), what it folded is known as folded (`FoldsStay`), no two folds of a batch
are the same occurrence (`FoldedOnce`), and a retry has reserved nothing an earlier
attempt stored (`ReservedNew`), so that its rollback forgets nothing of theirs.

**IngestDrops** (last in `FoldsAndDropsProofs`): `DropsTypeCorrect`, `Conservation`, `TableIsExact`,
`BufferStaysBounded`, and `DropsStayAccounted`, the four as the run checks them.
`DropsConserved` is shown row by row: each step moves counts between the five places
without changing their sum.

**SinkForwarder** (`SinkForwarderProofs`, with `SumLemmas` on sums along a sequence):
`ForwarderInvariant`, by which `ForwarderDelivers` proves the refinement of `SinkDelivery`
and `StepsAreFair` the two action properties. A batch is in the queue, in flight or has a
fate, and the queue is in order (`PlacesInv`); `inFlight` and the byte counts moved by hand
are those of what they count, org by org (`CountersAddUp`, `BytesInv`: a sum changes by one
element, and splits by org); outside the loop the bounds hold (`BoundsInv`); a send knows
the epoch it began in, and while it fails at most one probe is fresh (`HealthInv`); a
waiting batch has a timer or a completion that will pump (`NoLostWakeup`).

**The ingester** (`IngestProofs`): the components of `MCIngest`, each by an invariant of
its own and then carried to the instance, whose part is chosen once (`PartsRun`).
- `KeysInv`: an answer held by a lookup was true since the lookup asked, and it asked at
  most `Timeout` ago; an entry was true `TTL + Timeout` before it expires. Hence
  `AnswersStayRecentHere`.
- `ServerInv`: for each request, by the point its handler has reached, what it has
  inserted, counted and queued; what is queued for the sink is in its tables. Hence
  `RequestsStayAccounted`.
- `LimiterInv`: a key has passed at most its limit for each clearing of the table, and
  what its window has spent. Hence `LimitsHold`.
- `SightingInv`: a row noted is in the table or in a write under way that is as new, or is
  not remembered. Hence `SightingsStayStored`.
- `SchemaInv`: where each replica stands in its list of statements, and that each statement
  before that point is in effect, whatever other replicas of either release did meanwhile.
  Hence `SchemaStaysInEffect`.
- `CountsInv`: what of a request has left its process, in whatever batches, determines what
  the metrics count of it (`CountsDue`), that a trace of what was counted or stored has an
  occurrence (`TracesFit`), at most one of them a logged error where the lookups saw the
  trace, and that its spans leave together unless a batch was cut (`LeftWhole`). The
  work is in what one batch adds: the walk up the parents from each span ends, in any call
  graph, at one root per request and batch (`Climbs`, `Roots`). Hence
  `RequestsCountedOnce`.
- `RulesInv`: while the rules stay, each attempt keeps what they leave. Hence
  `RulesStayApplied`, which includes the glob matcher: `GlobsAreExact` proves it for
  patterns and values of any length. The matcher takes each piece at its leftmost place and
  never goes back; an invariant along the pieces (`Sound`) says that whatever match there
  is can be moved left to the places taken. It is an induction over a number, along the
  matcher's own recursive function, not over data.
- `TdAll`, of a trace: an error is recorded once on a span, first on the leaf that threw it
  and then on the way out, within `LongestWay`, and attempts follow each other (`WaysInv`);
  the pass, run in time order, puts each recording into one group, begun by a leaf, of
  spans on one way (`Grouped`, by an induction along the fold). A leaf fits no group
  (`LeafFitsNone`); an outer recording always finds one (`OuterFits`): by the pigeonhole
  principle, of the groups of attempts that lead here and cannot have expired one has no
  recording on this span yet. That is where `RetriesAssumption` is needed: all attempts of
  a trace take no longer than the window. Hence `ThrowsStayGrouped`: groups and throws
  correspond one to one, for any tree of spans.
- `TypesStay` collects the types with the bounds of what is queued, remembered and retried
  (`TdInv`, `SchemaBounds`, `SightingBounds` for the parts not above).

**Log sink and exit** (`NodeExitProofs`): `ProcessInvariant`, hence `RecordsStayKept`. Each
record is in the batch, the queue, delivered or dropped (`PlacesInv`), in the order it was
written (`OrderInv`), weighing what the counters say (`SizesInv`); a flush has still to
send the batch and the first `remaining` of the queue (`FlushInv`); an exit that waits has
a flush to wait for, and what was owed at the drain is in it or was reported (`ExitInv`).

**The clients** (`ClientsProofs`): the parts of `MCClients`, each by an invariant of its
own; the instance runs one part and leaves the others alone (`PartsRunAlone`).
- *Relay*, `RelayInv`: what passed a limit is spent of its window, and the key of a call is
  its visitor, whatever was claimed in X-Forwarded-For, as long as the trusted hops are the
  own ones. Hence `RelayStaysLimited`.
- *Edge*, `EdgeInv`: the queue, the batches under way and what was delivered are apart and
  in order; with what was dropped they make up all that came from finished requests, a sum
  over requests that a step of a loop only moves between places. Hence `EdgeStaysWhole`,
  with `EdgeLogsReportFirst` (an error's log never leaves before its report), and the
  action property `SummariesStayLast`: the eviction loop takes plain records only.
- *Page*: queued events have a timer no later than their delay, and an error's log leaves
  with or after its report; the crumbs kept obey the budgets of an event and of a window, so
  that those of a batch fit a beacon (`PageBatchesFit`). Hence `PagesReportInTime`.
- *Build*, `BuildInv`: what each bundle's files and row have become by the step a run has
  reached, what a killed run may have left of each, and which uploads are under way. Hence
  `BuildsKeepMaps`.
- *Setup*, `SetupInv`: a run knows what is left to do of the project it looked at, as it
  reads it, and says that all is applied only when nothing would be planned again. Hence
  `SetupStaysWired`, for every way a map setting may read: by value, as the default in
  place of an expression, or not at all. The two cases it leaves out are in section 4.
- *Source map cache*, `CacheInv`: entries have one key each and fit their budgets; a
  content belongs to the parse of a cached map; a stack that waits has a load under way, and
  what it holds is of the version its parse read. Hence `CacheStaysWhole`: budgets, one load
  per map, and no source line shown of another upload than the frame's own. It is the cache
  part of `FramesResolved`.
- `ClientsTypesHold` collects the types with the bounds of queues, windows and stores.

**The server SDKs** (`NodeSdkProofs`): the parts of `MCNodeSdk`, each by an invariant of its
own; the instance runs one part and leaves the others alone (`SdkPartsRunAlone`).
- *Unhandled rejections*, `RejectionInv`: while the listeners are called in turn, the
  rejection is handled when the turn has passed a copy of the SDK; from then on it is
  rethrown, or recorded by one copy, as its mode and its other listeners ask. Hence
  `RejectionsStayAsNode`.
- *LLM calls*, `LlmInv`: the totals of an operation are the sums over the calls that rolled
  up, each once, until it is sealed (`SetSum` of `SumLemmas`: the induction is over the
  number of elements left). Hence `TokensStayCounted`.
- *The version check*, `CompatInv`: what the SDK believes of version, schema, applied list
  and routes was true of some ingester the deployment has had, each perhaps of another; a
  list shorter than the version asks for was an older one's. Hence `WarningsStayProven`.
- *Logger patches and reports*, `PatchesInv` and `ReportInv`: a source that is on has its
  console or its hook, and its prototype is patched or was imported past the hook; what
  has a report is captured. Hence `LoggedErrorsStayReported`.
- *The burst limit*, `HeldInv`: a kind has one bucket; what its bucket lacks of a token was
  missing when its count began to wait; the timer is set when anything is held, and is no
  later than the token of any. Hence `HandledStaysCounted`: no count waits longer than
  *one* token takes, for any burst, refill and number of kinds. The count of a kind as a
  whole may wait longer, when the kind is forgotten and seen again: what its new bucket
  holds began later, which is why the histories of both are kept apart.
- *Next.js*, `NextErrorsInv`: where the error of each request is between wrapper, hook,
  boundary and page. Hence `NextErrorsStayHandled`.
- *Operations*, `OperationInv`: an operation's lines, report, outcome and summary by its
  state, and its request id by its ancestors'. Hence `OperationsStaySummed`.
- *Start and stop*, `LifecycleInv`: a slot or target names a handle of its home that has not
  been stopped, or whose `shutdown()` has yet to clear it; a server handle that runs is the
  one in its slot; and in an orderly application (one kind, each stopped once: `Tidy`) what
  runs is wired in full, and the order of the stop's steps holds. Hence `CopiesStayOne`.

- *Retention* (`RetentionProofs`), `RetentionInv`: a buffered span is under its own trace,
  once, and the count kept by hand is that of the spans; an unsampled span that ended is
  buffered, forwarded once or let go (`RetentionPlaces`); a captured exception rides on a
  span that has its error (`CapturesRide`). Hence `SpansStayInOnePlace`. `SpansStayKept`,
  the property as the run checks it, assumes `RetainErrors`
  (`retainTracesOnError`, the default): without it a captured exception on an unsampled span
  goes with its trace when that is evicted or swept (section 4), so the hypothesis is
  needed.
- *Python* (`RetentionProofs`), `PythonInv`: each process and worker has its own buffer; a
  snapshot taken under the lock and exported outside it, a fork between the two or a late
  end puts no span in two places. It is in the same two theorems.
- `SdkTypesStay` collects the types and bounds of all parts.

**Only model-checked, and why.**
- *Liveness* (`ImplementsFairDelivery`, `StoredInTheEnd`, `ExitsInTheEnd`): no prover here
  treats fairness.
- `FramesResolved` as a whole: its cache part is proved (`CacheStaysWhole`); that the two
  look-ups over mappings agree, and that the functions field answers as the scopes it was
  built from, are inductions over the mappings. The bounds of what they build are proved
  (`FramesStayBounded`).

## 6. Not modelled

- *Fingerprints, redaction, stack texts, version comparison, the normalizers' reshaping*:
  text processing without control; regular expressions over strings are out of TLC's reach.
- *Node command line, deployment, docs and examples*: print what they find, or are text.
- *Inserts and queries of ClickHouse, file and console sinks*: I/O; their outcome is a
  choice where a caller depends on it.
- *OpenTelemetry*: external; setting its global provider again is not modelled.
- *Details of modelled parts*: the 256 KB cap of one record in the edge SDK, the relay's
  `trustProxy` modes other than `auto` and one hop, `deleteAfterUpload: false` with maps
  the plugin turned on, and a write torn by a crash (a file is old or new).
- *Python*: `caught_exceptions.py`, `set_global=False` and the spans and marks of a
  shutdown.
- *Hazard without a property*: `lifecycle.ts:225` (`markAllFlushed()` after a flush also
  marks what was captured while it ran) depends on `pendingCaptures`, which only
  `initAutterServer` counts.

`PROJECT.json` says for each component how far it is modelled.
