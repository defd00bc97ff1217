# Verification of the shared memory bus

The repository is a local memory service for coding agents. Agents talk MCP to
a few HTTP endpoints; behind them stand Node servers, Python workers, JSONL
files and SQLite databases under one store directory. What is hard in it is
where processes, event-loop callbacks, timers and files meet: builds that read
what hooks append, archivers that rewrite what the tools write, a search worker
that caches what builds replace. These modules model those parts, TLC checks
them on small instances, and TLAPS proves every safety property of the runs for
instances of any size.

Contents: [inventory](#inventory), [modules](#modules), [runs](#runs),
[bounds](#bounds), [fairness](#fairness), [proofs](#proofs),
[where code and documents disagree](#where-code-and-documents-disagree),
[behaviour to know of](#behaviour-to-know-of), [not modelled](#not-modelled),
[plan](#plan).

## Inventory

Paths are below `src/`; `sm` stands for `shared-mcp`.

| Component | Code | State | Operations | Module |
|---|---|---|---|---|
| Embedding worker pool | `sm/embedding-worker-pool.cjs`, `embedding-worker-script.cjs` | healthy set, load of each worker, spawn failures, pending requests, the init promise | `embedWithPool`, `initPool`, dispatch, result and error lines, overflow, timeouts, retirement and respawn, `drainPool` | `EmbeddingPool` |
| MCP stdio proxy | `sm/singleton-stdio-mcp-proxy.mjs`, `sm/proto/*.mjs` | current child, `initialized`, `initPromise`, pending map, inflight count, restart timer and attempts | bootstrap with its handshake, forwarding, protocol violations, exit, bounded restart, shutdown | `McpProxy` |
| Cascade change queue | `ops/cascade/` | SQLite table `cascade_queue` (lsn, claim, processed_at) | `enqueue`, `claimBatch`, `ack`, `fail`, `prune`, the worker's loop, `diffByHash` | `CascadeQueue`, `EventDelivery` |
| Search worker | `sm/metrics/compute.js` | current child, startup promise, pending calls, restart count, circuit | `ensureSearchWorker`, `requestSearchWorker`, exit, scheduled restart, `restartSearchWorker`, `stopSearchWorker` | `SearchWorker` |
| Memory server's tools | `sm/memory-retrieval.js`, `memory-tools.js`, `memory-embeddings.js`, `memory-generation.js`, `omni-handlers.js` | the calls under way and the children of their own | search with one-shot fallback, refinement by a model, rebuilds, reads and writes | `MemoryTools` on top of `SearchWorker`; the writers in `SharedStore`, the readers of the graph in `KnowledgeTools` |
| Extraction retry queue | `hooks/stop-hook-llm-extract/` | `pending-extractions.jsonl`, its lock file, project and shared JSONL files | the Stop hook, the SessionStart replay, the lock with stale takeover | `ExtractionQueue` |
| Archival, store writes, promotion | `ops/memory/memory-archival.js`, `memory-promotion-*-core.mjs`, `memory-layers-dedup.js`, `ops/mcp/canonical-memory-write.js`, `mcp-memory-tools.js` | the structured JSONL files, the manifest, the archiver's lock, the promotion queue, `projects/*.jsonl` | archive, rebuild of shared inbox and session memory, canonical write and projection, promotion, boot and search | `SharedStore`, `MemoryRecord` |
| Daily log and patches | `ops/memory/paths-and-io.js`, its daily log and patches | two append-only files with `.lock` files | `appendDailyLogs`, `tryWithFileLock`, reclaiming of locks | `DailyLog` |
| Blackboard daemon | `ops/daemon/obsidian-blackboard-daemon.js` | task table, block of `WORKING.md`, signature, lock, heartbeat | `syncDbToMd`, `handleMdChange`, crash loop | `BlackboardDaemon` |
| Bridges | `sm/memory-bridge.js` | claude-mem's observations, the task table | `insert_claude_mem`, `write_blackboard_task`, the queries | `MemoryBridge`, composed with `BlackboardDaemon` |
| Knowledge graph | `ops/knowledge/knowledge-graph/`, `ops/entity/` | SQLite tables of entities and triples | batch ingestion, `addTriple`, `upsertTriple`, `invalidate`, the six tools that read | `KnowledgeGraph`, `KnowledgeTools` |
| Configuration of embeddings | `bus/runtime-config.js`, `retrieval/runtime_support.py`, `scripts/migrate-runtime-secrets.mjs` | `runtime.json`, its profiles, providers, keys | resolution in two languages, selection, catalog, migration of keys | `RuntimeConfig` |
| Index build | `bus/generate-embeddings.js` | the index, hashes and vectors of its entries | incremental build, reuse, batches, fallback, kill, `set_embedding_runtime` | `EmbeddingIndex` |
| Retrieval engine | `retrieval/` | memo of stamps, caches of entries, embeddings, model, query, results; the breaker | the requests of the worker | `RetrievalServer` |
| Generated layers | `ops/build/`, `ops/generate/`, `ops/memory/memory-layers-context.js`, `ops/run/run-memory-dream.ps1` | layers, CONTEXT.md, handoff pack, hygiene report, dream's files, signatures | rebuild, pack, report, dream | `GeneratedLayers` |
| Launcher, watchdog, sync, setup, CLI, web | `start.js`, `bus/*.ps1`, `ops/sync`, `ops/setup`, `ops/migrations`, `cli`, `web` | none that interacts | see [not modelled](#not-modelled) | none |

They meet as follows. A client's request reaches a **proxy**, which forwards it
to the stdio child it keeps alive: a memory server. The server's **tools** send
retrieval to the one **search worker** of that server, in which the **retrieval
engine** answers from its caches of the **structured store** and of the
**index**. Builds of the index compute embeddings through the **pool**. The
Stop **hook**, the write tools, notes and dreams append to the store; the
**archiver**, the **promotion** and the **rebuild** rewrite it; from it come
the **layers**, the **graph** and the **daily log**. The **bridges** write what
the **daemon** carries into the user's note. Changes of memories also go to the
**cascade queue**.

Where components share state or take steps together, a module composes them:
`MemoryTools` takes its steps together with those of `SearchWorker`,
`KnowledgeTools` reads the database of `KnowledgeGraph` between its writers'
statements, `MemoryBridge` writes the table of `BlackboardDaemon`,
`EmbeddingIndex` resolves the file with the operators of `RuntimeConfig`, and
`SharedStore` calls those of `MemoryRecord`. Elsewhere one component sees of
another only requests and answers, or a file; its module leaves these to the
environment, and the files of two modules overlap no further than their
headers say.

### What is hard, and what makes each correct

* **Pool.** Continuations run between events, so a worker can be chosen and die
  before it is written to; retirement, respawn and failing spawns race with
  initialization and with drain. Correct: a request that counts as sent is
  settled, and a worker's load is the number of its requests.
* **Proxy.** Requests, bootstrap, restart timer and violations share one child
  slot. Correct: nothing is sent before the handshake, one live child, no
  inflight slot leaks, every call settles.
* **Cascade queue.** Workers claim, steal expired claims and crash between
  application and acknowledgement. Correct: delivered at least once before
  marked, first applications of a record in order, a lone worker drains.
* **Search worker and tools.** A call's child can exit, be stopped or replaced
  before the call is registered; exits arrive late; a search falls back to a
  process of its own. Correct: no call outlives its child, one worker unless a
  stop intervened, every call but a rebuild returns, a refinement returns
  members of what it was given.
* **Extraction queue.** Processes are killed anywhere, even inside the lock.
  Correct: a failed session is queued or done, and the queue drains.
* **Store.** The archiver locks, nobody else does; files are read in one step
  and renamed over in another; ids repeat. Correct: a rewrite loses only what
  arrived behind its back; what was acknowledged is served; what is canonical
  comes back into the layers; conflicting memories are not both promoted.
* **Daily log.** A lock whose owner died is reclaimed by two at once, a failed
  fsync is retried after the lines are there. Correct: one line per id.
* **Blackboard.** User and daemon edit one note, OpenClaw and daemon one table.
  Correct: only what was ticked is submitted; both sides come to agree.
* **Graph.** Transactions with snapshots run against single statements.
  Correct: one current version of a fact, a consistent history, facts with both
  their entities, counts that do not contradict each other.
* **Index and configuration.** The configuration changes between a build, the
  server and the worker. Correct: query and vectors are comparable, what is
  usable survives any build, the status shown is the one the worker acts on.
* **Retrieval.** Five caches with five rules of expiry. Correct: an answer is as
  fresh as the memo of stamps allows; after a trouble of the dense scores the
  answers are full ones again within a bounded time.
* **Layers.** Signatures are taken before or after the read. Correct: an
  artifact called aligned shows what it signs; an undisturbed rebuild leaves
  its outputs in agreement; nothing is promoted twice.

## Modules

Each module names its actions after the function or event they stand for, and
`PROJECT.json` maps every definition to its lines. Definitions whose comment
starts with "Fault:" are not part of the model: each is a plausible bug in the
definition that follows it, and shows which property would notice it. Modules
`MC...` are small instances for TLC, modules `...Proofs` the TLAPS proofs; where
two components have theirs in one module, it is named after the first.
`Subsequence` is what filters, sorts and enumerations of sets make of a
sequence, written without recursion, with what there is to prove about it.
Where a proof module reads two components, the second one's definitions have
names of their own (`IndexSpec`, `ServerSpec`, `LogSpec`, `DaemonSpec`,
`BridgeSpec`, `LayersSpec`; `FairDaemonSpec` and `FairLogSpec` add fairness).

**Grain.** Node runs a callback to its end, so one callback is one action, with
all its synchronous calls. An `await` splits a function: what follows is an
action of its own. Promise continuations run before the next event of the loop,
so actions that are events wait until no continuation is left (`Quiet` in
`EmbeddingPool` and `McpProxy`, `Event` in `SearchWorker`). Separate processes
interleave at each statement of SQLite (`CascadeQueue`, `KnowledgeGraph`) or at
each system call on a shared file (`ExtractionQueue`, `SharedStore`,
`DailyLog`, `BlackboardDaemon`, `GeneratedLayers`, `EmbeddingIndex`), and may
be killed between any two. Where a script first reads several files and only
then writes, the reads are one step. The writing of an artifact of
`GeneratedLayers` is one step as well: emptied it has no signature, and is
aligned with nothing. A boundary of a test that no property tells apart, such as
the text of a record, is a member of a small set.

**EmbeddingPool.** `Embed` is a call of `embedWithPool`; it waits in `StartInit`,
`FinishInit` and `Wake` for the pool, and `Dispatch` picks the least-loaded
healthy worker or refuses for backpressure. `Ready`, `InitTimeout`,
`SpawnError`, `Overflow` and `Close` are the events of a worker; `Retire` and `Bury` are
what they call, `TopUp` the respawns that follow. `Result`, `Error` and
`RequestTimeout` end a request. `StartDrain` and `FinishDrain` are `drainPool`.
The Python side is a process that answers or dies as it likes.

**McpProxy.** `RequestReady`, `RequestShare` and `RequestBoot` are the three ways
through `ensureInitialized`; `Boot` spawns a child, `BootAnswer`, `BootOk`,
`BootFailed` and `StartupTimeout` are the handshake. `Wake`, `Send`, `Answer`,
`RequestTimeout` and `Finish` follow one client request. `Violation` is a frame
that is too long or not JSON, `Exit` the exit handler, `TimerFires` the restart,
`Shutdown` the signal handler. Two constants describe the platform and the
configuration: `GroupKill` says whether `killTree` reaches the child (on
Windows `taskkill /T` does; on POSIX `kill(-pid)` does not, since the child is
not spawned detached), and `SmallFrames` says whether `MAX_CHILD_FRAME_BYTES`
is below the size of one chunk.

**CascadeQueue**, **EventDelivery.** `Enqueue` and `Insert` are the two statements of `enqueue`
(the duplicate check and the insert), `Select` and `Claim` those of
`claimBatch`. `Apply`, `Ack`, `Fail` and `Throw` are the worker's loop over its
batch, `Crash` and `Start` a restart with the same worker id, `Prune` removes
what is processed. Claims expire by age; how much time passes between two
steps is arbitrary, so a claim may be taken over at any time. `EventDelivery`
is the promise: each accepted change reaches the sink at least once before it
is marked.

**SearchWorker**, **MemoryTools.** `UseRunning`, `JoinStartup` and `SpawnFor` are the ways through
`ensureSearchWorker`, `Refuse` the circuit and backpressure. `Spawned` and
`SpawnError` end a startup; `Send`, `Answer` and `Timeout` follow a call; `Die`
is the end of the process and `Exit` its event, which may come much later.
`MemoryTools` starts such calls for tools (`CallWorker`, `CallRebuild`,
`CallHidden` for a tool the server's mode hides) and goes on with their
outcome: `SearchOnce`, `OnceEnds`, `OnceTimesOut` are the search in a process
of its own, `RefineRecords`, `ModelReplies`, `ModelFails` the refinement,
`RebuildEnds` the end of a rebuild's child. `ToolsImplementWorker` is proved:
hiding the tools' variables gives `SearchWorker`.

**ExtractionQueue.** A lock step is `Acquire` (`open` with `wx`), `FindStale` (the
`stat`), `Steal` (the `unlink`), `LockTimeout`, `Release`. `Stop` to
`WritePlaceholder` is the hook's `main`, `StartReplay` to `RewriteQueue` the
replay's loop and `removeJsonlRecords`. The history variable `overlapped`
becomes true when a process enters while another is inside. The code cannot
exclude that, so the safety properties say what holds until it happens. Files
are sets of sessions. The model has POSIX semantics for rename and unlink.

**MemoryRecord**, **SharedStore.** `MemoryRecord` holds the pure functions: scope
and tier of a record, its time to live, what the archiver selects
(`EligibleIds`, `OverBudget`), the promotion score from its parts, the queue
and `ResolveConflicts` with its components. `SharedStore` calls them from the
steps of the scripts: `Archive` (from `Create` of the lock over `Scan`,
`Budget`, `Record` in the manifest to `Rewrite` and `Unlock`), `Build`
(truncate, fill, per file), `Promotion` (`Score`, `Resolve`, and per file
`PromoteRead`, `PromoteWrite`), `Write` (the tool: canonical line, projection,
acknowledgement), `Command` (the same tool on the command line), `Hook`, `Note`
and `Dream`. Boot, search and CONTEXT.md are operators over the project files.

**DailyLog.** Both users of `.lock` files: `Open`, `Probe`, `Reclaim`,
`RecordPid`, `Again` are the attempts of `withFileLock`, `TryOpen` and its
siblings those of `tryWithFileLock`. Before its first attempt either makes the
file if it finds none, outside the lock (`Ensure` looks, `Create` writes an empty
file, likewise `TryEnsure` and `TryCreate`): a look before another process has
made the file, with the write after, empties it. `Scan`, `AppendLines`, `Unwind`
(the failing `fsync`) and `Leave` are the body. `fs.tryLockSync` exists in no release of
Node; the branches for it are dead.

**BlackboardDaemon**, **MemoryBridge.** `Sync` is `syncDbToMd` from `ReadRows` to
`Sign`, `Handle` is `handleMdChange`; `Edit` is the user, `Move` OpenClaw,
`Kill`, `OnCrash` and `Start` the process. `MemoryBridge` adds the tools:
`Post`, `PostSave`, `Verify`, `PostMemories` are the routes of
`insert_claude_mem`, `InsertTask` and `ChildEnds` the Python child of
`write_blackboard_task`.

**KnowledgeGraph**, **KnowledgeTools.** `Select`, `Statement`, `Busy` model SQLite
in WAL mode: snapshot at the first statement, one writer, `SQLITE_BUSY` for a
stale snapshot. `Begin` to `EndBatch` is the ingestion of builds and backfills,
`StartAdd`, `AddSubject`, `AddObject`, `AddInsert`, `StartUpsert`, `UpsertExpire`,
`UpsertInsert` and `Invalidate` the statements of the command line, which may
give an end of validity; what it ends ahead of time is recorded in `ahead`,
two writers in each other's midst in `raced`. `KnowledgeTools` is
the list of SELECTs of each tool, executed one by one.

**RuntimeConfig**, **EmbeddingIndex.** `ResolveEmbeddingRuntime` and
`ResolveEmbeddingRuntimePy` translate the two resolvers; `Selection`,
`MigrateValue`, `CatalogProfile`, `RestartSignature`, `IndexState` what the
tools make of the file. `EmbeddingIndex` has the build (`Start`, `Load`,
`EmbedBatch`, `FallBack`, `EmbedFails`, `Stop`), the tool (`Select`,
`WriteSelection`, `StopWorker`), the key migration (`Secrets`) and the worker
(`StartWorker`, `Peek`, `Scan`).

**RetrievalServer.** One request after the other: `Receive` chooses it,
`Load`, `LoadEmbeddings`, `DenseWell`, `DenseFails`, `DenseRaises`, `DenseOpen` are its
steps, with the caches each consults; `Replace`, `Lock` and `Trouble` are other processes,
`Tick` the time. A call is slow when it took `SlowCall` since the breaker let it
in, whatever it spent the time on.

**GeneratedLayers.** `Build` (read, then truncate and fill for inbox, session and
tasks, with the reading of the session layer before its own; layers, three parts
of CONTEXT.md), the handoff pack, the hygiene report and the dream (`DreamOpen`
to `DreamDelete` under its lock file), each with the signature it writes and the
moment it takes it; `Aligned` is the integrity report, `Refresh` the script that
runs three of them when it complains. `calm` says that a process was not
disturbed: one that signs what it has read before, by anybody's writing since it
began; one that has signed and will read, by a rebuild that truncates or fills a
layer. The history variable `unlinked` becomes true when the lock file of a
dream at work is removed.

## Runs

| Run | Instance | Shows |
|---|---|---|
| `pool` | 3 processes, 2 requests, pool of 2, limit 1, threshold 2, 1 init, 1 drain | `NoStrandedRequest`, `LoadCountsOwned`, and that calls settle (`SentSettles`, `InitSettlesOrEndedEarly`) |
| `proxy` | 2 children, 2 requests, 2 inflight, 1 restart attempt, `GroupKill`, no `SmallFrames` | `InflightMatches`, `HandshakeFirst`, `OneLiveChild`, `CallSettles` |
| `cascade` | 2 workers with batches of 1 and 2, 1 producer, 1 key, 2 changes, 2 rows, any number of crashes | `AppliedInOrder`, the refinement `DeliversAtLeastOnce`, `LoneWorkerDrains` |
| `search` | 2 processes, 2 tool calls, limit 1, 1 restart before the circuit, 3 ids to refine, 4 replies of the model | `NoStrandedCall`, `OneWorkerUnlessStopped`, `ChosenWereAsked`, `CallReturns` |
| `hooks` | 1 hook and 1 replay, restarted any number of times, 2 sessions, 1 replay at a time | `NoSilentLoss`, `QueueDrains` |
| `store` | 2 processes in three settings: archivers with writer and build, build and promotion, command line with the server's tool | `OneArchiverUnlessForced`, `OneWinner`, `AckedIsServed`, `RewriteLosesOnlyLate`, `BuildsDeliver` |
| `dailylog` | 2 builds with overlapping batches, 1 crash | `LoggedOnce`, `EventuallyWritten` |
| `blackboard` | the daemon with 2 tasks and a block for 1, a bridge that adds tasks; or 2 calls of `insert_claude_mem` | `SavedAtMostOnce`, `OnlyTickedSubmitted`, `EventuallyAgree` |
| `graph` | 2 ingesting processes, 2 command lines and a reader over one triple, which may be ended ahead of time, in five settings | `SequentialHistory`, `AssertedKept`, `StatsNeverOverstate`, `JoinLosesNothing` |
| `index` | 3 entries in batches of 2, 2 builds, 2 servers, in seven settings | `ScoresComparable`, `AlignedIsSearchable`, `WorkerFollows`, `KeepsUsable` |
| `retrieval` | one worker, six instants, one replacement per file, two troubles | `Freshness`, `HealthyAgain` |
| `layers` | 2 processes in seven settings: two rebuilds, a rebuild with pack, with report, with dreams of old and of new memories, two dreams, refreshes with a dream | `AlignedIsCurrent`, `PromotedOnce`, `FinishedBuildAgrees` |

All twelve pass. Four of them compose components: `search` (tools on the
worker), `graph` (readers on the writers' database), `blackboard` (bridge and
daemon on one table), `index` (builds, servers and workers on one
configuration).

Other properties stated in the modules hold as well and were checked on the
same instances, without being part of the regular runs: the `TypeOK` of the modules that state one,
and `HealthyLoadBounded`, `OnlyDrainForgets`, `DeathIsLocal` (pool),
`SingleFlight`, `RestartNeverRaces` (proxy), `ProcessedWasApplied` (cascade),
`SingleStartup` (search), `RequestKept` (hooks), `OneInsideUnlessStolen` (daily
log), `OkMeansDone` (bridge), `AnswersMoveForward`, `TypeNeverDegrades` (graph),
`VectorsMatch`, `CatalogAgrees`, `SelectionTakesEffect`, `FinishedExact` (index),
`ModelMatches` (retrieval). Proved among them are `DeathIsLocal`,
`SingleFlight`, `RestartNeverRaces`, `ProcessedWasApplied`, `SingleStartup`,
`RequestKept`, `OneInsideUnlessStolen`, `OkMeansDone`, `TypeNeverDegrades`,
`VectorsMatch` and `ModelMatches`.

## Bounds

Each bound is the smallest at which the module's interesting cases meet.

* *Pool*: three processes are a full pool and the respawn a drain starts, and
  two requests with a limit of one exercise backpressure and sharing.
* *Proxy*: two children are a child and its successor; with one request
  waiting while another is sent, all ways through `ensureInitialized` meet.
* *Cascade*: two rows of one key are what ordering and duplicate suppression are
  about; different batch sizes let one worker hold a row while the other steals
  it.
* *Search*: two processes are a stopped one and its successor; with two calls
  one starts a worker the other joins, or refines while the other searches. The
  model's replies are empty, unknown, partly unknown, duplicated.
* *Hooks*: two processes suffice for a lost update, as a killed process comes
  back under the same name; two sessions are the one removed and the one lost.
* *Store*: two scripts, as a lost update needs two; one note, one dream, one fact and two
  facts of the command line (one malformed), two sessions (one failed); budgets
  of one per tier, so that a second record evicts the first; two moments, before
  and after every lifetime. `MaxCopies = 1` bounds a client's retries. A setting
  names who runs what, because all scripts at once only repeat pairs of them.
* *Daily log*: two overlapping batches; one crash, so that a stale lock is
  found by both; three attempts, the code's own number.
* *Blackboard*: two tasks and a block for one, so that a task leaves it; two
  edits, a tick and its removal; three moves; one kill. The list of the
  verification holds two observations, as many as two callers insert.
* *Graph*: one triple is what all rules are about; two days, two instants and an
  earlier day; an invalidation ends what it finds today, or on the second of the
  two days; a process of the command line does one or two operations. Type
  and existence of its two entities are written by the ingestions. `ScanLimit`
  and `TopLimit` are the number of names.
* *Index*: three entries in batches of two are a full batch, a partial one and a
  build killed between them; one edit, two switches (there and back), one kill.
* *Retrieval*: times of life in the code's order (memo below results, recovery
  below both), with a horizon of six, past all of them together; a call that
  takes an instant is slow, and none takes two; two failures
  open the breaker, two troubles bring it into its half-open state.
* *Layers*: each setting has at most two ids, one of which supersedes the other
  or reads differently with the same promotion key; budgets of one; `MaxSession`
  stops the growth by re-imported sessions. Two processes are a rebuild between
  whose truncation and writing the other reads, and two rebuilds that lose each
  other's session records.

Larger instances of five modules were checked as well: the proxy with 3
children (297 thousand states), the cascade's safety with 3 rows and batches of
2 (3.5 million), the search worker alone with 3 children, 3 calls and a limit of 2 (585
thousand), the hooks' safety with 2 replays and 2 sessions (5.5 million) and
their liveness with 2 replays and one session. No error was found.

`CHECK_DEADLOCK FALSE` is set where the system may stop for good: all calls
answered, all processes used up, the server gone, or the bounds of the
environment reached.

## Fairness

Fairness is assumed of what Node and the operating system deliver, never of
what a peer may do.

* *Event loop*: continuations run (weak fairness of `Wake`, `Dispatch`, `Send`,
  `Finish`, `FinishInit`), and armed timers fire. Timers get strong
  fairness where continuations disable them for a moment over and over
  (`RequestTimeout`, `InitTimeout`, `StartupTimeout`).
* *Children* need not answer, exit or start. Liveness rests on the code's
  timeouts alone. In `SearchWorker`, a spawn ends in `spawn` or `error`,
  and a dead child's exit event comes: Node promises both. In `MemoryTools`
  the end of a search once and of the call to the model rest on their time
  limits; rebuilds have none, so `CallReturns` leaves them out.
* *Cascade*: each running worker takes steps, and the sink eventually stops
  throwing. Crashes need not stop; `LoneWorkerDrains` asks only for a time from
  which exactly one worker runs.
* *Hooks*: processes that run take steps, an abandoned lock gets old, sessions
  keep starting, and from some time on no process is killed, no call fails and
  no lock is waited for in vain (`Fault`).
* *Store*: scripts that run go on, and builds are started again and again (the
  watchdog and the hooks do so; strong fairness, as a script in progress
  disables it). `BuildsDeliver` asks for a time from which no process is killed.
* *Daily log*: a build that runs goes on. Which builds are started is open;
  `EventuallyWritten` asks that one is started again and again and has the store to
  itself from some time on.
* *Blackboard*: the daemon goes on, the watchdog starts it again, and the
  interval of fifteen seconds comes round whatever the other handler does
  (strong fairness of `ReadRows`). User, OpenClaw and kills are bounded.

## Proofs

Every invariant and every action property of the runs is proved, and the
refinement of the cascade queue, for every finite set of processes and calls
and every value of the parameters.

The assumptions on constants are named `...Assumption` in the module that
declares them. They say that sets are finite or disjoint, that null values are
none of the values beside them, that limits are positive and instants natural
numbers, that triples are about entities, and that what is read from files has
the shape the code gives it: records carry only entities their extractor is sure
of (`RecordAssumption`), the names are listed in alphabetical order, each once
(`ToolsAssumption`), a configuration file is what the loader makes of any JSON
file (`IndexAssumption`). Two theorems have a hypothesis besides:
`ProxyHandshakeFirst` and `ProxyOneLiveChild` name the platform and the
configuration (`~SmallFrames`, `GroupKill`), and each property fails without
its own; `OnlyTheUsersTicks` has `NeverReopened`, that OpenClaw does not take a
finished task back, since a task that was ticked and is reopened would be
submitted again.

| Module, theorems | Argument |
|---|---|
| `EmbeddingProofs`: `PoolTypeOK`, `PoolNoStrandedRequest`, `PoolLoadCountsOwned`, `PoolDeathIsLocal` | Load is the cardinality of the requests a worker owns. Each action either moves one request or ends one worker, and lemmas about these two kinds of step carry the invariants; `DeathIsLocal` is an action property of the same invariant. |
| `VectorsAreTheirs`, `BuildsKeepUsable` | `BuildsInv`: every entry of the index and of every build under way has a vector made of its text by the configuration it names, and what a build has pending is not in what it has, and pending once. The second theorem is an action property with `Undisturbed` besides: a build that nothing disturbs knows texts and configuration as they are, and has what the index holds that can be used. |
| `SearchesCompare` | `SearchInv`: until a batch falls back to hashing, the index is of one configuration throughout, and so is what each build has, so that a look at the first entry speaks for all. |
| `WorkersFollow`, `AlignedIsAccepted` | `ConfigInv`: a lone server that selects knows the file and its worker as they are. The two resolvers, in two languages, agree by a chain of lemmas on their parts for every file whose adapters both know. |
| `McpProxyProofs`: `ProxyTypeOK`, `ProxySingleFlight`, `ProxyRestartNeverRaces`, `ProxyInflightMatches`, `ProxyHandshakeFirst`, `ProxyOneLiveChild` | `ControlInv` ties `initPromise`, the bootstrap of each child and the waiting calls together. On top of it: counting for `InflightMatches`, `HandshakeInv` and `OwnershipInv`. |
| `LogLocksExclude`, `IdsLoggedOnce` | `LogInv`: until a live process's lock is unlinked, whoever is inside is named in the lock file, and what it is about to append is not in the log, in whose places ids are different. A file that is emptied by who makes it outside the lock loses lines, and repeats none. |
| `CascadeQueueProofs`: `CascadeTypeOK`, `CascadeProcessedWasApplied`, `CascadeAppliedInOrder`, `CascadeDeliversAtLeastOnce` | Order of first application needs `BatchCloses` (when a worker stands at a row, the older rows of its batch were applied or failed to) and `LsnsAreDense` (no row is inserted below another). The refinement follows: every step maps to a step of `EventDelivery` or a stutter. |
| `DiffIsExact` | For record sets of any size, what `diffByHash` skips is unchanged: applying its result to the first set gives the second. |
| `AlignedShowsFiles` | `LayersInv`: what a calm dream or report signed and what it read are two readings between which the signed inputs only grew and no layer was touched (`Grown`), so that, as long as the files are those that were signed, they are also those that were read; what follows the reading need not be calm. For layers and pack, a calm process has read what is there. |
| `CalmBuildsAgree` | An action property of the same invariant: along the phases of a calm rebuild, what it has in memory is what it wrote, file by file. |
| `PromotionsAreOnce` | `PromotedInv`: unless a lock file was removed, one dream at most holds the lock from its signature to its last append, what it has queued differs in text from all that was promoted and from one another, and this survives the filter it applies before it writes. |
| `MemoryToolsProofs`: `SearchTypeOK`, `SearchSingleStartup`, `SearchNoStrandedCall`, `SearchOneWorkerUnlessStopped` | The startup promise and the children's states determine each other; a call is handed a child in the same step that makes it usable, and `NoStrandedCall` survives the exit handlers because they reject every pending call. Counters are bounded by the children that ended. |
| `ToolsImplementWorker`, `ToolsNoStrandedCall`, `RefinementsWereAsked` | Every step of `MemoryTools` is one of `SearchWorker` or leaves its variables alone, so that `SearchWorker`'s theorems hold beneath the tools as well. A refinement selects places of what it was given (`Subsequence`) and cuts the result at the limit. |
| `AnswersAreFresh` | `FreshInv`: a stamp in the memo was that of the file less than a `MemoTTL` ago, what is loaded is as new as the stamp it goes by, and a result as the stamps in its key. |
| `TroublesEnd` | `HealthInv`: the breaker opened no later than the last trouble, a request under way has waited `MaxCall` at most, and a kept answer is younger than `ResultTTL`; the three add up to the bound. |
| `ScoresFit` | A model that is there was made of the entries that are loaded, in every step that replaces either. |
| `ExtractionQueueProofs`: `QueueTypeOK`, `QueueNoSilentLoss`, `QueueRequestKept` | Until `overlapped`, one process is inside the lock (`HolderUnique`), hence what a replay read is still the queue when it renames (`SeenIsQueue`); it waits for the lock only with the result written (`RemovesReplayed`). So the rename removes exactly a session that is done. |
| `OnlyTheUsersTicks` | `BoxesOwed`: a box that is ticked in the note, has been read, or is about to be written is the user's, or its task is settled. |
| `InsertedAtMostOnce`, `SuccessIsTrue` | `CallsOK`: a call that may still post has stored nothing, and one that has succeeded has its observation in claude-mem or its task in the table. |
| `KnowledgeGraphProofs`: `GraphJoinLosesNothing`, `GraphTypeNeverDegrades` | `GraphInv`: one connection writes at most, and what it has written so far goes beyond the committed file only by rows of its own and by more specific types; a snapshot that is not stale is the committed file. Hence a commit replaces the file by one that lost nothing, and the type `addEntity` read is still the type when it writes. |
| `GraphAssertedKept` | Rows only go at an expiry: between the two statements of an upsert the process itself is the witness, and a death there is recorded in `torn`. |
| `GraphSequentialHistory` | Until `raced`, `HistInv` holds of the versions not ended ahead of time: every view about to be committed has one current row of a triple at most, who is about to insert has seen none, and all versions of a triple have ended by the instant an upsert of it took. So versions are apart in time (`Apart`), which bounds what a query as of an instant finds. |
| `ToolsOnlyRead`, `StatsNeverTooMany` | Every step of `KnowledgeTools` is one of `KnowledgeGraph` or leaves its variables alone. `CountInv`: primary keys tell rows apart, and rows live on from view to view (`LivesOn`), so that their number never decreases (an injection). `AskInv`: types are counted from the most specific down, and an entity's type only becomes more specific, so that what has been counted are different entities. |
| `SharedStoreProofs`: `ArchiversExclude` | `LockInv`: until a lock is taken over, whoever has created it holds it. |
| `RewritesLoseOnlyLate` | `RecordedInv`: what is about to be taken out of a file is in the manifest; a promotion writes the ids back that it read. |
| `ConflictsHaveOneWinner` | The resolver keeps, in every component of the graph of conflicts, the first by score and time: a sort has a first place (`RankedPlaces`), and any two that conflict are in one component. |
| `FactsAreServed` | `ServedInv`: an acknowledged fact is in `projects`, and of a batch each is there or among what is still to be written; a rewrite takes none away. What a reader with room shows follows from the places a filter keeps. |

TLC checked the properties before they were proved. None is inductive by
itself: each speaks of what has happened, its strengthening also of what is
about to. Two properties had to change when their proofs failed, and TLC then
found the behaviour: `WorkerFollows` does not hold when a migration of keys runs
at the same time, `AlignedIsCurrent` not for a dream that reads while a rebuild
is at work on the layers; both are described [below](#behaviour-to-know-of).
`Subsequence` has what these proofs need of filters, sorts and `SetToSeq`; an
induction over a sequence is replaced in it by a minimal counterexample, or by
counting places.

Only model-checked: the liveness properties (`SentSettles`,
`InitSettlesOrEndedEarly`, `CallSettles`, `LoneWorkerDrains`, `CallReturns`,
`QueueDrains`, `BuildsDeliver`, `EventuallyWritten`, `EventuallyAgree`), because
the prover does not reason about fairness with `ENABLED`, and those of the
properties that are not part of the runs and not listed above.

## Where code and documents disagree

Each of these is stated in a module and TLC shows it violated when asked:

| Property | Code | Document |
|---|---|---|
| `EmbeddingPool.InitSettles` | a worker that ends before it is ready settles its spawn promise never (`embedding-worker-pool.cjs:177`): a first call can wait for ever | `CHANGELOG.md:168`: the fallback to a spawn per call when the pool cannot start |
| `EmbeddingPool.PoolReplenishes` | `removeWorker` (`:282`) looks the worker up in `pool.workers`, which holds only placeholders; the length never drops, and `maybeRespawn` always returns: the healthy set empties for good | the comment at `:233` that the set does not shrink to zero |
| `McpProxy.OneLiveChild` without `GroupKill` | on POSIX the old child survives `killTree` (`child-process.mjs:46`) | `docs/architecture/SERVER-SPLIT.md:29`: one child per proxy |
| `McpProxy.SuccessResetsAttempts` | a restart that a client message, not the timer, brings about does not reset the counter (`restart.mjs:68`) | the comment at `restart.mjs:64` |
| `CascadeQueue.ExactlyOnce` | a crash between `apply` and `ack` applies again (`cascade-worker.js:77`) | `cascade-worker-e2e.test.js:160`: exactly-once per LSN |
| `SearchWorker.ScheduledRestartRestarts` | scheduled restarts call `ensureSearchWorker()` without its argument and throw (`compute.js:295`) | `manifest.json:95`: restart policy "always"; `MCP-TOOLS.md:241` |
| `DailyLog.DeadOwnersLockIsReclaimed` | a process killed between creating the lock and writing its pid leaves an empty file, which counts as live for ever (`paths-and-io.js:159`) | the comment at `:151`: the lock of a dead owner can be reclaimed instead of blocking forever |
| `DailyLog.ReturnsLogged` | the file is made, empty, before the lock is taken (`paths-and-io.js:195`, `:312`); a build that saw no file empties what another has appended since | the comment at `memory-layers-dedup.js:297`: an exclusive lock around the full cycle of reading and writing |
| `BlackboardDaemon.NoTickOverwritten` | the read inside the lock compares nothing with the rows read before; a box ticked in between is overwritten | the comment at `obsidian-blackboard-daemon.js:386` |

Also found while modelling: archival promises exactly one winner
(`memory-archival.js:186`), but two processes that take over the same expired
lock both proceed; the restart policy's "reset window after 5 minutes with no
restarts" is 5 minutes since the first restart; `generate-embeddings.js:354`
writes a marker for an archived record so that retrieval skips it, but the
marker has no text and the build fails at it.

Stated and violated, without a document that claims them:

* *Pool*: `DrainStopsWorkers` (a worker that is still starting survives a drain,
  `:480`), `PendingBounded` (the limit counts the load of healthy workers only,
  `:376`), `HealthyAreAlive` (a worker stays healthy after its close event, `:341`).
* *Proxy*: `HealthyIsInitialized` (with `SmallFrames`), `ShutdownEndsChildren`
  (messages still being read when a signal arrives spawn a child),
  `CircuitStaysOpen` (a request still spawns a child after the restarts gave
  up), `FailureIsRescheduled` (a violation schedules nothing if the child exits
  unheard), `ProxySurvivesChild` (a write to a dead child's stdin raises an
  unhandled error). Also, the exit event of a child that a violation killed
  tears down its successor.
* *Cascade*: `ChangesApplyInOrder` (after a failure the batch goes on, and a
  retried older change overwrites a newer one), `NoDuplicateRows` (two producers
  interleave check and insert), `WorkersDrain` (two workers that keep stealing
  each other's claims make no progress). A batch of rows that always fail
  starves those behind it.
* *Search worker and tools*: `NoOrphan` (the late exit of a stopped child forgets its
  successor), `PendingBounded` (the limit is tested before the `await`),
  `CircuitOpens` (only an open circuit can open the circuit),
  `OthersExitSparesCalls`, `EveryCallReturns` (rebuilds have no limit),
  `OkIsDone` (a rebuild's killed child counts as success), `NothingOutlives` and `SearchesBounded`
  (one-shot searches survive the server and pass by its limit), `ChosenOnce` and `UselessIsDegraded`
  (a refinement may repeat ids, and is not called degraded when the model
  names only unknown ones).
* *Hooks*: `LockExcludes` (between the `stat` that finds a lock stale and the
  `unlink`, another process may have made a new one; and a suspended owner
  comes back to a lock that is not its own), `ReplayedOnce`.
* *Store*: `FailureNotMerged` (records of failed extractions enter the session
  memory). *Bridge*: `ErrorMeansNothingDone`, `VerifiedMeansSaved` (an older equal
  observation satisfies the verification).
* *Graph*: `UpsertedIsFound` (`upsertTriple` adds no entities),
  `ExpiredIsANumber` (a fact added between the two counts makes it negative).
* *Index*: `ScoresAlwaysComparable` (the index is replaced between the worker's
  two readings), `KeysReplaced` (selecting a runtime drops keys a later
  migration then does not find), `ProviderTakesEffect` (selecting a provider
  does nothing when there is one profile or one called "default").
* *Retrieval*: `HolesHeal` (a file that could not be opened stays missing until a
  stamp changes).

## Behaviour to know of

Facts the models rest on, which a reader of the code might not expect:

* *Dead code*: `fs.tryLockSync`, `flock` (no dependency), `compactPatches`,
  `preserveDreamRecords`, `incrementConfidence`, `queryCurrentTriples`; the
  scripts `refresh-generated-artifacts.js`, `kg-v1-to-v2.js` and
  `sync-openclaw-to-obsidian.js` stop at an undefined name or a missing module;
  the watchdog looks for build scripts where they are not; the dream looks for
  the archiver in `ops/run`.
* *Configuration*: builds the server spawns get `AI_MEMORY_STORE` only, so in
  the default layout they read another `runtime.json` than the server writes
  (setting `Apart`); JavaScript drops an unknown adapter, Python keeps it;
  `set_embedding_runtime` saves and then reports an error, as
  `restartSearchWorker` always rejects.
* *Store*: archived canonical facts come back into the session memory by the
  next build; sessions replayed by the hook reach only the shared inbox, never
  `projects/*.jsonl`, so boot and search do not serve them; search indexes by id, so
  a reused id matches by its newest text and returns its first record.
* *Retrieval*: dense errors never open the breaker, only exceptions or slow calls
  do; fallback answers are cached as long as good ones.
* *Graph*: a batch whose snapshot is stale ingests nothing and the build reports
  success; an entity of type `org` has rank 0 and becomes `unknown`; an
  invalidation is dated to the start of the day, unless an end is given
  (the fourth argument of `invalidate`, `cli.js:74`), which may lie ahead: an upsert
  before it finds nothing to expire, and until then two versions are valid.
* *Index*: two builds at once overwrite each other, each with what it reused;
  with `--force` a failure half-way leaves only the finished batches. A migration
  of keys reads the file, and writes it back later: a selection in between is
  undone, and the worker, which the selection stopped, does not follow.
  When `AI_MEMORY_EMBED_API_KEY_ENV` names a variable that is not set there is no
  key, even if one is given directly (setting `Misnamed`).
* *Layers*: layers are truncated and then written (`paths-and-io.js:105`). A
  signature is a hash of contents (`validation.js:44`), so a dream that signs the
  inbox, reads it while a rebuild has it truncated, and reports when the same
  lines are back shows no inbox, and is called aligned. Of two rebuilds the
  slower puts back what the faster had replaced; a session layer read while it is
  truncated loses what it held; every rebuild appends imported sessions again.
* *Store*, command line: `mcp-memory-tools.js write` does not wait for the write
  it starts; it prints `{}` and leaves with success also when the facts are
  refused.

## Not modelled

* *Out of TLC's reach*: ranking and scoring as floating-point functions of
  texts, similarity of texts, redaction, tokenization, the approximate index.
  The models keep the decisions made of scores (thresholds, ties) over
  small numbers.
* *Pure I/O or sequential*: the launcher, which starts services one after the other and
  forwards signals; the watchdog and sync scripts, whose steps on the store
  cannot run for the reasons above; CLI, setup, migrations, web; discovery of
  directories and of Python.
* *Within modelled components*: request parsing and limits, host checks,
  Windows shim resolution (proxy); statistics (cascade); metrics
  and the catalog of the search worker, and its shared output buffer; transcript
  slicing, path validation, and the rename that Windows does in two steps
  (hooks); schema checks of records and the per-path mutexes in one process
  (store writes); extraction of triples from texts and properties of entities (graph); the
  transformer and Gemini adapters (index); argument validation, formatting and
  the HTTP endpoint (tools); wording of documents (layers);
  `backpressure.py`, which only a benchmark uses.

## Plan

The modules are in place, and the safety properties of the runs are proved. What
remains is to prove more of what the modules state beside them:

1. `HealthyLoadBounded` and `OnlyDrainForgets` of the pool.
2. `FinishedExact` and `SelectionTakesEffect` of `EmbeddingIndex`: both follow
   from what a build knows of the entries it reuses, and from the lemmas about
   the resolvers.
3. `AnswersMoveForward` of `KnowledgeTools`.
4. That `MemoryBridge` leaves the daemon's side as `DaemonSpec` has it, apart from
   tasks that are added.
