# do-as-beginner: a TLA+ model of the framework

`do_as_beginner` is a Python 3 framework on Django: a composition root with
plugins and a dependency container, an ASGI lifespan, a Celery task runtime
with tiers, retries and dead letters on RabbitMQ, and a content-addressed blob
store on PostgreSQL. This directory holds TLA+ modules of its stateful parts,
the TLC runs that check them and proofs of the properties that matter most.

Paths below are relative to `src/src/do_as_beginner/`. `PROJECT.json` maps every
definition to its lines.

## Inventory

| Component | State | Operations | Interacts with |
|-|-|-|-|
| Task trace (`tasks/models.py`, `enums.py`) | one row per task: state, attempts | `record_initial/running/retry/success/failure`, `finalize_dead` | written by the producer, the worker's signal handlers and the drainer, each of them a read and a save without a lock |
| Task runtime (`tasks/handlers.py`, `task.py`) | tier queues, dead letter queue, `DelayedRedelivery` rows | `dispatch`, prerun/retry/success/failure hooks, `drain`, `dispatch_due`, `notify_dead_letter` | Celery (autoretry, acks late), RabbitMQ (redelivery of lost messages, dead lettering), PostgreSQL |
| Routing (`tasks/decorators.py`, `scheduler.py`, `base/config/core.py`, `server/settings.py`) | `DECLARED_TIERS`, `PERIODIC_ENTRIES`, the settings of each process, `AppConfig._instance`, the beat schedule | `task`, `periodic_task`, `resolve_tier`, `AppConfig.load`, `bootstrap` | three kinds of process that import different modules and read one file |
| Blob store (`blobs/service.py`, `models.py`) | `Blob` rows with a reference count, `BlobReference` rows | `put`, `attach`, `put_and_attach`, `release`, `discard`, `purge_references`, `acreate_tracked` | PostgreSQL transactions at READ COMMITTED |
| DI container (`server/depi/di.py`) | registrations, type index, cached values | `register`, `get`, `aget`, `inject`, `ainject` | plugins register, requests resolve concurrently |
| Lifespan (`server/core/lifespan.py`) | the exit stack | `__call__`, `_startup`, `_shutdown` | the ASGI server; the plugins' context managers |
| Composition root (`server/setup.py`, `core/assembly.py`, `core/registry.py`, `asgi.py`) | `AppConfigCore._assembled`, `settings.configured`, the assembly | construction, `setup`, `_adopt_assembled`, `create_application` | plugin hooks, Django |
| Server process with OtelPlugin (`plugins/otel.py`, `asgi.py`) | the three telemetry providers, what the plugin holds of them | `on_app_init`, `__lifespan__`, `shutdown`, the interpreter's exit | the composition root, the lifespan wrapper, the SDK's `atexit` hooks |
| Celery process (`asgi.py`, `tasks/scheduler.py`) | the command line | `celery_entrypoint`, `apply_worker_concurrency` | the composition root, Celery's option parser |
| BM25 embedder (`lib/agentic/embedder/`) | a generator's position and batch | `embed`, `query_embed`, `iter_batch` | documents and queries meet in token ids only |
| Settings manifest, configuration structs, CLI, HTTP views, the other plugins, OpenAI embedder, Redis, migrations | none, or third-party clients | | see "Not modelled" |

What is hard in each, and what makes it correct:

- **Tasks.** Three processes and a broker share the fate of one task, and no
  transaction spans a message and a row. A task must not be lost, its budget
  must be exact, its trace must not go back, everything must end. Crashes of a
  worker, of the drainer, of `dispatch_due` and of the producer fall between
  any two statements.
- **Routing.** What is validated at the start of a process and what is used
  later are two readings of the same file; what a process knows of a task
  depends on what it has imported, and when.
- **Blobs.** The count of a row must be the number of its references under any
  interleaving of statements, and a referenced content must be there. Row
  locks, unique keys, savepoints and deferred foreign keys decide.
- **Container.** A singleton must be built once and after its dependencies,
  cycles must be found and resolutions must end, also when they overlap at an
  `await` or when a provider raises.
- **Lifespan.** The answers to the server must be true and nothing may stay
  open, whatever raises or is cancelled.
- **Composition root.** One assembly per process; hooks run once; an
  application has what its registry declares.
- **Server process.** Whatever fails, from the setup to the last exit, every
  telemetry provider is shut down, after what logs through it and before the
  server hears that the shutdown is complete, and not twice without reason.
- **Command line.** One option has several spellings; a default must not override
  what the operator chose.
- **BM25.** Nothing is lost at the boundary of a batch, the generator ends, and
  ids that collide do not mix weights.

The hazards of `PROJECT.json` list these at their lines, with the properties
that watch them.

## Modules

### Tasks

`TaskTrace` has the row operators of `TaskHandler`: what each `record_*` saves,
given what it read (`RunningRow`, `RetryingRow`, `SuccessRow`, `FailedRow`,
`DeadRow`), and `Frozen`, the test of terminal states.

`TaskRuntime` composes them into the system. One action is one database
statement or one broker call: `Send` and `RecordInitial` are the two halves of
`dispatch`; `Deliver`, `PrerunFetch`, `PrerunSave`, `BodySucceeds`,
`BodyRetries`, `BodyFails`, `PostFetch`, `PostSave` and `Settle` are a delivery
in a worker child; `DlqGet`, `CountRows`, `InsertRow` or `FinalizeFetch`,
`FinalizeSave`, `Notify`, and `Ack` are one message of `drain`; `SelectDue`,
`SendDue`/`SendFails` and `CommitDue` are a batch of `dispatch_due`, whose rows
are locked until the commit. Faults are `Crash`, `HookFails`, `ProducerDies`,
`DrainFails`, `DispatchAborts` and `SendFails`, at most `MaxFaults` of them.
All the tiers are one queue, since they differ in nothing but their workers.

`DrainFails` is how the handling of a dead letter breaks off. `DrainAborts`: an
exception other than a `ValueError`, or a crash, gives it back. `DrainDrops`: a
`ValueError` acks it, at the two places where the code can raise one on a message of
the framework, the beginnings of `handle_message` and of `notify_dead_letter`.
`BrokerDrops`: the broker discards a dead letter that has been given back `DlqLimit`
times (RabbitMQ has a default limit, and the dead letter queue sets none).
`settled[t]` then has `"dropped"`.

`DeliveryPromise` is the abstract specification: a dispatched task is
redelivered at most `Budget` times, buried only after that, and no outcome is
taken back. A task may be dropped in it (`Drop`). `TaskPromise!KeepsPromise` says that
the runtime implements it.

### Routing

`Routing` has the processes web, beat and internal, each with its own imports,
cached configuration and settings, one `config.yaml` that may change, and one
task that is followed through its queue, the dead letter queue and its row.
`Load` and `Cached` are the two results of `AppConfig.load`. `Bootstrap` builds
the schedule and `CeleryStarts`, afterwards, imports the task modules, in the
order of `celery_entrypoint`. A plugin's beat entries are an input of
`Bootstrap`: nothing in `src/` contributes one, its tests do. `drain` is
`DrainStarts`, which reads the prefix of the batch, `HandleMessage`, which reads the
configuration again for the message, and `DrainEnds`; an edit may come between any
two of them (`Overtaken`).

### Blobs

`BlobStore` models a table row by its committed version, the version its writer
has written and the writer. `Sees` is visibility at READ COMMITTED, `Free` and
the `Blockers` operators are lock waits (writers of a row, of an equal unique
key, the checker of a foreign key), `DeadlockAborts` is the deadlock detector,
`Commit` checks the deferred foreign keys. The calls are sequences of SQL
statements with the exceptions the code catches; the nested `async_atomic` of
`attach` and `put` is the savepoint that `CountUndone` rolls back. Primary keys
that nobody knows any more are used again, which keeps the model finite.

`BlobLedger` is the abstract specification: what is committed moves in whole
calls. `BlobPromise` maps the committed rows to it, and its `KeepsLedger` says that the
store implements it.

### Container, Lifespan, Server, Assembly, CeleryWorker

`Container` keeps, for each caller, the stack of registrations under
construction (`_resolve_sync` runs without interruption by other callers on one
event loop, `_resolve_async` may be interleaved at every await), and beside it the
set `path` that the code hands down and maintains on its own (`Push`, `Return`, `Fail`):
a cycle is looked for in the set. Graphs come
from the set `Wiring`. `AnswerIsRight` compares the recursive resolution with a
definition by reachability.

`Lifespan` is one call of the wrapper; every `enter` and `exit` may raise or be
cancelled, and a context may swallow the exception.

`Server` composes `Lifespan` with OtelPlugin into a process: `OnAppInit` (or
`OnAppInitRaises`, in the middle), `CreationFails` or `CreateApplication`, then the
steps of the wrapper, of which `ServeEnter`, `ServeEnterFails` and `ServeOtelExit`
are those that run the plugin's lifespan, and `ProcessExit`, which runs the `atexit`
hooks that are still registered (`hooks`). The plugin may stand at any place among the
contexts. `Reached` is how far `shutdown()` gets when a provider raises; `KeepsHook`
are the providers that keep their hook then (the SDK's providers of traces and logs
unregister it last, that of metrics before it raises).

`Assembly` has several roots in one process, constructed with any plugins and
set up in any order, also from within a hook of another, failing at any step
and tried again; Django may have been configured by somebody else. `at` is the
position of the loop of `setup` over the plugins and, for each, over its three
hooks; `RunHook` runs the hook there, or passes it over when the plugin has none.

`CeleryWorker` extends `Assembly` by `celery_entrypoint`: a process whose only root
is set up goes on in Celery with the words of a command line, to which
`ApplyConcurrency` may have appended the quota of a tier. `Reading` is what Celery
makes of an option.

### Bm25

`Bm25` is one call of `embed()` and the queries after it. `Start` chooses between the
serial path and the pool, whose workers cannot be made (`StartPool`), `NextBatch` is a turn of `iter_batch` with `raw_embed`,
`Deliver` one `yield`. `TokenId`, `Stem`, `TermFrequency` and `QueryEmbed` are the
functions of these names; a weight is the pair of numbers the formula computes it
from, since `k`, `b` and `avg_len` are the same everywhere. An embedding is the
dictionary of the code, a function from ids to weights; the loop of `_stem` is a
recursive function of the number of tokens read. Tokens, hashes and texts are
members of small sets, not strings.

## Runs and bounds

| Run | Bounds | Shows |
|-|-|-|
| `runtime_faults` | 1 task, 2 workers, 1 internal child, budget 1, 1 autoretry, delivery limit 1 (0 in the dead letter queue), 1 fault | `NoTaskLost`, `DeadOnlyAfterBudget`, `RedeliveryLadder`, `RowNeverRegresses`, `ExecutionBound`, refinement of `DeliveryPromise`, `TypeOK` |
| `runtime_live` | 1 task, 1 worker, 2 internal children, budget 1, 1 autoretry, delivery limit 0 (1 in the dead letter queue), 1 fault, fair | `DispatchedIsSettled`, `DeadIsAnnounced`, `SuccessOnlyBuried`, `AttemptsMatchRuns`, `ExactlyOneCopy` without the fault, with overlapping batches |
| `blob_store` | 1 content, 2 clients, 2 objects, every call but purge, fair | `CountMatchesRefs`, refinement of `BlobLedger`, `EveryCallReturns` |
| `blob_purge` | 1 content, 2 clients, 3 objects; put_and_attach, release, purge | `CountNeverAbove` (purge miscounts in one direction only) and refinement of `BlobLedger` |
| `di_graphs` | 3 keys; 1 caller over every wiring with at most one parameter each and one async provider, 2 callers over shared and cyclic graphs; fair | `AnswerIsRight`, `DependenciesFirst`, `PathIsExact`, `EveryCallReturns` |
| `server` | up to 4 contexts, OtelPlugin any of them, any providers that raise; fair | of the wrapper `AnswersAreTrue`, `NothingLeaks`, `ReverseOrder`, `StartupIsAnswered`; of the process `OnceUnlessItRaised`, `TelemetryOutlives`, `CompleteMeansFlushed` |
| `assembly` | 3 roots, up to 2 of 3 plugins each; command lines of up to 2 options, spelled in every way the code looks for and in those it does not (which `ConcurrencyIsChosen` excepts) | `OneAssembly`, `HookedOnce`, `ApplicationsFollowRegistry`, `ConcurrencyIsChosen` |
| `bm25` | up to 3 of 6 documents, batches of 0 to 3, 7 queries, hashes of 8 bits; fair | `NothingDropped`, `WeightsOfTokens`, `QueryFinds`, `EmbedEnds` |
| `routing` | 1 task, 3 configurations or no file, 2 edits, 1 plugin entry | `LadderCoversBudget`, `TierNeverChanges`, `TicksAreScheduled` |
| `runtime_stale_save`, `blob_purge_race`, `di_singleton` | as above | expected violations, see below |

Why they are enough. Rows and messages of different tasks are never read
together except by a batch of `dispatch_due`, which treats each row alike, so
one task meets the races; a fault gives it two rows. Two children on a side are
the fewest that race: two workers in one run, two drainers and dispatchers in the
other. Budget 1 separates "within", "at" and "over". A fault separates any two
statements; with delivery limit 1 a lost worker's message is delivered again, with
limit 0 it is dead-lettered. With limit 0 of the dead letter queue the one fault can be
a discarded dead letter, with limit 1 it is given back. In the blob store all statements of a call concern
one content, and three objects give a purge a count that stays positive; `MaxBlob`
and `MaxRef` are large enough that no insert is ever refused an identifier. A third
key closes a cycle that a pair cannot; a fourth context gives an unwinding with
neighbours on both sides of the failure, and OtelPlugin contexts on both sides. A
list of three is shorter than, as long as and longer than a batch; the documents
hold two tokens of one id, the smallest hash, both cases and stop lines in both.
The roots of `assembly` are symmetric: nothing names one. Two options are the most
that the quota depends on. Of the configurations one has another prefix and a smaller
budget, one a ladder that is too short; two edits let a file be changed and changed
back.

`CHECK_DEADLOCK FALSE` is set in every configuration: tasks settle, clients may
rest, a lifespan call returns and a process may have nothing to do; that
something still happens is what the liveness runs check.

## Fairness

- `TaskRuntime`: weak fairness of each worker child, of each internal child's
  drain and dispatch, and of the clock. Prefork children consume as long as they
  live and are restarted by their parent; beat publishes both ticks for ever.
  Nothing forces a dispatch, a fault or the outcome of a task.
- `BlobStore`: strong fairness of the statements of each client and weak
  fairness of the deadlock detector. PostgreSQL grants a lock in the order of
  waiting, so a statement that can go on again and again does go on. No call
  has to begin and no client has to die.
- `Container`: weak fairness of each resolution; an event loop resumes every
  ready task.
- `Server`: weak fairness of the wrapper's own steps, that is, the awaits of the
  contexts end. That the server asks for a startup or a shutdown, and that the
  process exits, is not assumed.
- `Bm25`: weak fairness of the generator: its caller goes through it to the end.

## Proofs

`TaskRuntimeProofs`, for any sets of tasks, workers and internal children and any
budget, retries, limit and number of faults:

- `TypeCorrect`: `TypeOK`. No copy is ever taken from an empty queue, each child
  holds what its program counter says, every saved row is a row. `TypeNext` goes
  action by action and variable by variable.
- `DeadAfterBudget`: a trace is DEAD only when the redelivery rows of the task
  reach the budget, with any number of drainers. The property is not inductive:
  a DEAD row may be held by a worker, read and about to be saved again, or by a
  drainer that has counted and not yet written. `DeadInv` adds that each held row
  that is DEAD, and each drainer in `finalize`, belongs to a task that has used up
  its budget; rows are never removed (`RowsStep`, `ExhaustedStays`).
- `NoRegression`: a row neither disappears nor goes back to `enqueued`; what a
  child holds to save is never an `enqueued` row.

- `NothingLost`: `NoTaskLost` says that
  somebody carries the task, unless the code or the broker has let go of it in one of the
  ways the model knows (a failed row, a dropped dead letter), and the inductive `LostInv` what the hand-overs need: a
  drainer that is about to insert, or to bury, has a number within the budget, or above it,
  so that its acknowledgement follows a row or a settlement (`BudgetChecked`); the rows of a
  batch of `dispatch_due` are pending until its commit (`LocksPending`) and in no other
  batch (`LocksApart`), so that a commit gives up nothing that was not sent.
- `LadderWithoutGaps` and `PromiseKept` need `OneChild`, a single internal child as
  `compose.yaml` deploys it. `LadderInv` says that the number a drainer has counted is still
  right when it is used, since nobody else inserts; it gives the ladder. With the locks of
  `LostInv`, and with `OnlySent` (what is under way was dispatched), it gives the refinement:
  each action is a step of `DeliveryPromise` or changes nothing that it knows of.

`FaultFreeProofs`, for the same constants, has what a fault may break:

- `OneCopy`: until it is settled, a dispatched task is in exactly one place, whatever the
  batches and drainers do at the same time; afterwards it is nowhere. `Places` is the set of
  places where a copy is; `Single` says that it never has two members.
- `ExecutionsBounded`: without a fault a task is executed at most
  `(1 + MaxRetries) * (1 + Budget)` times. That each fault costs no more than the executions of
  the messages it can add, the rest of `ExecutionBound`, is checked by `runtime_faults` only.
  The bound alone is not inductive. `Cap` gives every place a price, the number of executions
  that may have been started when the copy is there, and `Paid` says that no copy is where it
  cannot pay: a message has paid for its retries, a dead letter for a whole delivery.
- `SuccessStays` (with faults) and `AttemptsCounted` (without) need `OneWorker`, one worker
  child, as `compose.yaml` deploys the default and the low tier: only the drainer replaces a
  SUCCESS, and `attempts` is the number of executions whenever no worker has the task.
  `HeldIsFresh` says that a worker about to save the row of a task recorded SUCCESS is saving a
  success; `Counts` relates the executions to the attempts, statement by statement. With two
  workers both fail: `runtime_stale_save` shows how the first does.

`RoutingProofs`, for any configurations, declarations and bounds: `RoutingTyped`,
`TicksSurvive`, `LadderSuffices` and `TierKept`. The invariant `RInv` says that a process with
a schedule was set up (`Bootstrapped`), that every process that was set up has settings the
validator let through, and that, without an edit, what such a process loads later is what it
has validated (`Validated`). That a tier is lost only to an edit under a batch follows from
the guard of `HandleMessage`: the message is of the prefix that the batch was opened with.

`ContainerProofs`, for any finite set of dependencies, any providers and any number of
callers, resolving synchronously or not: `ContainerTyped`, `PathsAreExact`,
`DependenciesCached` and `AnswersAreRight`. `CInv` describes the stacks of all callers: each frame is a
registration that is not on the stack twice and `path` is the set of them (what `Return`
discards is not below, see `Returned`), each was asked for by the one below it, and the
arguments a frame has collected are backed by what is cached. Registrations are only
added, so that what a parameter once led to stays a candidate; since a type that has
a second candidate is an error, a cached argument stays the right one.

`AnswersAreRight` relates the depth-first search to the definition by reachability.
`Judging` says of each stack that it leads from the key that was asked for, need by need
(`Linked`), that the parameters a frame has passed are settled, and that a frame which another
caller has cached in the meantime has everything it needs. So, when a resolution fails,
none of its frames is cached (`StackFresh`: the last one that were would have the next one
cached, too), all of them are in `Fresh` of the key, and the error is about one of them; when
the key was met on the path, the frames from it on are the cycle. When it succeeds,
everything the key needs is cached. Nothing registers while somebody resolves (the guard of
`Register`), on which this rests.

`BlobStoreProofs`, for any contents, objects, clients and bounds, and under any
interleaving of statements, lock waits, deaths and deadlocks:

- `BlobTyped`, with every call. `BInv` says what a call remembers at
  each statement and what it has written. Every step but a commit is `Quiet`: it writes
  rows that its client may write and commits nothing. A commit is covered by the
  deferred keys, on both sides: what it inserts refers to a blob it sees, of what it deletes
  it sees no reference.
- `CountHolds`, when `purge` is not among the calls. `Mine` says of each client that it has
  written at most one reference, that the blob of it is locked by the same client before
  the commit, and that the count of a blob it has locked is the number of references it
  sees, plus the one it has still to insert. `Undisturbed` is what a step of one client
  leaves to the others: what they know stays or is gone for good, and the references
  of a blob they have locked do not change. A purge violates `Mine`: it counts
  down for a row that somebody else has deleted (`blob_purge_race`).
- `LedgerKept`, under the same assumption: `Spec => KeepsLedger`. A step that is `Quiet`
  changes neither the stored keys nor the holders. `KeysUnique` and `RefsUnique` extend
  the unique constraints to rows not committed yet; they follow from the waiting of an
  INSERT for the writers of its key. `OneBlob` says that a call writes one blob at most, and
  `Ends` what a call has written when it commits: that is why the commit of a put or an
  attach is `Put` or `Attach`, of a release `Remove` of one pair (and of the content when
  `KeysHold` lets it delete the blob), of a discard `Discard`.

`ServerProofs`, for any number of contexts:

- of the wrapper alone `AnswersHold`, `NoLeak` and `Reversed`. The inductive `IInv` says that
  the exit stack holds exactly the open contexts in the order of their entry, and relates
  the program counter, what was sent and `self._stack`.
- of the process, with OtelPlugin at any place. `ServesLifespan` shows that each step of the
  process is a step of the wrapper or none, so that the wrapper's invariant holds in it. `SInv`
  adds what ties the providers to the wrapper: they are up until OtelPlugin's context is exited,
  every provider that `shutdown()` reaches is down once it was, every provider still up has
  its hook, and one that was shut down has it only if `shutdown()` broke off there.
  `ServerTyped`, `OneShutDown`, `Outlives` and `Complete` follow.

`AssemblyProofs`, for any roots, any plugins with any hooks and any command line:

- `RootsOfOneAssembly`, `HooksOnce` and `LifespansFollow`. In `AInv`, `RootsAgree` says that the
  root that builds is the published one, that every root that is set up has its assembly and its
  plugins, and that nothing is published once Django is configured; `HooksInOrder` that the
  hooks that were called stand before the position of the loop, so that the next is new; and
  `Gathered` that the lifespans of an assembly are those of the plugins before it, in their
  order, unless the setup was cut short.
- `WorkerAssembles`: the Celery process takes only steps of `Assembly`, so these hold in it.
- `WorkerConcurrency`: `ConcurrencyIsChosen` for every command line and every quota; the property
  itself excepts values attached to `-c` and `-Q` and repeated queue options. `Started` says
  what the words are once Celery reads them, and the lemmas about `Reading` which of two
  spellings of an option it takes. `CommandLineAssumption` says that a word is an option and its
  value and that a concurrency option has one, as Celery requires.

`Bm25Proofs`, for any tokens, hashes, stop lines, documents and sizes:

- `EmbeddingsArrive`: what is out, in the batch and still to be read are, in this order, the
  documents (`Placed`, the invariant), so nothing is lost or moved at the boundary of a batch.
- `WeightsAreOfTokens`: an embedding that is out has the ids of the tokens left by `_stem`, each
  with the weight of a token of that id.
- `QueriesFind`: a document that shares a kept word with the query shares an id with the
  answer; `Answered` says whose answer it is. It excepts the smallest hash, as the property does.

The tokens that `_stem` keeps are a recursive function of how many were read. The library's
induction theorems take an operator and cannot be used; `StemmingExists` and `StemOf` argue by
the least number for which the claim fails, which a set of naturals has.

The assumptions are those named in the modules (the bounds are natural numbers);
TLC evaluates them in every run.

Only model-checked:

- the liveness properties, since fairness and `ENABLED` are out of the prover's reach:
  `DispatchedIsSettled`, `DeadIsAnnounced`, `EveryCallReturns` of the blob store and of the container,
  `StartupIsAnswered` and `EmbedEnds`;
- with purges, the refinement of `BlobLedger` and `CountNeverAbove` (`blob_purge`);
- `ExecutionBound` after a fault.

Every other property of a passing run is a theorem, under the assumptions named above (`OneChild`
and `OneWorker`, which hold in the runs that check these properties; no purge).

## Disagreements with the documentation

Three are runs that are expected to be violated; `PROJECT.json` quotes the lines
they contradict.

- `runtime_stale_save`: `record_retry` saves a row it read before the published
  retry succeeded, and SUCCESS becomes RETRYING ("terminal states are frozen").
- `blob_purge_race`: `purge_references` decrements the count for a row that a
  concurrent release has deleted.
- `di_singleton`: two resolutions that overlap at an `await` build two instances
  of a "process-wide singleton".

Others met while modelling, each visible in the model's actions:

- `server/settings.py:245-251` says that an unhandled failure is not acked and redelivered by
  the broker up to `x-delivery-limit`, so that the bound is "(1 + autoretry) per broker
  delivery". Celery rejects a failed message without requeue
  (`task_acks_on_failure_or_timeout` is off), and RabbitMQ dead-letters it at once, whatever
  the limit; only messages of lost workers are redelivered. `BodyFails` and `Settle` do this, and
  `ExecutionBound` counts the dispatch, the redeliveries of the budget and the messages that
  faults add, not broker deliveries of a failure.
- The same comment says that failures are dead-lettered "instead of being silently dropped".
  `drain` acks a message on any `ValueError` (`tasks/handlers.py:541`), and `handle_message`
  (`:493`) and `notify_dead_letter` (`:315`) parse the configuration again, whose
  `ValidationError` is one, as is that of `urllib` for a malformed webhook URL (`:336`): with
  such a configuration dead letters are dropped, or buried without being announced
  (`DrainDrops`). `NoTaskLost`, `DispatchedIsSettled` and `DeadIsAnnounced` except it.
- The dead letter queue is declared without a delivery limit. RabbitMQ 4 then gives a quorum
  queue one of 20: a dead letter that is returned more often, by a drain that fails again and
  again, is discarded (`BrokerDrops`).
- `drain` reads `queue_prefix` once for a batch and `handle_message` again for every message
  (`tasks/handlers.py:523`, `:493`): after an edit in between, `_tier_from_xdeath` (`:468`) does
  not recognise the queue and the redelivery goes to the default tier. `TierNeverChanges` excepts
  such an edit.
- OtelPlugin's docstring says that "the two paths cannot double-run" (`server/plugins/otel.py:40`).
  A tracer or logger provider whose `shutdown()` raises in the lifespan has not unregistered
  its `atexit` hook yet and is shut down again at the exit. `OnceUnlessItRaised` says that this
  is the only one.
- `finalize_dead` does not ask `_frozen` (`tasks/handlers.py:252`): a task recorded
  SUCCESS whose acknowledgement was lost can end as DEAD. `SuccessOnlyBuried` says
  that nothing else replaces a SUCCESS.
- A redelivery marked `failed` (`tasks/handlers.py:586`) is never selected again;
  `DispatchedIsSettled` and `DeliveryPromise` have it as an end of its own.
- The count and the insert of `handle_message` (`:502`, `:505`) are two statements:
  with two internal children and a duplicated dead letter a number is used twice.
  `RedeliveryLadder` is checked with one child, as `compose.yaml` deploys it.
- An attach and a release can deadlock in spite of the lock order of
  `blobs/models.py:140-143`, through the unique index of the references.
- A blob released during an attach is noticed by the deferred foreign key at the
  commit (`BlobBackendError`), after the fallback of `blobs/service.py:205` that
  would raise the `BlobNotFoundError` of the README.
- A root whose setup failed after `settings.configure()` is adopted, half-assembled,
  by the next `setup()` of the process (`server/setup.py:63-67`);
  `ApplicationsFollowRegistry` excepts it.
- `AppConfig.load()` parses a file again at each call (`base/config/core.py:44`), and
  only the start of a process validates it: after an edit a drain may run out of
  ladder and leave the dead letter at the head of the queue. `LadderCoversBudget`
  excepts edits.
- `dispatch()` by name in a process that has not imported the task's module
  resolves to the default tier (`tasks/decorators.py:51`).
- `Scheduler.bootstrap` says that it runs "after task import", but
  `celery_entrypoint` calls it before `cl.start()`, and Celery's autodiscovery and
  `CELERY_IMPORTS` are lazy: entries of `@periodic_task` in modules that nothing
  else has imported are not in the schedule.
- `apply_worker_concurrency` injects "when absent" (`tasks/scheduler.py:94`), but does
  not see `-c8`: the quota comes last and replaces the 8. Nor does it see `-Qname`,
  and of several queue options it takes the first, Celery the last.
  `ConcurrencyIsChosen` excepts these.
- The pool of BM25 passes `tokenizer` to workers whose `Bm25` takes no such
  argument (`bm25.py:133`): every `embed()` that has a batch for a pool raises. The smallest hash has an
  absolute value that `query_embed` cannot store (`bm25.py:71`), so a query with a
  token that was indexed can raise. A `batch_size` of 0 embeds nothing and says
  nothing. Stop lines in upper case never match (`bm25.py:144`).
- OtelPlugin instruments Django in its lifespan, after `create_application` has
  loaded the middleware that the instrumentation adds to (`docs/dev-guides/plugins.md:64`).
  Contexts declared before it are exited after it, when its providers are down.
- The three entry points build `AppConfigCore()` without plugins; the plugins of
  `Assembly` and `Server` are those of an application that passes its own.
- `AssemblyContext` says that it is "collected before `settings.configure()`"
  (`server/core/assembly.py:16`), but the settings are built from a new one before any
  hook of a plugin runs (`server/setup.py:70-81`): apps, middleware, settings and
  task modules that a hook adds to it come too late.

## Not modelled

- `SettingsBuilder`, configuration structs: data computed once; the queues and the
  validation that matter are parts of `TaskRuntime` and `Routing`.
- Redis, Qdrant and Blobs plugins: a client registered with the container or closed
  in a lifespan; the protocols are modelled, the clients are not.
- The contributions of the assembly other than lifespans and beat entries: nothing in
  `src/` makes one.
- CLI, HTTP views and responses: no state. Reads of the blob store change none.
- The OpenAI embedder: an HTTP call. BM25's segmentation (jieba) and floating point.
- Timestamps, error texts, webhooks' content, logging.
- Dead letters that are no messages of the framework, which `drain` cannot read and drops.
- A configuration file that does not validate, except for what it does to a dead letter
  (`DrainDrops`): elsewhere `load()` raises and nothing has happened yet.

## Plan

Done, in this order: task runtime with its promise and first proofs, blob store
with its ledger, container, lifespan with its proofs, composition root, routing,
the server process with its proofs, BM25, the Celery process; then the proofs about lost
tasks, the promise, routing, the container, the counts of the blob store and its ledger;
then those about the runtime without faults, the composition root, the command line, BM25
and the answers of the container.

Left: the ledger with purges, for which `OneBlob` would have to follow a purge over several
contents, and the bound of the executions with faults.
