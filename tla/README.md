# AMFS in TLA+

AMFS is a shared memory for agents: entries addressed by `entity_path/key`, every
write a new version, outcomes credited to the entries that were read before them,
guidance computed from the outcomes, digests compiled from the entries in the
background, and a receiver that replays recorded requests against a customer's agent.  This directory holds TLA+ models of
the parts where several actors share state, the TLC configurations that check them
on small instances, and TLAPS proofs of safety for every instance.

Run, in this directory, `tlc -config X.cfg M` for a model (the pairs are in
`PROJECT.json`) and `tlapm X_proofs.tla` for the proofs, with X one of `FileStore`,
`TransactionFlush`, `ReplayReceiver`, `CortexWorker`, `PgStore`, `AgentSession`,
`TracePartitions`, `ActionLearning`.

## Inventory

Paths are under `src/packages/`.

| Component | State it keeps | Operations | Hard behaviour | Correct when |
|---|---|---|---|---|
| Filesystem adapter (`adapters/filesystem`, `core/lock.py`) | one directory per key, `v<n>_current.json` and `v<n>_superseded.json`; `.lock` | `read`, `write`, `commit_outcome`, `write_batch`, `increment_recall_count` | unlocked reads, two renames per write, processes that die between them, flock timeouts | versions dense and immutable, one live, no write built on a stale read |
| Copy-on-write engine (`core/engine.py`) | `ReadTracker`: versions read | `read`, `write` | reads before it locks | a write lands right after what it read |
| Evidence (`core/evidence.py`) | none: rules on an entry's record | inherit, credit | outcomes about rewritten claims, restatements | no outcome counted twice or for another claim |
| Lifecycle manager (`core/lifecycle.py`) | a thread | `sweep` | lists first, writes later | expired entries are archived, no others |
| Transactions and DAG (`core/transaction.py`, `dag.py`) | pending writes, commits with parents | `flush`, common ancestor | several locks at once, crash between batch and commit, two flushes on one head | batches land whole and in one order, no circular wait, commits name what landed |
| S3 adapter (`adapters/s3`) | objects in the same layout | same as filesystem | no lock at all | as filesystem, where it can be |
| Postgres adapter (`adapters/postgres/adapter.py`, `evidence_sql.py`) | tables of entries and branches | write transaction, outcome trigger, branch, merge, fork, rollback | `FOR UPDATE` under read committed passes over a row, a unique constraint that binds no NULL, answers lost after the commit | as filesystem, on main |
| Trace partitions (`adapters/postgres/trace_partitions.py`) | the table of decision traces, its monthly partitions, their row security | rebuild, create, drain, copy of row security, retention | several adapters at once, one transaction per month, statements that see newer rows than the one before | no trace and no policy lost, nothing hot stripped, nothing old kept |
| AgentMemory and runs (`sdk-python/memory.py`, `run.py`) | tracker, attempts, covariates | `read`, `write` with a conflict policy, `attempt_failed`, `commit_outcome`, `begin` | check then write, rewrites between read and outcome, clear after commit, abandoned runs | an outcome reaches what was read, attempt by attempt, once |
| Guidance (`core/actions.py`, `sdk-python/guidance.py`) | the record of outcomes | aggregate, recommend, plan | what resolves a situation changes; covariates; runs that overlap | the fleet relearns quickly and never gives up on the fix |
| Replay receiver (`sdk-python/replay.py`) | `_seen`, `_inflight`, executor, hand-off flags | `handle`, `_run_in_background`, `_answer`, `drain`, `close` | redelivery, timeout against answer, shutdown | one run per delivery, one outcome per run, one close per memory |
| Cortex worker (`cortex/worker.py`, `compiler.py`) | `_pending`, `_scope_tenant`, `_anchor_fingerprints`, threads, a LISTEN connection | notify, debounce, recompile, catch-up | lost notifications, threads of old connections, compilations over each other | every digest reflects the entries in the end |
| SSE (`http-server/sse.py`) | subscriber queues | subscribe, broadcast | threads against event loops | events arrive in order or not at all |
| Connectors (`connectors/webhook.py`) | duplicate window | handle | remembers before it records | an event is recorded once |
| Pattern detection, briefing, consolidator, `learning.py`, ranking | none of their own | functions of entries | floating point | scores in range |
| HTTP server, HTTP adapter, MCP server, CLI, integrations, TypeScript SDK, browser extension | sessions at most | one call per request | none beyond what they call | they pass the call on |

How they interact: an agent calls AgentMemory, which calls the engine, which reads
and writes one adapter; several processes share an adapter's storage and nothing
else.  Guidance is computed when a run begins, from the outcomes of earlier runs, and
followed action by action.  The lifecycle manager writes to the adapter from a thread of its own.
Postgres announces writes to the Cortex workers, which read entries and upsert
digests.  Every Postgres adapter that starts sees to the trace table.  The replay receiver opens an AgentMemory per run and hands it to the
customer's runner on another thread.

`PROJECT.json` names every component with its status and every hazard at its line.

## Modules

### FileStore: the filesystem adapter under the engine, outcomes and the sweep

`FileStore.tla` models one store shared by processes (`Agents`).

* `cur[k][v]` and `sup[k][v]` are the two file names a version can have; `lock[k]` is
  the flock; `pc[a]` and `job[a]` are where each process is in its operation and the
  operation's local variables; `late` is the passing of every `ttl_at`.
* An operation is cut exactly where another process can come between two system
  calls.  `StartWrite`, `Locate`, `Load` are `CoWEngine.write` reading the current
  entry with no lock (the directory listing, then the open, which may find the file
  renamed).  `Acquire`, `LockTimeout`, `Decide`, `Supersede`, `Publish` are
  `FilesystemAdapter.write`: the flock with its timeout, the numbering and the
  version check, the rename of the live file, the rename of the temporary one.
  `StartOutcome` and `Pick` are the loop of `commit_outcome` over the cited entries,
  `StartSweep` and `Pick` that of `LifecycleManager.sweep`.  `Crash` kills a process:
  its flock goes with it, its renames stay.
* What an entry says is a member of `Claims`.  Its integrity chain is the sequence of
  claims its hashes cover, so two chains are equal exactly when the code's are (no
  collisions).  Its record is one number, `outcomes`; the arithmetic of confidence is
  left out, and the loop over an outcome's steps is one count.  `by` and `base` are history variables inside the entry: which operation
  produced it, and from which version.  Nothing reads them but properties.
* Not modelled: the temporary file (it is complete before its rename), JSON and paths,
  `increment_recall_count` and the watcher.  `write_batch` and the commit files are
  TransactionFlush's.

`VersionedStore.tla` is the abstract store: per key one sequence that only grows.  A
claim stated on top of a version it read is appended only right after that version;
outcomes and archives are promised no such condition, because the code does not
enforce one.  `FileStoreRefinement.tla` maps the files to that history and states
`ImplementsVersionedStore == Store!Spec`.

### TransactionFlush: transactions over the filesystem adapter

* A process flushes a buffer of pending writes (`TransactionBuffer.flush`).  `Locate`
  and `Open` read the current version of each key with no lock; `Acquire`,
  `LockTimeout`, `Supersede`, `Publish` and `Release` are `FilesystemAdapter.write_batch`:
  the locks in the order of the keys' names, two renames per key, the locks let go in
  reverse by the `finally`; `ListCommits`, `Stamp` and `SaveCommit` look up the parent,
  make the commit and save it.  A raise (a file renamed away, a lock not free) ends the
  flush; its caller may begin another with the same buffer and a new id.  `Crash` ends a
  flush at any point, for a process that dies and for an I/O error alike: the locks go,
  the files stay.
* A key is its rank in the order of names and a commit id its rank in the order of ids,
  because those orders decide what is locked first and who wins a tie in `list_commits`.
  `Minted` is the ids the random numbers give, in the order of the flushes.  A file
  records its version, its commit and, for properties, the version its flush had read.
  The clock never steps back and ticks at most once per commit; branch and namespace are
  one.
* A buffer may list a key twice: the second `flock` is a different file descriptor, so the
  batch waits for itself until it times out, and always raises.
* `Turn` is one turn of the loop of `dag.find_common_ancestor` (`Visit` for each of its two
  queues), `Start` what it begins with, `Search` the loop as a recursive function; it is
  evaluated on every history the flushes make.  A flush names at most one parent, so a
  history is a forest.  `Lineage`, what the search is measured by, is the smallest set of
  commits that holds a commit and the parents of its members.

### ReplayReceiver: the replay webhook's background mode

`seen` is the bounded, ordered `_seen`; handler threads go through the two critical
sections of `handle` and the submit after them (`Accept`, `Count`, `Submit`); an
executor thread goes through `_run_in_background`, `replay` and `_answer` (`Take` to
`Uncount`); the runner's thread is `RunnerAnswers`, `RunnerDone`, `RunnerCloses`;
`serve` on its way out is `Drain`, `Shutdown`.  A runner may hang, answer, raise (an
answer too), or call `sys.exit` (`RunnersExit`), which leaves no result in `box`.
Signatures, parsing and the attribute bag are data and left out, and with the bag a raise while
it is put together (`_commit_attributes`, which is called before the `try` that closes the
memory); so are a run without a timeout
(`run_timeout = 0`) and a memory that a customer's factory owns, which the receiver does not
close.  A run is an
acceptance of a delivery, so a delivery that was forgotten and accepted again is a
second run.

### CortexWorker: notifications, debounce, recompilation

An entry is abstracted to its write: a digest is the number of writes it was compiled from,
a fingerprint that number, the tenant and whether there are code files (finer than the
code's, which hashes count, newest time, confidence and top keys: fewer skips, never more).
`wire` is the LISTEN connection of each worker, `pending`, `owner`, `anchor` its
dictionaries, and each recompile thread has its local list (`todo`), the scope it compiles
and the entries it has read.  `Read` and `Upsert` are the compiler's two database calls,
`Anchor` the fingerprint taken after them.  `ConnectionLost` drops what is on the wire;
`Reconnect` starts one more recompile thread, the old one goes on.  Postgres (`Write`,
`WriteFile`) is modelled by the trigger that announces a write and by what the worker reads.

A write may name no account (`NoTenant`).  Its event leaves `_scope_tenant` as it is
(`Enqueue`), row security shows its entries to nobody (`Visible`), and a digest compiled
without an account is a new row each time, because `ON CONFLICT` never matches NULL
(`Rows`).  `Tenants = {}` is a store without tenants.  `heard` is a history variable: the
accounts that asked for a scope since it was last popped.  The catch-up scan lists the
compiler's own branch, and not the agents of webhooks (`Scanned`); a scope outside it never
gets a digest once its announcement is lost.  A strategy that finds nothing but code files
returns no digest, and then there is no upsert and no anchor (`Upsert`, first disjunct).

The embedded workers are all active: the advisory-lock standby and the consolidation pass
are planned.  Left out: an entry that later becomes a code file, the TTL sweep.

### PgStore: the table of entries under READ COMMITTED

`rows` is the committed table, one row per version; `held`, `want` and `cur` are the row
locks a client has, waits for and works from; `stage` is what its open transaction has
changed.  Every SQL statement is a step.  `Select` and `LockRow` are the one `SELECT ...
FOR UPDATE`: it finds rows, and once it has the locks it looks again at those rows only,
so a row superseded meanwhile drops out and its successor is not seen.  `ReadParent`,
`Store` are the rest of `write`; `ReadAgain` is the HTTP route's second attempt, through
the engine, when the first has lost its connection.  `BeginOutcome`, `PickRow`, `Apply`
are the outcome trigger (`evidence_sql.py`), `BeginMerge` to `CommitMerge` the merge with
its three strategies, `Fork` the fork of an agent, `BeginRollback` to `CommitRollback` the
rollback to a time.  `Fail` rolls a transaction back at any point; `Lose` loses the answer
to a commit, which the caller cannot tell from a failure.  `Tenanted = FALSE` is a store
whose `account_id` is NULL, where the unique constraint on versions never applies.  A
branch is cut from main; its rows are the branch's own.

### ActionLearning: outcomes, guidance, and back

The record is the sequence of outcomes committed, each with the actions tried, which of
them resolved the task and the value of a covariate.  `Won`, `Losses`, `Tries`,
`StoppedWorking`, `IsStale`, `ContestedSince`, ... translate `aggregate_priors`;
`Recommend` and `Plan` translate `recommend` and `plan_actions`, with the order in which an
agent takes up the untried ones (a rotation by a digest of the agent's name).  Where the
code filters and sorts the list "tried", the model has a set and the order (`Best`,
`Leading`, `Ranked`): `Plan` ranks the actions by the first of the `Sections` they are in and by
that section's own order, which is what `_add` makes of one pass after the other.  An
advice says whether a contested record decided it (`contested`).  `Begin` asks
for guidance, `Fail` and `Solve` follow it one action at a time (`next_action`), and close
the loop by adding a row.  `Turn` is the environment: from then on another action resolves
the situation, for all tasks or for those of one side.  All rows weigh the same and lie
within a day, while the code weighs them by age: two wins and a loss are exactly the 0.6 an
action needs, and fall below it when the rows are some hours old; between equals it takes the
name where the code takes the newer.  The window of takes a contested action is judged by is
longer than the records of the run.  Moreover an action is tried at most once per task;
lessons, memory hits, evidence from other
situations and the regime-shift flag are left out, and `abstain` is on.

### AgentSession: what an outcome is charged to

`history[k]` is the store; a version carries a bag of charges, one per outcome step that
reached it; `tracker[a]` is the ReadTracker with its sequence numbers, attempts and boundary.
`Read`, `BeginWrite`/`Store` (the conflict policy, then the engine), `AttemptFailed`,
`BeginOutcome`, `Look`, `Land`, `FinishOutcome`, `Raise` (the adapter fails half way, the
tracker stays), `Clear`, `BeginRun`, `Observe` (covariates) and `ClearReadLog` are the calls.
`reads` is a history variable: what the properties take for the truth about who read what, when.

An outcome takes each of its keys in two steps.  `Look` reads it and computes the copy with
its charges (`look` has it in hand), `Land` writes the copy, and others write and report in
between.  `Checked` says what the store does then.  In a tenant's table a copy that does not
follow the version looked at is refused, and the outcome raises.  The files
(`Checked = FALSE`) take it, because `commit_outcome` writes with version 1, which turns
their check off; and they show a reader no entry while another process is between its two
renames (`Absent`), so that an outcome passes the key over with a warning and a write finds
no record to keep.  What a raise leaves half landed is a superset of what Postgres can leave,
where the trigger lands all keys in one transaction.  `commit_outcome`'s explicit `attempts=`
(`memory.py:1665-1673`) is left out; explicit keys are not.

### TracePartitions: the table of decision traces

Each adapter that starts (`Upkeepers`) goes through `migrate_to_partitioned` (`Start`,
`Capture`, `Rebuild`), `ensure_partitions` (`List`, `Plan`, then per month `Probe` and
either `Create` or `Name`, `Copy`, `Delete`, `Attach`) and `sync_partition_rls` (`Sync`, and
per partition `Visit`, `CreatePolicy`, `Enable`); each retention job (`Janitors`) through
`apply_retention` (`Retain`, `Drop`, `DropsDone`, `Strip`).  A step is a statement as others
see it: the rebuild is one, because the rename locks the table until COMMIT; the drain is
four, because its first three lock nothing that stops an INSERT.  `End` is a statement that
fails, or the end of the work: what its transaction has done is undone, which costs nothing
here because the drain's effects are applied at `Attach`.  Time is counted in half months,
so a cutoff falls on a month's edge or inside it.  `place[t]` is the partition of a trace;
row security is the set of policies a partition has and whether it is on.  `late[u]` is a history
variable: the rows committed to the month adapter `u` has copied and not yet deleted, and the
policies created after it has read the flat table's (`TooLate`, until `Forget`).  These are
what the code loses, and all it loses.  `MaxLoad` bounds traces and policies together.
A partition's namespaces, the objects that
depend on a flat table, grants, triggers, indexes and a missing DEFAULT partition are left
out.

## Runs

| Run | Question | Bounds, and why they are enough |
|---|---|---|
| `store_safety` | Do versions get lost, renumbered, overwritten; do outcomes reach other claims?  What does a process that dies leave behind? | two processes (one writes, both report, one sweeps), 1 key, 2 claims, 3 versions, one crash at any program point: a conflict needs two actors; version 3 is the first at which a restated, a credited and an archived version can follow each other, and where a conflict (expected 2 against 3) can arise.  Locks and renames are per key, so an outcome that stops between two keys is, for each of them, one that has landed or not begun |
| `store_liveness` | Does every operation return, does a key come back, are the files a growing history? | two processes (both write, one reports and sweeps), 1 claim, 3 versions |
| `transactions` | Do overlapping flushes wait in a circle, land in part or in two orders, save what did not land?  Is the ancestor of two commits found? | two processes, 2 keys buffered in both orders, alone and twice, three flushes: two that overlap and one that finds a fork; one crash.  Ids 2, 3, 1: of commits stamped in one tick the second wins against the first and the third loses |
| `replay_safety` | Redelivery, buzzer, failure and shutdown in any order | 2 deliveries, 2 handler threads, 2 executor threads, room for 2 acceptances of each delivery |
| `replay_liveness` | Does what was accepted finish, is what was opened closed? | one executor thread, so that a run waits for another |
| `cortex_fleet` | Do two workers end on the last write? | 2 workers, 1 scope, 2 writes of a tenant and 1 without an account: a slow compilation of the first, a fast one of the second, and a scope that is pending for nobody |
| `cortex_recovers` | Lost connection, failed or empty compilation, two tenants of one name: does a scope wait for the right tenant, does it get its first digest? | 1 worker with a second thread after its reconnect, 2 tenants with 1 write each, 1 write without an account, 1 code file, 1 failure: a first digest needs one write, and each way to miss it happens once |
| `pg_store` | The same questions of the Postgres table | two connections, 1 key, 2 claims, one branch, 3 rows before an operation begins (it may add more), 2 times: a lost row or number needs a writer that waits for another, and a merge or rollback under a third row |
| `learning` | Does the fleet relearn, serve the fix, never give up on it? | 3 actions, an agent whose runs may not overlap with its own, 2 sides, 2 attempts a task, 5 outcomes, one change: the old fix, a failed one and the new one.  With 6 outcomes (910,605 states) it holds too |
| `sessions` | Does an outcome reach what was read, once? | one agent that reads and reports and one that rewrites, and reports once, 1 key, 2 claims, 1 version at most when a write begins (two writes may overlap, outcomes add more), 2 reads in the first session, one attempt given up, 2 sessions, one failure or abandoned run: rewrites and outcomes of the other fall between look and landing, both ways round.  With a second version and one session (4,355,811 states) it holds too |
| `traces` | Do rebuild, drain, row security and retention lose a trace or a policy, strip too much or too little? | two adapters and one retention job, two traces, or one and a policy, three half months, a payload hot in the half month of its trace and a month kept until it is over (`hot_days` and `drop_after_days` may be 0): each race is between two actors over one trace or one policy, a drain needs a trace to copy and another to come too late, and every position of a cutoff in a month occurs |
| `crash_loses_history` | A statement of the documentation the code does not keep | the smallest instance that shows it |

Bounds named in the modules: `MaxVersion`, `MaxCrashes`; the length of `Minted`; `MaxRuns`; `MaxThreads`,
`MaxWrites`, `MaxLoose`, `Filed`, `MaxFailures`; `MaxRows`, `MaxClock`; `MaxTurns`; `MaxReads`, `MaxAttempts`, `MaxTasks`; `MaxTime`, `MaxLoad`.  `MaxVersion` also stands for the assumption that names
padded to three digits sort like numbers (up to 999).  An operation that would exceed
`MaxVersion` returns and releases its lock, so the bound never stops a process.
The `store_*` runs check for deadlock; the replay and Cortex models stop when all
deliveries have been handled, or all writes made, `transactions` when all ids are used,
and the last four when their bounds are, and turn that check off.  `TypeOK` of the stores
and of the Cortex worker and `LockDiscipline` are in no run, because they are proved for
every instance.  Symmetry
is used in runs without liveness properties only, over sets the specification treats
alike (two claims differ in nothing but being different).

`crash_loses_history`: a process that dies between its two renames leaves no live
version.  The next write is numbered 1, and the one after that is renamed over
`v001_superseded.json`.

### Further disagreements

These are stated in the modules and listed by no run.  Put one in a configuration
with the constants of the run named (and its `SPECIFICATION`) to see it violated.

| Property | Module, constants | What happens |
|---|---|---|
| `AbsentMeansNoVersions` | FileStore, `store_safety` | a reader between the two renames takes the key for absent; `layout.py:46` says `None` means no versions exist |
| `ChainUnbroken` | FileStore, `store_safety` | the version an outcome adds keeps its predecessor's chain and does not link to it (`docs/concepts/integrity.md:21`) |
| `OnlyExpiredIsArchived` | FileStore, `store_safety` | an entry listed at version 1 is archived although it was renewed meanwhile |
| `ExpiredIsArchived` | FileStore, `store_liveness` with `Agents = {a1, a2}`, `Writers = {a1}`, `Reporters = {}`, `Sweepers = {a2}`, `MaxVersion = 3` | `sweep` passes an entry on with the version v it was read at, and `write` wants v + 1 as soon as v is above 1: the sweep raises at that entry, every time, and archives nothing after it (`lifecycle.py:17`) |
| `OutcomeStaysOnItsClaim` | FileStore, `store_safety` | `commit_outcome` reads, another agent writes a new claim, and `commit_outcome` writes its copy of the old claim as the newest version; the copy says version 1, which turns the version check off |
| `AllOrNothingEver` | TransactionFlush, `transactions` | a process that dies, or a disk that fills, between the renames of two keys leaves half of the transaction (`docs/concepts/commits.md:9`: "all-or-nothing") |
| `CommitNamesItsVersions` | TransactionFlush, `transactions` | the versions a commit lists were computed before the locks; the entries are renumbered under them |
| `HistoryIsLinear` | TransactionFlush, `transactions` | two flushes find the same newest commit and both become its children |
| `DrainedMeansNoneLeft` | ReplayReceiver, `replay_safety` | a request between being remembered and being counted is invisible to `drain`, and its submit is refused after `close` |
| `OneSideCloses` | ReplayReceiver, `replay_liveness` | a runner that calls `sys.exit` in time leaves its worker a `KeyError` (`replay.py:596`) and its memory open |
| `EveryReadIsCharged` | AgentSession, `sessions` with `Checked = FALSE` | in the files an outcome passes over a key that another agent is just writing, and of two outcomes that copy the same version the second hides the charges of the first; nothing raises (`filesystem/adapter.py:345-355`, the check it turns off is at `:83`) |
| `SkipsAreRedundant` | CortexWorker, `cortex_fleet` with `Drift = TRUE` | a write between a compilation's read and its fingerprint is taken for compiled and skipped |
| `DigestsCatchUp` | CortexWorker, `cortex_fleet` with two tenants and one worker | the worker's queue is keyed by the scope's name only: two tenants that write the same path within a debounce are compiled once, for the later one |
| `DigestsCatchUp` | CortexWorker, `cortex_fleet` with `Tenants = {}`, `MaxLoose = 2` | without tenants an upsert matches no row (`account_id` is NULL in the conflict target, `postgres/adapter.py:5439-5467`, "Insert or update a compiled digest"): every compilation adds a row and the old ones stay |
| `DigestAppearsEver` | CortexWorker, `cortex_recovers` | a tenant that has only code files in a scope is queued by every scan (`worker.py:435-460`) and never gets a digest (`strategies.py:98-104`); where it comes after another tenant of the same scope name it takes that one's place in the queue, scan after scan |
| `DigestsCatchUp` | CortexWorker, `cortex_fleet` with `MaxThreads = 2` and one worker | a write announced while the connection is down leaves its digest stale: the catch-up scan queues scopes without any digest |
| `WriteIsRead`, `MainDense` | PgStore, `pg_store` with `Tenanted = FALSE` | a writer that waited on `FOR UPDATE` finds nothing and numbers from 1 again; the constraint that would refuse it binds no NULL `account_id` (`adapter.py:1562` takes it for enforced) |
| `OutcomeStaysOnItsBranch` | PgStore, `pg_store` | the outcome trigger picks a row by its key: it may credit another branch's row |
| `BranchWriteIsRead` | PgStore, `pg_store` | on a branch, two writers of a key that the branch does not have yet both insert |
| `StaleWritesAreRefused` | AgentSession, `sessions` with `MaxVersion = 2`, `MaxTasks = 1` | with the policy "raise" a write checks the version, and another agent writes before it does (`docs/concepts/copy-on-write.md:87`) |
| `OutcomeCountsOnce` | AgentSession, `sessions` | an outcome that raises after some keys were charged charges them again when the caller retries |
| `RunsAreApart` | AgentSession, `sessions` | a run that was begun and never completed leaves its reads and attempts to the next one |
| `ChargesWhatWasRead` | AgentSession, `sessions` with `Undated = TRUE`, `MaxVersion = 2`, `MaxTasks = 1` | an entry read through a digest with no versions is taken to have been read at version 1 |
| `NoTraceIsLostEver` | TracePartitions, `traces` | a trace committed to the DEFAULT partition after the drain has copied its month and before it deletes it is deleted and not copied (`trace_partitions.py:496`: "moving any rows the default partition holds for it") |
| `PoliciesSurviveEver` | TracePartitions, `traces` | a policy created after the rebuild has read the flat table's and before it renames it is dropped with the table (`trace_partitions.py:397-399`) |

Two more were met and are not stated.  After a rollback in Postgres the next version
number is taken, and every later write of the key is refused; and a write whose answer
was lost is retried and adds a second version.  A partition that retention drops while
`sync_partition_rls` is at it, and that a late trace brings back, can end with security on
and no policy; `PartitionsAreScoped` therefore speaks of months that retention leaves alone.
In ActionLearning, once tasks of two sides overlap, a task under way can be told to
escalate although the newest take of an action was a win, and a record without a win can
fall silent; the properties say `OneSided` and `HadFix` where that matters.
After two changes of what resolves a situation the record can look like two classes pooled
and the guidance abstains, and a task under way when the fix comes back can be told to
escalate: `RelearnsQuickly`, `FixIsServed` and `NeverHandsOffTheFix` speak of one change at
most (`OneChange`: before it for any covariate, after it for a single value).  A miss that `turned_unsolved` would not forgive is forgiven once the
record has split on a covariate, on both sides of the rule: where the contested action
works it is one of the exceptions `split_contested` tolerates, and where it fails an
action with two wins is served whatever its newest take
(`src/packages/core/src/amfs_core/actions.py:1298`).  `NoRepeatOfMiss` leaves out what a
contested record has decided.

## Fairness

* FileStore: weak fairness of every process's next step (it is a scheduled thread, and
  the lock's wait is bounded by its timeout, which `LockTimeout` is) and of
  `StartSweep` (the lifecycle thread wakes every interval).  No fairness for starting
  writes or outcomes, nor for crashes.  Acquiring the lock has no fairness of its own:
  a waiter may time out, which is a return too.
* TransactionFlush, PgStore, ActionLearning, AgentSession, TracePartitions: none; they
  are checked for safety only.
* ReplayReceiver: weak fairness of handler threads in the middle of a request, of
  executor threads (a join with a timeout returns) and of what follows a runner's
  return.  None for the customer's code, which may never come back, and none for
  requests, deadlines or the shutdown.
* CortexWorker: weak fairness of the listening thread (messages are handled, a lost
  connection is tried again), of the catch-up scan (it runs every
  `catchup_interval_s`) and of each recompile thread.  The debounce is no clock here:
  a pending scope may become ripe at any time.  The code restarts it at every event, so
  a scope written without pause would never ripen; writes are bounded in the model.
  None for writes, failures or lost connections.

## Proofs

TLAPS checks these theorems for any keys, agents, claims, versions and crashes, from
`FileStoreAssumption` alone (bounds are naturals, the roles are agents, the model values
are distinct), for any finite number of flushing processes, any keys, buffers and ids from
`FlushAssumption`, for any tenants, scopes, workers, threads and writes, from
`CortexAssumption` (likewise), for any deliveries, handlers and executor threads, finite in
number, from `ReceiverAssumption`, for any clients, keys, claims, branches and rows from
`PgAssumption`, for any agents, keys, claims, runs, attempts and retries, from
`SessionAssumption` (the bounds are naturals), for any traces, policies, adapters, retention jobs and cutoffs from
`PartitionAssumption` (jobs are not adapters, the numbers are naturals), and for any actions,
agents, digests, covariate, budget and plan length from `LearningAssumption` (there is an
action, an attempt and a place in the plan).

| Theorem | Statement |
|---|---|
| `TypeCorrect` | `Spec => []TypeOK` |
| `LocksAreExclusive` | `Spec => []LockDiscipline` |
| `AtMostOneCurrent` | `Spec => []OneCurrent`, crashes included |
| `HistoryIsDense` | `Spec => []HistoryDense` |
| `HistoryIsImmutable` | `Spec => HistoryImmutable` |
| `WritesExtendWhatTheyRead` | `Spec => []ReadWritesExtend` |
| `NoCreditUnearned` | `Spec => []CreditIsEarned` of FileStore |
| `FilesAreAVersionedStore` | `MaxCrashes = 0` implies `Spec => ImplementsVersionedStore` |
| `BatchesNeverCircle` | `Spec => []NoCircularWait` of TransactionFlush, crashes included |
| `FlushIsAllOrNothing`, `FlushesSerialise` | `Spec => []AllOrNothing`, `Spec => []BatchesSerialise` |
| `SavedCommitsAreWhole` | `Spec => []SavedIsWhole`, crashes included |
| `AncestorsAreLatest` | `Spec => []CommonAncestorIsLatest`, crashes included |
| `CortexTypes` | `Spec => []TypeOK` |
| `ScopesKeepTheirTenant` | `Spec => []QueuedForItsTenant` |
| `NoWriteIsForgotten` | `Calm` implies `Spec => []NothingForgotten` |
| `MemoryIsClosedOnce` | `Spec => []MemoryClosedOnce` of ReplayReceiver |
| `CommitsFollowTheHandOff` | `Spec => []CommitFollowsHandOff` |
| `InflightIsCounted` | `Spec => []InflightCounts` |
| `OneRunOfADelivery` | `IsFiniteSet(Deliveries)` implies `Spec => []OneRunWhileRemembered` |
| `CovariatesStayInTheirRun`, `AttemptsStayApart` | `Spec => []CovariatesAreOfTheRun`, `Spec => []AttemptsAreApart` of AgentSession |
| `ChargesFollowTheReads` | `~Undated` implies `Spec => []ChargesWhatWasRead` |
| `ReadsAreCharged` | `Checked` and `~Undated` imply `Spec => []EveryReadIsCharged` |
| `PgTypes` | `Spec => []TypeOK` of PgStore, with or without tenants |
| `PgMainDense`, `PgCreditIsEarned` | `Tenanted` implies `Spec => []MainDense`, `Spec => []CreditIsEarned` |
| `PgWriteIsRead`, `PgReadWritesExtend` | `Tenanted` implies `Spec => WriteIsRead`, `Spec => ReadWritesExtend` |
| `TracesKeepTheirPayload`, `RetentionMissesNone` | `Spec => []HotTracesKeepTheirPayload`, `Spec => []RetentionIsComplete` of TracePartitions |
| `PartitionsStayScoped` | `Spec => []PartitionsAreScoped` |
| `NoTraceIsLost`, `PoliciesOutliveTheRebuild` | `Spec => TracesStay`, `Spec => PoliciesSurvive` |
| `MissIsNotRepeated` | `Spec => []NoRepeatOfMiss` of ActionLearning |
| `SteadyFixIsServed` | `Spec => [](turns = 0 => FixIsServed /\ NeverHandsOffTheFix)` |

`FileStore_proofs.tla` proves the first three from one inductive invariant,
`TypeOK /\ JobOK /\ HoldsLock /\ LockOK /\ SectionOK /\ OneCurrent`.  `OneCurrent` is
not inductive: `Publish` adds a live version, and only the knowledge that its process
holds the key's lock and has just superseded what was live, with nobody else able to
publish since, says there was none.  `SectionOK` is that knowledge, `HoldsLock` and
`LockOK` tie sections to locks, and `JobOK` says that drafts and numbers are there when
they are used.

Its second part adds `DenseInv`, what the files look like at each program
point while no process has died: between versions they are 1..n with n live, and the
process at `supersede` or `publish` knows n.  Immutability is then a step property:
the only actions that touch a file are `Supersede`, which moves it, and `Publish`, which
uses a number no file has.

Its third part proves that a write whose claim extends what it read lands
right after the version it read.  The invariant carries the property back to the draft
(`DraftOK`: what the draft of a process in the locked section was built from, and that
its number follows it) and forward to every version in the directory (`VersionOK`).

The fourth counts.  `CreditIsEarned` compares a number in an entry with a cardinality over
the entry's predecessors, and a draft carries that number from the version it was computed
from to one that several others may have come before.  `RecordOK` says where the record of
a draft, and of every entry of a sweep's listing, comes from (a version that is there, with
its claim and its count, one more when it is an outcome), `CreditOK` is the property for
each version; a version's predecessors only become more, so what was earned stays earned.

The last is the refinement.  `History` is a function of the files, so each step shows
what it does to it: a `Publish` appends one version, which the invariants above allow
there, and every other step leaves it alone, `Supersede` included, which only moves a
file to its other name.  It needs `MaxCrashes = 0`: a process that dies between the
renames takes the newest version out of the history (`crash_loses_history`).

`TransactionFlush_proofs.tla` proves that batches never wait in a circle.  What is
inductive is `AscentOK`: while a process is acquiring, the keys it holds are the ones
done, and none sorts above one that is left (`FirstIsLeast`, from the sort).  Take any
group of waiting batches, finite because processes are, and in it the one that waits for
the highest key (`FiniteGreatest`): if the holder waits too, it waits for a key as high,
hence for the same key, which it holds itself.  That is the batch that lists a key twice:
it waits for nobody else.

What a flush leaves needs `FlushesInv`, in three layers.  `FlushInv` is the one above.
`SectionInv` adds that a batch in its section has the locks of all its keys, each once
(`LockedOK`), and that a commit id belongs to one flush (`OwnerOK`).  `WholeInv` says what
the files then look like: the superseded versions of a key are those before its live one
(`LineOK`), a commit has at most one version of it (`OnceOK`), a flush has landed on what
is behind it and on nothing ahead (`StageOK`), one that is over on everything or nothing
(`CommitOK`), and what a batch in its section has written is the newest of its keys
(`NewestOK`).  The last is what puts two batches in one order on the keys they share
(`OrderOK`): whoever writes after another on one key writes with all locks, and finds
itself after the other on every key.  That there is always a version number left is a
pigeonhole (`RoomForOneMore`: as many numbers as commits, and each commit has one version
of a key).  Crashes are in the invariant, and it speaks of keys on which nobody died
between two renames (`torn`).

The last part of the module is about the search for a common ancestor.  `DescentOK` says
that a saved commit's parent is saved, and that of every set of saved commits one has its
parent elsewhere, crashes or not: `ListCommits` only names a saved one, and a flush saves
last.  So nothing descends from itself, and lineages nest.  What would be an induction over the
turns of the loop is the least counterexample of a well-founded order (`WFMin` with
`NatLessThanWellFounded`, which take no operator).  In the same way
`RunsExist` gives the loop its turns one by one and `SearchIsTheLoop` makes them the
recursive function.  `WalkOK` says that the queue of a walk is the one commit next to
visit, everything above it on the lineage being visited; `PaceOK` that a walk visits one
commit per turn until it is over.  `SearchOK` ties the two walks: they have nothing in
common until one takes up a commit the other has visited, which is then the latest one both
lineages have (`MeetingPoint`).  A walk can visit no more than the commits there are
(`PaceEnds`), so the search ends.

`CortexWorker_proofs.tla` strengthens the types with what a lost connection leaves
(`LinkOK`: a thread left to start) and with the scope a busy thread has in hand
(`TaskOK`).  `QueuedForItsTenant` is inductive next to them: an event sets the tenant and
`heard` together or, without an account, neither tenant nor anything but `NoTenant` in
`heard`, and popping resets both under the same lock.  For `NothingForgotten` the part that is not inductive is a
slow worker's upsert of an old compilation over a newer digest; `StaleIsComing` says
that whoever is about to do so still has the scope announced, pending or popped, and
will compile it again.  `Calm` is the case in which the code keeps the promise: one
tenant, no drift gate, connections that hold and nothing that raises; writes without an
account and code files are allowed.  Each of these is needed: the rows `SkipsAreRedundant` and `DigestsCatchUp` of the table above violate it
in the other cases.

`ReplayReceiver_proofs.tla` rests on a table of what every run looks like at each stage of
its worker and of its runner (`RunOK`): which of them has the memory to close, whether the worker
has given up, what has been committed.  The two sides meet in one critical section, so the
table needs no more than one run at a time; `HandlersOK` and `Fresh` say that a run not yet
taken has been touched by nobody.  `InflightCounts` is a cardinality: `Count` adds one
member to a finite set and `Uncount` removes one, and no other step changes it.
`OneRunWhileRemembered` is about the bounded memory.  `_remember` takes an id out and
puts it at the end, so an id is there once (`Distinct`), and a memory of distinct
deliveries that all fit evicts nothing (`RemembersAll`); whatever has run is therefore
still in it when it is delivered again.

`PgStore_proofs.tla` rests on the table never losing a row and never changing one but for
its `live` flag: what a client knows of a row it has seen stays true while it waits.  The
invariant (`PgInv`) says that the versions of main leave no gap, the rows staged by each
transaction included, and that staged versions of a key increase; `Sound` adds, for stores
with tenants, that no two rows of a branch and key share a version and that credit is
earned.  A write is acknowledged only by `Store`, whose number follows the row it works
from: if that row is not the newest the number is taken and the constraint refuses the
write.  That is why the theorems need `Tenanted`, and why a writer that was passed over
never goes unnoticed.

`TracePartitions_proofs.tla` rests on `TraceInv`.  `RowOK` ties a trace to the partition of
its month.  The drain is the hard part, since it works on rows it has read: `DrainOK` says
they are still in the DEFAULT partition for everybody else, which holds because a month has
one drain at a time (`Apart`: the new table's name is taken) and retention takes no row out
of that partition.  It also says that what a drain deletes it has copied, but for rows that
are `late`, and `ExtrasOK` the like of the policies a rebuild has read: so the theorems need
no assumption about who writes when, and name the only rows that can go.  `PassOK` says that
an old trace which a pass has not seen leave its partition is stripped or still to be
visited there.  `ScopeInv` does the same for row security, partition by partition, and
speaks of partitions that last: a month that is dropped takes its policies along.

`AgentSession_proofs.tla` rests on `SessionInv`, which sets the tracker against the reads
that have happened.  `TrackerOK` says that the boundary parts what the attempt in progress
has read from everything before, although a tracker keeps only the last read of a key, and
that the version it keeps is that of the last read; `StepOK` fixes both for the steps
already closed, which later reads leave alone because windows only grow.  `ChargesOK`
says who can have charged a key so far: an outcome of a session that is over, one that
failed, or one that is done with the key.  So the charge an outcome makes is a new one,
and `ChargedOK` follows it from there: a write of the same claim inherits it, the charges
of others come on top, and a write of another claim ends it.  What an outcome has in hand is
a version that is there (`InHand`), and with `Checked` it is still the newest when the copy
lands, so the copy of one outcome never hides the charge of another.  Without `Checked` this
is false, as the table above shows.  Only the versions need `~Undated`; with digests that
carry no versions both properties are false (`ChargesWhatWasRead` in the table).

`ActionLearning_proofs.tla` begins with what the aggregates are for any record: `Earliest`
and `Latest` exist (`EarliestIs`, `LatestIs`), `Better` is a linear order of fractions and
`Best` its first member (`BetterIsAnOrder`, `BestIs`).  `NoRepeatOfMiss` is then a fact about
one guidance: what failed in the newest outcome, which is unsolved, has a losing streak and
its latest take there (`MissedLast`), so it is no winner whatever it won before, the fix of
no standing contrast, and not the lone winner (`RecordDidNotMiss`).  The step from there to the
runs is that a run which has just begun has guidance computed from the record as it is.
`SteadyFixIsServed` has the invariant `Steady`: until the first change one action has
resolved all that was resolved, it never failed, and no run has it among its attempts.
Then nothing is contested and nothing is pooled, whatever the covariate (`NothingContested`,
`NothingPooled`); after one win the action is the only one to act on (`FixIsAdvised`) and the
plan opens with it (`PlanOpens`, by counting who comes before it in the ranking); and no
task runs out of candidates that have not failed.

Model-checked only: what ActionLearning promises after a change (`RelearnsQuickly`, and
`FixIsServed` and `NeverHandsOffTheFix` when `turns = 1`).  These do not hold for every value of
the constants: with more actions than the plan has places, with several agents whose runs
overlap, or where the later fix has failed often before the change, they can fail.  They
are statements about small fleets, and the run checks them as that.  What is out
of the provers' reach stays with TLC too: liveness under fairness
(`store_liveness`, `replay_liveness`, `DigestsCatchUp`, `MissingDigestAppears`) and ENABLED.

## Plan

Done: the store on files (FileStore, its abstraction and proofs), transactions
(TransactionFlush), the replay receiver, the Cortex worker, the Postgres table (PgStore),
sessions (AgentSession), the trace partitions and guidance (ActionLearning), all with
proofs.  Left, in this order:

1. Proofs: ActionLearning after one change, under assumptions on the fleet that make its
   promises hold (one agent at a time, a plan as long as the actions).
2. `S3Store` against `VersionedStore`: what holds without a lock.
3. `RecallRace`: the unlocked rewrite of `increment_recall_count`, with torn files.
4. CortexWorker: consolidation, its two locks, standby; `EventStream` for SSE and the
   duplicate window of connectors.
5. `find_common_ancestor`, `commit_range` and `ancestors` over merges with two parents;
   the evidence arithmetic as operators.

## Not modelled

Statistics and text (ranking, `learning.py`, pattern detection, briefing, clustering, trace
mining) compute from what they are given and share nothing.  Routes, tools, commands
and integrations validate a request and make one call.  The TypeScript SDK and the
browser extension are clients.  SQL for search and listing is data, and so are the
tenant settings of a connection.  Benchmarks,
examples and the demo are not part of the system.
