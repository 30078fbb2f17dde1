# opscore-lite in TLA+

This directory holds the formal specification of the parts of opscore-lite whose
correctness depends on the order in which goroutines, clients, timers and
restarts act: the control plane of the CI/CD engine and its pipeline definitions
(`internal/cicd/engine.go`), the SSH connection pool (`internal/remote/exec.go`),
the agent hub with the pushes of agents (`internal/agent`), and the pool of
databases with the synchronisation jobs that use it (`internal/dbmanager`). TLC
checks the models on small instances, TLAPS proves the most important invariants
for every value of the constants.

1. [The system](#1-the-system): components, their state, what is hard
2. [The modules](#2-the-modules): how state and actions correspond to the code
3. [The runs](#3-the-runs): what TLC checks, bounds, fairness
4. [The proofs](#4-the-proofs)
5. [Where code and documents disagree](#5-where-code-and-documents-disagree)
6. [What is not modelled](#6-what-is-not-modelled)
7. [Plan](#7-plan)

`tlc -workers 2 -config cicd_triggers.cfg MCCicdEngine` checks a run,
`tlapm CicdEngine_proofs.tla` a proof module. `PROJECT.json` lists the runs, the
lines of source each definition stands for, the theorems, the hazards, and for
each checked property a *mutant*: a plausible bug of the code (a dropped guard, an
off-by-one) under which the property fails, as evidence that it says something.
The operators with a `Mutant` comment exist only for that; no action uses them.

## 1. The system

opscore-lite is one Go server: HTTP handlers over engines and pools that live in
memory, JSON files and SQLite for what must survive, SSH connections, agents and
Kubernetes or database clients for what it manages. Handlers run concurrently;
the engines add goroutines and timers of their own.

| Component | State | Operations | What is hard | What makes it correct |
|---|---|---|---|---|
| CI/CD run engine `internal/cicd/engine.go` | pipelines and runs (maps under `mu`), `queue` (64), `sem` (MaxParallel), approval channels, contexts, `runs.json` | Trigger, worker, execute, Approve, Cancel, finalize, pruneRuns, DeletePipeline, NewEngine | Lock given up between check and append; slots given up during approvals; cancel, deadline and answer race; crash between steps | Each run goes once through queued, running, result; slots balance; gates hold; no result is lost; accepted cancels end runs |
| Definitions, credentials `engine.go`, `creds.go` | `pipelines.json`, `credentials.json`, secrets | SavePipeline, Import, Delete, maskPipeline, resolveRuntime | Masks written into shared slices; two files written one after the other | Listing changes nothing; a saved mask restores the secret; no dangling credential |
| Cron `cron.go` | `lastFire` per pipeline | minute loop, parseCronField, Match | Late or lost ticks, day-of-month or day-of-week rule, boundaries | Fires at most once per matching minute; Match equals the reference |
| Step execution, run stream `internal/handlers/cicd.go` | processes, pipes, subscribers | execLocal, execRemote, stream, webhook | Kill of a process group, wait before pipes are drained, abandoned remote commands | Output is whole; continueOnFail is respected; two runs never share a workspace |
| SSH pool `internal/remote/exec.go` | `conns` by host, entries with `use` and `dead` | Exec, ExecLine, ExecScript, Remove, KeepaliveAll | `use` and `dead` change outside the mutex; double dials; deferred close; retry | One live connection per host, none leaked, none closed under a session |
| Agent hub `internal/agent` | connections, snapshots and alerts by host; agents on the hosts | register, snapshot, disconnect, RemoveHost, cleanLoop, wake loop, pushes | A late cleanup of a replaced connection; pushes of several goroutines to one host; agents that die | No entry or snapshot outlives its reader; an agent that is lost comes back |
| Caches `internal/handlers/cache.go`, `snapshotcache.go` | entries, in-flight calls, expiry | get with single flight, invalidate | Build started before an invalidation stored after it; panic in build | A response is never older than the last invalidation; no request waits for ever |
| Database manager `internal/dbmanager` | connections, pool of databases with its LRU list, write unlocks | Acquire, evict, edit, delete, unlock, execute | Races between opens, edits and evictions; expiry between check and use | Map and list agree; nothing leaks; an edit takes effect; no write without a valid unlock |
| Synchronisation jobs `internal/dbmanager/sync` | jobs, contexts, batches, rows done | start, cancel, plan, table loop, flush | Context ends between tables; databases closed under a job; a failing INSERT between a batch and its progress | Progress is true; done means complete; a settled job writes nothing |
| Log monitor `internal/logmonitor` | SQLite, archive files, index | ingest, archive, expire | Crash between the archive and the index, which are written one after the other | Each line has both its text and its index entry |
| Plugins `internal/module` | switches in memory and in the central store | enable, disable | Persisted against live state | Restart restores the switches |
| JSON store `internal/store` | one file per collection | Read, Write | Truncate and rewrite in place | A file is whole after a crash |
| Central store, hosts, Ansible, Kubernetes, host handlers, server | SQL tables, inventory files, remote systems | request and response | External systems | Parsing and wiring |

Interactions. Handlers, the webhook and the cron loop call `Trigger`; the worker
goroutine turns each queued request into a goroutine that blocks on `sem` and then
runs `execute`, which calls the executor of `handlers/cicd.go`, which uses the SSH
pool for remote stages. Host handlers call `Pool.Remove` after an edit, `NewPool`'s
goroutine calls `KeepaliveAll`, and every host page calls `ExecLine` or
`ExecScript`.

## 2. The modules

| Module | Models |
|---|---|
| `CicdEngine` | the run engine |
| `RunLifecycle` | what the engine promises of one run, the abstract specification `CicdEngine` implements |
| `MCCicdEngine` | its instances for TLC |
| `CicdEngine_proofs`, `CicdRuns_proofs`, `CicdStages_proofs` | its proofs: slots, queue and history; runs, gates, double triggers and the refinement of `RunLifecycle`; the loop over the stages and the waits for approvals |
| `SshPool` | the SSH connection pool |
| `MCSshPool` | its symmetry for TLC |
| `SshPool_proofs` | its proofs |
| `AgentHub` | the agent hub, the wake loop, the pushes and the agents on the hosts |
| `MCAgentHub`, `AgentHub_proofs` | its instance for TLC, its proofs |
| `DbPool` | the pool of opened databases and the handlers that edit and delete connections |
| `MCDbPool`, `DbPool_proofs` | its symmetry for TLC, its proofs |
| `DbSync` | synchronisation jobs; EXTENDS `DbPool`, whose users are requests and jobs |
| `MCDbSync`, `DbSync_proofs` | its modes for TLC, its proofs, and that it implements `DbPool` |
| `PipelineDefs` | pipeline definitions: list, save, import, delete, the copy a run works with |
| `MCPipelineDefs`, `PipelineDefs_proofs` | its instance for TLC, its proofs |

### CicdEngine

An action is one critical section of `Engine.mu`, one channel operation, or one
external event. `at[r]` is the place of the goroutine that owns run `r` between
two of them:

| Place | In the code |
|---|---|
| `offer`, `refused`, `refusedPrune` | Trigger after the append: before the send, after a failed one, before its prune |
| `queued`, `slot` | in `e.queue`; in a goroutine that blocks on `e.sem` |
| `begin`, `log` | execute, before and after the status check |
| `gate`, `gated`, `yield`, `register`, `await`, `unregister`, `retake`, `deny`, `denied` | the approval of a stage: mark it waiting, persist that, give the slot up, waitApproval, take the slot again, mark it cancelled, persist that |
| `start`, `started`, `steps`, `ended`, `skip` | a stage: mark it running, persist that, its steps, its result set and not persisted yet, the later stages skipped one by one |
| `finish`, `prune`, `leave`, `over` | finalize, pruneRuns, the deferred release |

| State | In the code |
|---|---|
| `pipes`, `live`, `owner`, `status`, `canceling`, `stages` | `e.pipes`, `e.runs` and the fields of `Run` |
| `ctx`, `cur`, `verdict`, `outcome` | the run's context and the locals of execute |
| `queue`, `slots`, `worker` | `e.queue`, `len(e.sem)`, the worker goroutine |
| `approvals`, `chan` | the keys of `e.approvals` (one per run, reused by later gates) and each channel's buffer |
| `checked`, `sign` | calls of Trigger and Approve that have given the lock up and go on with what they read |
| `saved`, `crashes` | `runs.json`; restarts so far |
| `answers` | history variable: the answers Approve returned nil for |

`Trigger` is `TriggerCheck` (the RLock section), `TriggerAppend` (the Lock section),
`TriggerOffer` (persist, then the send that does not block) and, when the queue is
full, `FinalizeRefused` and `PruneRuns`. `Approve` is `ApproveLookup` and
`ApproveSend`, as the channel is used after the lock was released. `Cancel` is
`CancelQueued` or `CancelRunning`; the latter only cancels the context, and what a
run does next follows from where it stands. A step's commands are abstracted to the
result of the stage (`StageEnds`). The loop sets the status of a stage in one section and
calls `persistRuns` in another, so each is two actions: `GateStage` and `SaveWaiting`,
`DenyStage` and `SaveDenied`, `StartStage` and `SaveStarted`, `StageEnds` and `StageSucceeds` or
`StageEndsRun`. After the last of these the later stages become skipped one section at a time
(`SkipStage`), to be persisted by `finalize`. In between (`Unsaved`) a crash finds `runs.json`
behind. `Restart` is a crash at any
point followed by `NewEngine`: memory and goroutines are lost and `recoverOrphans`
works from `saved`. Runs carry the number of their append, so "newest first" in
`pruneRuns` is the order of numbers.

`RunLifecycle` says what a client relies on: absent, queued, running, one result;
a restart turns what had not ended into failed. A run exists for the client from
its offer to the queue on. That choice matters: before it, Cancel may end a run
whose Trigger then still finds the queue full and records failed over the cancel.

### SshPool

An action is one critical section of `Pool.mu` or one atomic operation on `use`
or `dead`; `at[c]` is the place of a caller. The section of acquireEntry that
reads `dead` and then increments `use` is two actions (`LookupLive`, `CountIn`)
with the mutex held between them, since `markDead` sets `dead`, and `release`
decrements `use`, without it. `release` likewise is `CountOut` and
`LastUserLeaves`; `markDead` is `Mark` (the compare-and-swap), `Unpool` and
`Reap`. `Dial` is any successful `dialHost`, `InstallShared` and `Install` are
the two outcomes of the double check. `TryAgain` is the retry of ExecLine and
ExecScript after a failure of transport. The keepalive goroutine lists entries
under the mutex and probes them one at a time without it.

### AgentHub

A *socket* is one WebSocket with its reader, the goroutine of `ServeWS`. A hub
action is one critical section of `AgentHub.mu`; what happens on the hosts (an agent
dials or dies, a link breaks, a push kills and starts processes over SSH) are actions
of their own.

| State | In the code |
|---|---|
| `inventory`, `leaving` | `Manager.hosts`; hosts a remove handler has not yet taken out of the hub |
| `conns`, `cache`, `alerts` | the three maps of `AgentHub` |
| `silent` | the age of `agentConn.lastSeen`: under 30 s, over 30 s, over 60 s |
| `sock`, `reg`, `peer`, `owner` | a socket: open, broken or free, its reader's `hostID`, the agent's id, the agent process |
| `proc` | agent processes: the host each runs on, and whether systemd restarts it |
| `at`, `target`, `tells`, `todo` | pushes (`doDeploy`, `TryWakeAgent`) and the wake loop's copy of the host list |

`Register`, `Snapshot` and `Disconnect` are the reader's two messages and its deferred
cleanup, `Clean` a round of `cleanLoop`, `RemoveHost` the hub's part of a remove;
`WakeScan` and `Wake` the wake loop; `Request`, `AddHost`, `RemoveHosts`, `RemoveAll` the
handlers; `Kill`, `StartUnit`, `StartNohup`, `StartsNothing`, `PushFails` how a push goes
on. `StartsNothing` is a success without an agent: the fallback drops the error of its
start command.

### DbPool and DbSync

An action of `DbPool` is one critical section of `DatabasePool.mu` or of `Store.mu`.
`Acquire` is `Hit`, or `Miss`, `Open` and then `Insert` or `InsertLoses` (the double check),
as the database is opened without a lock. An edit is `Update` and `Release`, with
`UpdateFails` in between when the store cannot be saved; a delete is `ReleaseFirst` and
`Delete`, in the order of the handler. A connection's content is a version number, so a
database remembers in `ver` what it was opened with. `missed` is auxiliary: it records
edits that could not reach the pool.

`DbSync` composes jobs with that pool: `Users` are the requests, which take the steps of
`DbPool`, and the jobs, whose steps `JobAcquire`, `JobAcquireFails` and `JobTake` are
those of `DbPool` joined with the job's own place in `Run` (`stage`). A job keeps `src` and
`dst` without holding them in any sense the pool knows of: an edit or an eviction
closes them, and the job's next statement fails (`Works`). The rest follows `Run`: `Plan`,
the loop (`NextTable`, `Abandon`, `JobFinishes`), the statements before a copy, the
stream of rows into batches (`ReadRow`, `EndOfRows`, `Flush`), and `Settle` for `fail` and
`finish`. An INSERT goes out (`Flush`) and comes back in a step of its own, after whatever a
Cancel, the deadline or an edit did meanwhile: `Inserted`, or `InsertFails`, where the server
has written none, some or all of its rows before the error, since `ExecContext` returns the
context's error or that of a lost connection whatever the server did. `TableVerified` and
`TableDiffers` are the two results of execVerify, with the entry it appends to the job's tables
(`checked`). Rows are counted; `written` and `cut` are auxiliary. `DbSync_proofs` shows that
`DbSync` implements `DbPool!PoolSpec`: whatever the jobs do, the pool sees only users.

### PipelineDefs

The definitions, with their secret variables. A copied `Pipeline` struct shares the
array behind `Env` with the original, so arrays are objects (`Arrays`, `content`) and a
definition refers to one. `Trigger` copies the reference under the read lock,
`ResolveRuntime` reads the array without it. What is saved or imported may be the mask
itself, as the form sends back what it was shown and an export holds it. `entered` is
auxiliary: what was given last.

## 3. The runs

| Run | Question | Instance |
|---|---|---|
| `cicd_triggers` | Do slots and results hold when callers interfere, also with two runs of one pipeline, and how many can there be? | two callers of Trigger, one approver, one gated and one open pipeline, one slot, queue of 1, 2 runs |
| `cicd_restart` | Does a crash at any point lose a result or leave a run stuck, do stages go in their order with final results, do answers to one gate open another, and is the whole engine an implementation of `RunLifecycle`? | one caller, one approver, one pipeline of two gated stages with a deadline, two runs, one restart |
| `cicd_live` | Does an accepted Cancel end its run, does a deadline end a run nobody approves? | one caller, no approver, a gated pipeline with a deadline and one without that may run for ever, one slot, fair scheduling |
| `ssh_pool` | Are sessions counted, is there one live connection per host and none leaked? | two requests and the keepalive goroutine, two hosts, three connections |
| `agent_hub` | Does any entry or snapshot outlive its reader, what drops an open connection, does a lost agent come back? | one host, one agent, two sockets, the wake loop and one request |
| `db_pool` | Do map and list agree, does a database leak, which edits miss the pool, who closes a database in use? | three goroutines, three connections, a pool of two, two versions |
| `db_sync` | Is a job's progress true and its end final, with its databases closed under it and INSERTs interrupted half way? | one job of two tables, one request that uses and deletes connections, up to four rows, batches of two, a limit of three |
| `cicd_double_trigger`, `cicd_late_rejection`, `cicd_approval_deadline`, `ssh_closed_in_use`, `cicd_masked_secrets` | see [section 5](#5-where-code-and-documents-disagree) | the smallest instance that shows it |

**What the properties catch.** `SlotsCounted`, `ConcurrencyBounded`: a slot lost or
doubled around an approval. `TerminalIsFinal` (and `ExecutingIsRunning`, a part of
`EngineInvariant`): a goroutine that overwrites, or works for, a run that was ended by
someone else. `GateRespected`: a gated stage that starts without an accepted yes for
that very stage, by an answer to an earlier gate for instance.
`SettledStages`, `SuccessMeansAllStages`: the four exits of the stage loop against the
run's result. `StagesInOrder`, `StageResultsFinal`: a stage that starts before the one
in front of it succeeded, and a result that a later stage, the end of the run or a
restart (which takes the stages from disk) changes; the one result that is set and not
persisted yet may go with a crash. `HistoryOnDisk`, `NoZombieRun`: a
crash that loses a result or blocks a pipeline. `ActivesBounded`: how far the race of
triggers goes, one run for each caller. `ActiveInHistory`: an active run that cannot be
found. `EngineInvariant`, `PoolInvariant`: the inductive invariants, checked before
they were proved. `ClosedIsDead`, `LiveIsPooled`, `NoLeak`, `UseCounted`,
`MarkersSpareSessions`: the deferred close of connections.
`EntryHasReader`, `CacheHasReader`: a goroutine that ends and leaves behind what only
it would remove. `DroppedOpenHasRival`: every way to lose an open connection but the
known one (hub.go:78). `OfflineIsWoken`, `DeadGoesDark`: a host that stays offline, or
looks alive, for ever. `OrderListsPool`, `PooledIsOpen`, `NoLeak`: the double check,
eviction and release against each other. `StaleWasMissed`: an edit that does not take
effect, except in the three ways it names. `OpenBounded`: a database that stays open outside
the map. `ClosedInUseHasReason`: that Acquire counts no users costs a caller its database in two
cases only, and not when another Acquire loses a race. `ProgressIsTrue`, `DoneIsComplete`: a
batch that is counted and not written, dropped, or left behind by an interrupted INSERT in a job
that goes on; `SettledWritesNothing`, `EndIsFinal`, `JobSettles`: cancel, timeout and failure
against the end of a job.

**Bounds, and why they are enough.** `RunBound = 2`: races over a slot, the queue, the
history and the serial rule are between two runs; each run's own life is complete.
`MaxParallel = 1` and `QueueSize = 1` (1 to 16, by default 2, and 64 in the program) put slots and
queue at their limits with two runs. `MaxRuns = 1`, `DefaultMaxRuns = 2` stand for the
program's 5 to 500 (or, for 0, 50), so that pruning happens at all; the guards use
only the comparison. `cicd_restart` has a pipeline of two gated stages (`StageBound = 2`,
`TwoGates`), so the second gate uses the entry of `e.approvals` again while answers to the first
one may still be on their way, and the second stage is skipped when the first fails; `AnswersBound`
allows three accepted answers, one for each gate and one that comes late or contradicts. It has
one pipeline, whose queue place can still be taken by a run that was cancelled there, so that the
next run is refused; a crash with runs of several pipelines is left to the proofs. Where only
runs interact, one stage is enough (`cicd_triggers`, `cicd_live`). `CrashBound = 1`: a restart
leaves no goroutine behind, so the second one starts from a state like the first. When the `RunBound` numbers are used up the
instance stops, hence `CHECK_DEADLOCK FALSE` in the cicd runs; the ssh runs check
deadlock. `ConnBound = 3` over two hosts lets a host's connection be replaced while
another host's is in use; with the bound reached a dial can only fail. Callers (and
hosts) are interchangeable, so they are symmetry sets in the runs with safety
properties only; the runs with temporal properties use no symmetry.
`agent_hub`: what the hub does for a host touches no other host except through the wake
loop's and the handlers' lists, so one host is enough; two sockets are an old connection
and the one that replaces it. A second agent process on the host was checked for
the safety properties and found to show nothing more. `db_pool`: the pool of two (8 in
the program) with three connections evicts, three goroutines are two that race to open
a connection and one that edits it or evicts it; connections, users and databases are
symmetric. `db_sync`: two connections, so nothing is evicted, but an eviction acts on a
job exactly like the release before a delete, which does happen; `EditBound = 1` leaves out
`Update`, whose release is the same step (a larger bound was too slow; `db_pool` has it, and the
proofs have any). `MCModes` has one mode of each kind that the model tells apart: `truncate` and
`incr` differ from `full` in the SQL only, and in the entry `creating`. A first table of up to four
rows with batches of two and `MaxRows = 3` gives no, one or two INSERTs, of which the second may
fail after the first has counted, a last batch that is not full, and a stream that is stopped in the
middle of a batch; the second table, of at most one row (`ShortSecond`), follows a complete one.

**Fairness** (`FairSpec`). A goroutine that can move does (weak fairness of its own
steps and of the worker). A send on `e.sem` gets strong fairness: the Go runtime queues
blocked senders first come first served. The timer of `WithTimeout` fires. A step's
command may run for ever: `StageEnds` is fair only once the context is done, when
`CommandContext` kills a local command and a remote one is no longer waited for. Pipelines have
no deadline by default, so a command that never ends may keep its slot for ever, and whatever
needs a slot then waits for ever behind it: a queued run, and also a run that was cancelled or
timed out during an approval, which has to take a slot again before it is recorded as ended
(engine.go:865). Both properties therefore have the hypothesis `SlotsComeFree`: again and again
there is a moment in which commands that are neither cancelled nor under a deadline hold fewer
than all the slots. `cicd_live` has such a pipeline beside the one with a deadline.
Nothing is assumed of people: no Approve, Cancel or Trigger is fair. `TimedRunEnds`
excuses an engine that is being stopped, since the worker then leaves the queue.
`AgentHub`: readers end, because the kernel fails a link that is gone; `cleanLoop` and the
wake loop go on; time passes (`Age`). The wake loop's SSH command, an agent's dial and its
register message get strong fairness, as the network lets them through again and again,
if not every time; a request's push need not end. `DbSync`: a job's goroutine goes on
(weak fairness of its steps), since each of its statements ends at the latest with the
job's context; nobody is assumed to cancel, edit or ask for anything.

**Observed while modelling**, and not claimed as properties:
- The worker empties the queue at once into goroutines that block on `sem`, so the
  queue of 64 hardly ever fills and the refusal does not bound what waits.
- `recoverOrphans` changes a run's status only: its stages may still be shown waiting
  or running. So `SettledStages` is checked without restarts, and with them
  `UnsettledWasInterrupted` says what such a run is.
- A run cancelled in the queue is neither pruned nor notified.
- A cancel that was accepted during an approval is not recorded while untimed commands hold
  all the slots (see Fairness).
- A refused run may have been cancelled before `finalize` records it as failed.
- An INSERT that a Cancel interrupts may have written its rows; the job fails, its
  `RowsCopied` does not count them, and `canceled` is overwritten by `failed`.
- `ActiveInHistory` needs a history that is as long as there are concurrent triggers:
  with a shorter one, `pruneRuns` of one run can drop the other while it executes.
- An agent whose connection was dropped by the late cleanup of the one before it stays
  offline, though it works and sends snapshots, until the wake loop kills and replaces it.
- A remove of "all" empties the hub and leaves the inventory as it is. `AddHost` starts a
  push before a host without an id has been given one.
- `buildInsertSQL` stops at the first row past 8 MiB (`value.go:196`), and `flush` then
  counts the whole batch as copied: the rows behind are lost without an error. They are
  `cut` in the model, and the properties name them.
- A job whose six hours end between two tables returns without `fail` and is shown as
  running for ever, which `JobSettles` excuses. `fail` and `finish` overwrite `canceled`.
- A job that only verifies leaves its entries pending beside those of the result.

## 4. The proofs

The theorems hold for every value of the constants under the named assumptions of the
modules: positive capacities, `Gates` maps each pipeline to a sequence of Booleans,
the bounds are naturals; `Callers` of the SSH pool is finite and does not contain
`Keeper`; `None` is none of the ids; a job's source and target differ, and users are
requests or jobs but not both; `Callers` of the engine is finite, and `"none"` is not a
pipeline. TLC evaluates the assumptions in each run.

**CicdEngine.** None of the properties is inductive alone. `SlotsCounted` needs to know
which goroutines hold a slot when one arrives from the queue, so the invariant says
that queue entries are distinct and wait (`QueuePlaces`). `ExecutingIsRunning` needs
that a run appended next is unused (`RunsNumbered`). `HistoryOnDisk` survives a prune or
delete because both remove from memory and disk together (`SavedIsLive`). The outcome of a run
is a result because the stage it comes from has one (`EndedHasResult`).
`EngineInvariant` is their conjunction with `TypeOK`. One lemma per conjunct has one
step per action. `InvariantHolds` gives `TypeCorrect`, `SlotsCorrect`,
`ConcurrencyCorrect` (runs in `steps` hold slots), `ExecutingCorrect`,
`HistorySurvives`. `EndedIsFinal` proves the action property `TerminalIsFinal`, with
`HistoryOnDisk` for the restart: what ended in memory ended on disk.

**The runs.** `CicdRuns_proofs` goes on from `EngineInvariant` with `RunsInvariant`.
`StatusPlaces` says where a run of each status stands, which is `NoZombieRun` and more;
`SavedStatus` how far the statuses in `runs.json` may be behind (only the append of a run and its
start are not written at once), without which neither survives a restart. For the gates, a yes has to
be followed from `Approve` through the channel and the verdict to the stage
(`YesWasAccepted`), and what executed stays signed in memory and on disk
(`ExecutedWasSigned`, with `UnusedIsFresh` for a run that takes a new number):
`GatesCorrect`. `LoopSucceeds` is the loop invariant of `execute`, the stages behind `cur` have
succeeded, which at the end gives `SuccessCorrect`.

*Triggers that race.* The run `cicd_double_trigger` shows that two callers can give a
pipeline two active runs; what is true instead is proved for any number of callers. A
caller past its check is a claim on a run (`Past`). A check succeeds only when the pipeline
has no active run, and each claim is used once, so the claims and the active runs
of a pipeline together are never more than the callers: `ActivesCorrect`, and with one
caller `OneActive`. Pruning counts runs that are newer than the one it drops, which may have
ended, so the argument for the history is a different one: `NewerBounded` says that the
runs newer than an active one, ended or not, and the claims of its pipeline are fewer
than the callers, because all of them passed their checks before it was appended. A
prune, which keeps `MaxRuns` runs, then never reaches an active run as long as the history is no
shorter than the number of callers (`EnoughHistory`): `ActiveStaysInHistory` and, with it,
`EngineImplementsLifecycle`. The program keeps 50 runs unless told otherwise, at least 5
through the handler of a save, so the condition fails only for more than that many
triggers of one pipeline at once.

**The stages.** `CicdStages_proofs` goes on with `StagesInvariant`: what the stages around
`cur` show at each place of the loop (`StageProgress`), how the stages on disk may differ from
those in memory (`SavedStages`: in the stage of `cur` at the places of `Unsaved`, between a section
of the loop and its persist, where the disk still shows what was there before, and in later stages
that are skipped and not persisted yet), that what shows as
waiting or running is where the loop is or was interrupted by a restart (`Unsettled`), that
only gated stages are asked for (`AskedIsGated`), and why a context is done (`CtxReason`).
`OrderCorrect` and `ResultsAreFinal` follow for any number of restarts: a result is on disk too,
except the one the loop has set last and not persisted yet, so the restart that takes the stages
from disk changes no other.
`SettledCorrect` assumes `CrashBound = 0`, because `recoverOrphans` sets the status of a run and
leaves its stages; `UnsettledWasInterrupted` is what holds with restarts. Two theorems say how
far the findings of section 5 go. `WaitsEndForAReason`: a wait ends by an answer, an accepted
cancel, the deadline of a pipeline that has one, or a restart, so that without deadlines
(`Timed = {}`) and restarts the promise of an unlimited wait holds (`WaitsUnlimited`).
`RejectedOnlyBesideYes`: a rejected stage executes only if a yes was accepted for it as well.

**PipelineDefs.** The listing destroys secrets (`cicd_masked_secrets`), and the proofs say
that nothing worse happens and nothing else does it. `DefsInvariant`: no two definitions
share an array, a definition in memory and on disk holds what was entered for it last or
the mask, and the array a trigger has copied holds secrets until it is read. It gives
`EditsReachMemoryAndDisk` (never another pipeline's secrets, never an older version) and
`RunsGetTheirSecrets` (an edit or delete between the copy and `resolveRuntime` does not
reach the run, since both replace the array and do not write into it). `OnlyListsMask` is about
the behaviours without `ListPipelines`: in these `GetIsUnmasked` holds, across every save, import,
delete, trigger and restart. The theorems assume that `None` is neither an array nor secrets
(`NoneApart`); the module itself assumes nothing.

**SshPool.** `UseCounted` equates a counter with the cardinality of the set of users, so
each change is a lemma about adding or removing one member. `References` says that
callers, pool and keepalive list refer only to entries that were made, and
`DialsBounded` that each successful dial has a number left. With `DeadOnTheWay` (who
evicts or reaps holds a dead entry) these give `ClosedIsDead`; the double check gives
`LiveIsPooled`; and `NoLeak` holds since a goroutine that leaves a dead entry to
others does so because `use` shows that there is another user. `MarkersSpare` proves the
sharpest true form of "the close waits for the last user": only `LastUserLeaves` can
close a connection in use, which is exactly the finding below. `OpenStaysBounded` counts:
live connections map one to one to their hosts (`LiveIsPooled`), dead ones that are still open to
the calls that hold them (`NoLeak`), and a call that has just dialled holds none, so all open
connections together are at most the hosts and the goroutines, for any number of dials,
where the number of hosts is finite.

**AgentHub.** `HubInvariant` is `TypeOK`, `EntryHasReader`, `CacheHasReader` and `HostsKnown`:
a process, a socket in use and a push know the host they are about. `Disconnect` deletes
whatever the host has, its own or not, which is what keeps the first two, and is at the
same time why `DroppedOpenHasRival` (`OnlyRivalsDropOpen`) has its exception.

**DbPool.** `PoolInvariant` joins types, `OrderListsPool`, `PooledIsOpen`, `NoLeak` and
`StaleWasMissed` with what each goroutine holds at its place: the database of an `insert` is
open, for the connection it asked for, and nobody else's. The lemmas about `Drop` and
about the list that is left after an eviction say that each keeps order and
distinctness; the rest is set reasoning. `OpenStaysBounded`: the pooled databases are the image of
the list, every other open one is in the hands of an `Acquire` about to insert it, so at most
`PoolSize` and one for each of these are open, for any finite number of users.
`ClosedInUseOnlyForAReason` looks at the three steps that close databases: an insertion evicts
only when the list is full, and then its head alone; a release closes the database of its own
connection; and what the loser of a race closes is nobody's but its own.

**DbSync.** `ImplementsPool` maps each job step to one step of `DbPool` or to none, so the
pool's invariant holds beside jobs. `JobInvariant` adds to the two properties of the
progress what a job knows at each stage: the status and the context agree
(`StatusMatches`), the rows read are those written, cut and in the batch (`RowsCounted`; an INSERT
that fails breaks this, and ends the job with the same step, which is all that
`ProgressIsTrue` allows it),
tables behind the current one are finished and those ahead untouched (`CopiedSoFar`,
`NotYetCopied`). Lemmas name the effect of each step on the counts, once, and the
conjuncts use them.

**Only model-checked:** liveness, which is out of TLAPS's reach here (`CancelTakesEffect`,
`TimedRunEnds`, `OfflineIsWoken`, `DeadGoesDark`, `JobSettles`), and of the runs that find a
violation, that it is reached. Every invariant and every action property that a passing run
checks is the statement of a theorem, some under the hypotheses named
above.

## 5. Where code and documents disagree

Each of these is a run that TLC must find violated.

- `cicd_double_trigger`: the requirements (`docs/cicd/03-CICD功能需求文档.md:51`) make runs of
  a pipeline serial. `Trigger` checks under the read lock and appends under a second
  lock without looking again: two concurrent callers both succeed.
- `cicd_late_rejection`: the comment of `Approve` (`engine.go:756`) says that false cancels
  the stage. `Approve` sends to a channel it looked up before; if the wait received a yes
  in between, the no is accepted by a channel nobody reads and the stage runs.
- `cicd_approval_deadline`: the requirements (line 108) promise an approval wait
  without time limit. The wait watches the run's context, whose deadline goes on counting.
- `ssh_closed_in_use`: the comment of `Pool` (`exec.go:308`) and
  `CHANGELOG-2026-08-24.md:35` say a connection is not closed while others use it.
  `release` decrements `use` and reads `dead` in two steps: a caller that comes in
  between, followed by a `markDead`, has the connection closed under its session.
- `cicd_masked_secrets`: the comment of `maskPipeline` (`engine.go:620`) calls its result a
  masked copy. The copy shares the array behind `Env` with the definition: a view of the
  list overwrites the secrets in memory, and the next save writes the mask to disk.

## 6. What is not modelled

In `CicdEngine`: the commands of a step and its own timeout, continueOnFail, artifacts, log text,
notifications, SavePipeline (a run works on the snapshot Trigger took; that an edit or a
view reaches its secrets all the same is in `PipelineDefs`). `runs.json` and `pipelines.json`
are written atomically: a torn write of `JSONFile.Write` loses the whole file, which no
property of the code denies. Errors of writing are logged by the code and change nothing.
In `PipelineDefs`: credentials, cron expressions, artifacts, the copy handler.
In `AgentHub`: `CleanAgent`, which nothing calls, the content of snapshots and the agent's
version (any request may ask for a push), the detection of the server's address.
In `DbPool` and `DbSync`: `DatabasePool.Close`, which nothing calls, queries, the write
unlock and the audit log, what a statement says, types, DDL and the conversion of values,
the recovery of a panic in a job.
In `SshPool`: `Pool.Close` at the end of the process, time, what is executed and how its
output is parsed, and the host's configuration.
Not modelled at all: the GoNavi drivers (imported code: dialects, DSNs and calls of
client libraries), Ansible and Kubernetes (thin calls of external systems), host
handlers (a command and its parsed output, no state of their own), the central store
(SQL), wiring and authentication. These are by far the most lines of the repository,
which is why the mapped share of it is small: about nine lines in ten of the
implementation keep no state that two actors share, and what a request there returns
is text that depends on an external program. Everything else of the table in section 1
is in the plan.

## 7. Plan

Done: `CicdEngine` with `RunLifecycle`, `SshPool`, `AgentHub`, `PipelineDefs`, `DbPool` and `DbSync`,
their checks and proofs. Left, in the order of what matters most:

1. `SingleflightCache` (`cache.go`, `snapshotcache.go`): single flight, expiry,
   invalidation during a build, panic in a build. Property: freshness after invalidation.
2. `Cron` (`cron.go`): fields as sets, Match against a reference definition over bounded
   dates, the minute loop with late ticks.
3. `RunExecution` (`handlers/cicd.go`): the steps of a stage, continueOnFail, the kill of
   a command, abandoned remote commands; to be composed with `CicdEngine`'s stage results.
4. `WriteUnlock` (`writeunlock.go`): expiry between the check and the statement.
5. Credentials beside `PipelineDefs`, and the torn writes of both files.
6. Candidates after that: log monitor archive and index, plugin switches.
