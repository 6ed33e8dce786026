# Kernelyra: TLA+ models, checks and proofs

Kernelyra is a local training service. A workspace keeps data sets, training runs and checkpoints
in one directory; a runtime schedules the runs and drives one backend process per run; SDK, CLI,
HTTP server and MCP server reach it. This directory models the parts of the Python package
(`src/src/kernelyra/`) that decide *when* things happen to runs, checkpoints, backend processes,
data sets, approvals, locks and sessions, and *what* a run is planned, split and restored as. The
numerical work (gradients, kernels, encodings, file formats) is left aside.

Paths below are relative to `src/src/kernelyra/` unless they say otherwise. `PROJECT.json` holds
the same information for tools: components, runs, mutants, hazards, theorems, and for every
definition the source lines it stands for.

## 1. Inventory

### 1.1 Components

| Component | Code | State it keeps | Operations that change it | Modelled in |
|---|---|---|---|---|
| Training control plane | `runtime.py` (`TrainingRuntime`) | run rows in the database; live threads, control flags, `_closing`, scheduler thread and lock file in memory | `start`, `close`, `command` (start, resume, pause, stop), a scheduler pass, a worker thread's finalization, `rebalance` | `RunLifecycle`, `RunProtocol` (all but `rebalance`) |
| Training session | `runtime.py` (`_train`, `_run_worker_loop`, `_complete_with_test`), `model_guard.py`, `quality.py` | the worker's copy of the run, score window, plateau and streak counters, target hits | train a chunk, evaluate, save last, promote best, judge, discard, restore, final test, baseline | `TrainingLoop` |
| Checkpoint files | `checkpoints.py` | `best`, `last` and their `.json` metadata, per run | `record`, `promote`, `verify`, `discard_last`, `remove_run` | `CheckpointStore` (all but `remove_run`) |
| Backend sessions | `backends/*_backend.py`, `backends/base.py` | arrays, handle or model object; target statistics; cursor of the rows; the checkpoint file | create, train, evaluate, save, restore, close; batch adaptation, out of memory | `BackendSession` |
| Native core | `native_core.py`, `tuning.py` | tensor arena and its leases, model handle, CSV stream | acquire, train, export and import parameters, read, rewind | `BackendSession` (as the native backend uses it) |
| Backend process and IPC | `backends/worker.py` | a child process, a socket, request numbers, executed steps | constructor, `request`, heartbeat, `close`, the child's main loop and orphan watch | `WorkerIPC` |
| Prefetching stream | `streaming.py` | producer thread, bounded queue, `_stop`, `rows_consumed`, row iterator | `next_batch`, `restore_rows`, `close`, the producer loop | `PrefetchStream` |
| Data splits and tasks | `backends/splitter.py`, `data_health.py`, `streaming.py`, `ingestion/tabular.py`, `auto.py` | none (pure) | task of the target, split policy, split in memory and as a stream | `DataSplit` |
| Agent access | `server.py`, `agent_policy.py`, `storage/sqlite.py` | sessions in memory; approvals and action log in the database | issue and end a session, issue, revoke and consume an approval, act on a run, export | `AgentAccess` |
| HTTP client and server sessions | `client.py`, `async_client.py`, `server.py` | the client's session; the server's sessions and rate windows | request, renewal, retry; authentication, limit | `ApiClient` |
| Daemon and locks | `daemon.py`, `security.py`, `cli.py`, `server.py` | lock file, pid file, scheduler lock, secret | serve, start, stop, create the secret | `Workspace` |
| Data sets | `datasets.py`, `ingestion/` | `dataset_records`; files in `datasets/` and `arrays/` | `import_file`, `remove`, `load_arrays`, `attach_path` | `DatasetStore`, `AutoTrain` |
| Maintenance | `maintenance.py` | files of the workspace, manifest | `repair`, `cleanup`, `migrate`, import of a manifest | `DatasetStore` (data sets), `Workspace` (pid and lock files) |
| Run creation and removal | `workspace.py` | run rows and directories | `create`, `remove`, the commands of a handle | `AutoTrain`, `RunLifecycle` (`Create`) |
| Planning | `batch.py`, `planning.py`, `tuning.py`, `hardware.py`, `architectures.py` | none (pure) | batch, chunk and execution plans, backend selection | `Planning`, `ChunkPlan` |
| Algorithm packs | `packs.py` | a JSON table of packs | create, add and remove an algorithm, delete | `Packs`, edited in `AutoTrain` |
| One-call training | `auto.py`, `easy.py` | none of its own | resolve, plan, import, create, start, poll | `AutoTrain` |
| Inference check | `inference.py` | none | predict held-out rows of a completed run | `AutoTrain` (`InferenceRows`) |
| Database | `storage/sqlite.py` | the tables | one transaction per operation | atomic steps of its users |
| CLI, MCP transport, SDKs, reports, formats | `cli.py`, `mcp_server.py`, `reports.py`, `formats.py`, `src/sdks/`, ... | none | translate calls, print | not modelled |

### 1.2 How they interact

* **Commands.** A client thread (SDK, HTTP or MCP) calls `TrainingRuntime.command`. Under
  `self.lock` it changes the run's row and raises a flag that the run's worker thread polls. The
  command is *acknowledged* (`pausing`, `stopping`) if the worker lives and *completed* (`paused`,
  `stopped`) if not.
* **Scheduling.** One thread wakes up four times a second, takes the lock, lists the queued runs once and
  launches those that fit next to the live ones.
* **Worker threads.** A launched thread opens a backend process, saves the run's record (and the
  baseline of a fine-tuned run), loops until it is complete, paused, stopped or broken, closes the process, and
  finalizes its run under the lock: the status it records depends on its own result *and* on what a
  command wrote meanwhile.
* **Backend process.** Parent and child exchange frames over a socket. The parent waits with a
  time-out; a time-out ends the session. A child that loses its parent has to notice and leave.
* **Checkpoints.** The worker thread's copy of the run and the row in the database are saved at
  different moments from the four checkpoint files; what they show together at a crash decides how
  the run continues. Inside a backend, what is saved is not always what is trained: the native
  backend trains behind a handle and copies its parameters back before it saves.
* **Planning and creation.** `train()` plans from a preview, registers the data, and creates the run
  through `RunManager.create`, which checks, fills and clamps the same options again, with the pack
  table as it is then. The worker looks data set and pack up a third time.
* **Data.** Imports, removals, loads, `cleanup` and `repair` work on the same directory and the same
  table from several processes without a common lock.
* **Processes.** Daemon, `start`, `stop`, `repair` and SDK programs meet in four files of the state
  directory: `daemon.secret`, `daemon.lock`, `daemon.pid` and `scheduler.lock`.
* **Clients.** A client repeats reads after a network failure and renews an agent's session once, if
  the middleware refused it; an asynchronous client does so from several threads over one session. The
  server looks at the session twice, in the middleware and in the route.
* **Agents.** A session says which actions are allowed, an approval pays for one of them. Approval,
  log entry and action are three separate steps.

### 1.3 What is hard, and what correctness means

| Component | Hard to test | Correct means |
|---|---|---|
| Control plane | a command between two steps of a worker or a pass; a stop overtaking a pause or a completion; `close()` with a time-out; a crash in a transient state | record and thread agree (`RecordMatchesThread`); a stop ends as a stop (`DrainIsHonoured`); drains end; the machine is never oversubscribed |
| Session, checkpoints | a crash between any two durable steps; resumes that lose the window of scores; a promotion that fails half way | the best model is noted, on disk and delivered (`BestIsKept`); an undisturbed pause can be continued (`PauseContinues`) |
| Backend sessions | a copy of the weights that lags behind; a cursor that outlives a batch nobody learnt; an arena that never grows under a batch that does | a checkpoint is what the session predicted with (`CheckpointIsFaithful`); rows are learnt once and in order (`LearnsInOrder`); there is room (`ArenaSuffices`) |
| Backend IPC | an answer that comes after the time-out; a child that dies or hangs in each state | no stale answer (`NothingLeftOver`), a request counted in full or not at all (`StepsAreAccounted`), no process left behind, every call returns |
| Stream | a restore while the producer is full of old rows; an error behind queued rows | rows in file order, none lost or repeated (`RowsInOrder`); a call returns unless it repeats one that raised (`BatchArrives`) |
| One-call training | six layers of options, filled and clamped twice; packs and data sets that change under the call; a policy chosen from twenty rows | an accepted plan is created, and changed in three named ways only (`PlanIsKept`); no row is trained and tested on (`NothingLeaks`); batches fit, chunks cover; the call returns |
| Agent access | two calls with one approval; revocation between consumption and action; a crash before the log entry | an approval pays once, never after revocation, only for its action, never unlogged |
| Client sessions | a lost answer; a restart between check and request; a session that ends between the two checks of the server; threads that share a session | nothing is done twice or reported falsely (`AnswerIsTrue`); a call the middleware refused is repeated with another session (`SessionIsRenewed`) |
| Daemon and locks | reused pids; a repair between lock and pid file; a start that races a start | one scheduler per workspace (`OneRuntime`); who serves can be found (`DaemonIsRegistered`); one secret, but for who read its file too early (`SecretIsShared`) |
| Data sets | two imports of one content; death between two unlinks; repair and cleanup next to an import | a registered data set has its copy (`RecordsAreBacked`); no copy is left but of a replaced record or a call that died (`DiskMatchesRecords`); a repair that runs alone leaves no stray file |

Every hazard is listed in `PROJECT.json` at its line, with the properties that cover it, or with
a note where none does.

## 2. Modules and their correspondence to the code

An operator named `Op_Mutation` (or `FreshSignal_Kept`, `Chunk_PastBoundary`, ...) is a plausible
mistake in `Op`. No definition uses it; `PROJECT.json` says which property notices it when it takes
the place of `Op`.

### 2.1 Runs and their sessions

* **`RunStates`**: the values of `status` a run can have, grouped as the code groups them.
* **`RunProtocol`**: the abstract specification. A client sees two things of a run: its state and
  whether a worker is busy with it. Nine moves (register, queue, recover, request a pause, request a
  stop, launch, settle, drain, lose) are all it may observe. `busy` is what makes the protocol worth
  stating: a request takes effect at once only if nobody is busy with the run, only its worker
  settles a busy run, and no second worker is launched for it. `RunLifecycle` is shown to implement
  it; `AgentAccess` and `AutoTrain` are composed with it instead of with the detail.
* **`RunLifecycle`**: `TrainingRuntime` in detail. `status`, `paused`, `stop_requested` are columns
  of the run's row and survive `Crash`; `worker[r]` is the phase of the thread registered in
  `self.threads`, `signal[r]` the two events of `self.controls`, `todo` the listing a pass works on,
  `session` the backend processes that threads hold open, `joined` the snapshot of `close()`. Whatever the code does
  under `self.lock` in one go is one action guarded by `Unlocked`. A scheduler pass holds the lock
  over several launches and therefore is a sequence of steps (`PassBegin`, `PassLaunch`, `PassSkip`,
  `PassEnd`) during which `Unlocked` is false. `Finalize` includes the re-reading of the row by
  which a stop or a pause overtakes the thread's own result. `CloseMark` takes the lock,
  `CloseBegin` does not: this is where the code leaves a gap.
* **`CheckpointStore`**: the four files of a run, each replaced atomically and one at a time.
* **`TrainingLoop`**: one run from its first start to the final test. A session of this module is
  the `loop` (and `opened`) phase of `RunLifecycle`. `rec` is the row, `run` the thread's copy;
  each `save_run` of the loop is `Save`, each call of `CheckpointManager` a step of `CheckpointStore`,
  and the program counter `pc` names the next call of the loop body. `Fails` lets any call fail,
  `Crashes` kills the process between any two steps. `Finalizes` is what `_train_guarded` makes of a COMPLETE:
the run is done, or a late pause or stop leaves it resumable with its test behind it.
* **`BackendSession`**: what is inside a backend between those calls. Weights are what they started
  from and how many rows they have learnt; target statistics are those of the data or of the model
  to fine-tune. `state` holds the arrays (or the model object), `handle` the native copy; `Live` is
  the one the backend trains and predicts with. `Create` is the creation of a session with the
  precedence of a checkpoint over a model to fine-tune; `Step`, `OutOfMemory`, `Evaluate` (with the
  adaptation of the batch) and `Complete` are calls of the loop; `End` is a close or a crash. The
  arena of a native stream is planned once by `ArenaBytes` and leased per batch size.
* **`WorkerIPC`**: one session of a `ProcessBackendWorker`: the parent's and the child's control
  flow and the two directions of the connection. A request asks for a number of training steps (none:
  an evaluation, a checkpoint); the child carries them out one by one (`ChildSteps`) and may raise, crash
  or be given up on between any two. `executed`, `credited` and `failed` say for each request what the
  child did, what its caller was told and whether its caller got an error.
* **`PrefetchStream`**: `StreamingTabularSource` with its producer thread. A call that raises the error of
  the reader leaves the source open (`reader` is then `"spent"`, or `"skipped"` where an encoding failed
  without prefetch): the training may call again, save, restore or close.

### 2.2 From data to a run

* **`Packs`**: the built-in packs, the records of user packs, the rules for overrides, and what
  algorithms cap; lookups and edits as operators on the table.
* **`Planning`**: `plan_batch`, execution targets, backend order and selection, training contracts
  and `autotune_execution`, as integer arithmetic. Memory is counted in units of 16 bytes.
* **`ChunkPlan`**: `ContextChunkPlanner.chunk_ranges` as a small state machine, one step per turn of
  its loop; the hash that jitters a chunk is any number. A machine and not a recursive operator, so
  that its coverage is an invariant that can be proved.
* **`DataSplit`**: the task read from a target column in four places, the split policy, and the
  split, by permutation, by class or by hash bucket. A source is its rows' labels and groups and
  a few flags; a permutation is given by the rank of each row.
* **`AutoTrain`**: one call of `train()`, `finetune()` or `Engine.fit` from options to the end of
  its polling loop. The actions follow the call (`Plan`, `PlanChunk`, `Import`, `Imported`, `Create`,
  `Start`, `Poll`, `Interrupt`), the worker (`Launch`, `Open`, `Settle`; run states are those of
  `RunProtocol`) and others (`EditPacks`, `CreateDirect`, `Command`, `RemoveDataset`).
  `PlanRefused`, `CreateRefused`, `RegistrationRefused` and `SplitRefused` are the error returns of
  the components behind. Fractions and metrics are in thousandths.

### 2.3 Access and files

* **`AgentAccess`**: extends `RunProtocol`. Agents' calls, the user's approvals and what the runtime
  does on its own (`Meanwhile`, the protocol's other moves) interleave over the same run states.
* **`ApiClient`**: clients and server over a network that delays and loses. A request is in `net`
  until it is answered, and may be carried out after its client gave it up. `Authenticate` is the
  middleware, which lets it `inside` or refuses it, `Handle` the route in its own thread, which looks
  at the session again before it acts. `served` counts how often each call was carried out, `result`
  what its caller was told.
* **`DatasetStore`**: imports, removals, loads, the adoption of what the index of an old version lists
  (`Adopts`), the import of a manifest (`Restores`: look at the files, then save the record), `cleanup`
  and `repair` over one directory.
* **`Workspace`**: processes as pids that are given out again, one step per system call on a shared
  file. `lockFile` is the inode a name leads to and `handle` the inode a process has open: a lock
  that is unlinked is not released, and the next process locks another file. The secret is created in one
  step and written in the next; `early` notes who was started before it was written.

### 2.4 Proofs and instances

* **`RunLifecycle_proofs`, `TrainingLoop_proofs`, `BackendSession_proofs`, `WorkerIPC_proofs`,
  `DatasetStore_proofs`, `Workspace_proofs`**: the theorems about the module in the name.
* **`DataStream_proofs`**: those about the data of a run, which is `ChunkPlan`, `PrefetchStream` and
  `AutoTrain`, with `Packs`, `Planning` and `DataSplit` beneath. **`AgentAccess_proofs`**: those about
  `AgentAccess`, the server's side, and `ApiClient`, the client's.
* **`MC*`**: instances for TLC.

## 3. Runs

### 3.1 Runs that pass

| Run | Instance | What it asks | What it shows |
|---|---|---|---|
| `lifecycle` | two runs, `r1` before `r2`, both fit | do row, flags and threads stay consistent under every interleaving of commands, pass, workers, `close()` (joined or timed out), crash and restart? | `RecordMatchesThread`, `ReleasedBeforeFinal`, `DrainIsHonoured`, and `ImplementsProtocol`: every behaviour is one of `RunProtocol` |
| `contention` | the same two runs, whose demands collide on the cpu only; fair threads | is the machine ever oversubscribed, is everybody served? | `CapacityBound`; `DrainEnds`; `FirstInLineIsServed` |
| `training` | one run, from scratch or fine-tuned, up to two sessions | what do row, files and weights say of each other after any sequence of evaluations, pauses, failures and crashes? | best model is delivered and on disk; guards agree; evaluation boundaries hold, and the step limit but for one step per session opened at it; an undisturbed pause continues |
| `backend` | the four backends, in memory and over streams, from scratch and fine-tuned, two arena ceilings | is what is restored what was trained? | `CheckpointIsFaithful`, `LearnsInOrder`, `ArenaSuffices` |
| `ipc` | one session, four requests | does time-out, crash or close ever mix up answers or leave a process? | the five safety and liveness properties of the session |
| `prefetch` | five rows, batches of one and four, prefetch 0, 1, 2 | does prefetching change what the training sees? | rows in file order across restores, errors and close; calls return, but for a repeated one (3.4); readers stop |
| `autotrain` | eight sources, nine requests, three direct configurations, one user pack | what becomes of a plan when it is created, split and trained, while others edit, command and remove? | `PlanIsKept` (3.4 says what changes), `BatchFits`, `ChunksCover`, `NothingLeaks`, `TrainReturns` |
| `agent` | one run, two server threads, two approvals, one session | can an approval be spent twice, after revocation, for something else, or unlogged? | none of these |
| `client` | two threads with one client or one each, one call each, one restart or revocation, a limit of two sessions | can a lost answer, a restart, a session that ends between two checks, or a shared session make a call act twice or be reported wrongly? | `AnswerIsTrue`, `SessionIsRenewed`; a call can be denied after one session (3.3) |
| `workspace` | three pids, five processes in all, every role | can two processes own the scheduler, a daemon serve unseen, or hold another secret than the file? | not the first; `DaemonIsRegistered` excepts a repair, `SecretIsShared` whoever read the file before it was written |
| `datasets` | one data set under two names, a daemon thread and another process | when does a registered data set lose its copy, and what do removals and deaths leave behind? | it does only in the situations `RecordsAreBacked` names; a removal takes its own copy and the arrays |

### 3.2 The run that finds a violation

`heldout` checks `HeldOutIsUnseen` on the instance of `autotrain`. `run_inference_check` builds
a `BackendConfig` without `split_strategy` (`inference.py:88`; the default of `base.py:29` is
`random`), while the run was trained with the split policy of its plan (`runtime.py:433`). For an
in-memory run with a `stratified` or `temporal` policy the two splits differ, so the check predicts
rows the model was trained on; its docstring says "held-out rows". Over a stream the split is by
hash and the two agree.

### 3.3 Known divergences

These definitions state what a document, a comment or a log line says; the code does otherwise.
No run checks them. Each can be reproduced by adding the name to the `INVARIANTS` of the
configuration named, or to its `PROPERTIES` where that is said (`LockCoversWorkers` with `SPECIFICATION
PromptSpec`, which lets every join finish in time and nothing crash).

| Definition | Configuration | What happens |
|---|---|---|
| `RunLifecycle!CleanupGuaranteed` | `MCRunLifecycle_safety.cfg` (a `PROPERTY`) | Between the opening of the backend process and the `try/finally` that closes it, `_train` fills in the record, captures the fine-tune baseline and saves the record of every run (`runtime.py:440-463`); if one of these raises, the thread ends with its process open. `CHANGELOG.md:144` promises guaranteed cleanup. |
| `RunLifecycle!LockCoversWorkers` | `MCRunLifecycle_safety.cfg` | A scheduler that left its wait before `close()` set the event finishes its pass after `close()` took its snapshot of live threads, and launches a run nobody joins; `close()` releases the lock file and returns `True`. |
| `TrainingLoop!CheckpointContinues` | `MCTrainingLoop.cfg` | `promote()` replaces the model and then its metadata (`checkpoints.py:85`); after a crash in between the checksum does not match and every resume is rejected. |
| `TrainingLoop!BaselineIsIncoming` | `MCTrainingLoop.cfg` | A resumed fine-tune run captures the trained checkpoint as its baseline (`runtime.py:460`). |
| `Workspace!LockIsExclusive` | `MCWorkspace.cfg` | `repair` unlinks `daemon.lock` next to a stale pid file although a daemon may have just opened it (`maintenance.py:151`); the next daemon locks a new file. The scheduler lock still keeps the second one from serving. |
| `Workspace!ClientsAreKnown` | `MCWorkspace.cfg` | A daemon that reads `daemon.secret` between its creation and its writing (`security.py:28`, `:35`) keeps the empty secret (`server.py:151`) and refuses every client; `security.py:44` calls it the credential for trusted local clients. If the creator dies in between, the file stays empty, and so does every later daemon's secret. |
| `ApiClient!EveryRefusalIsRenewed` | `MCApiClient.cfg` | A session that expires or is revoked between the middleware (`server.py:283`) and the route (`:199`) is refused there as an `AccessDeniedError`; the client renews for `AgentSessionRequired` only (`client.py:100`), so the call ends after one session. |
| `AutoTrain!PackIsHonoured` | `MCAutoTrain.cfg` | `train()` passes the profile of a pack's base besides the pack (`auto.py:596`), and `create` prefers the profile (`workspace.py:114`): a run planned with a user pack is created with the built-in one. |

`rebalance()` is left out of `RunLifecycle`: it saves records it listed before, without the lock
(`runtime.py:798-806`), and may put an acknowledged pause or stop back to training. With it
`ImplementsProtocol` and most theorems would fail for this one reason.

### 3.4 Conditions in the properties

Some invariants hold only under a condition that names what the code really does. They are part of
what the runs show: without the condition TLC finds the behaviour described here.

* `BestIsKept` excludes failing calls (`"fault"`), not crashes: `_run_worker_loop` sets the best score
  before `promote()`, and the handler of a failing `promote()` saves it, so the row may praise a
  model that was never written.
* `StepsAreBounded` allows one step past the limit for each session that was opened at it
  (`overruns`). A run gets there by a failure or a crash after its last save, and without either: a pause
  or a stop that is flagged while the final test runs overrides COMPLETE (`runtime.py:243-247`,
  `Finalizes`), the run ends as paused or stopped at `max_steps`, and a resume trains
  `max(1, max_steps - step)` = 1 step before it looks at the limit again (`runtime.py:546`).
* `RecordsAreBacked` and `DiskMatchesRecords` except data sets with the mark `"overlap"`. `marks` is a
  history that is written when a danger arises and not when it does harm: when a failing import or
  a removal meets another call that registers the same content (`Brings`), or a repair meets any such call. A
  failing second import removes the copy the first one registered; a repair treats the copy
  of an import that is not registered yet as a stray. `RecordsAreBacked` also excepts a *registered* copy
  whose name contains `.pending` (`Lookalikes`), which a cleanup takes.
* Deaths and failures are not excepted, but for the arrays of a removed data set (`"cut"`): they stay if a removal dies
  before it unlinks them, or if an import dies or fails after it wrote them. `stale` names the copies that nobody will unlink any more: a record that
  is replaced under another name leaves its own behind (`Records`), and a call that dies between
  publishing and registering, or between deleting the record and unlinking, leaves its own (`Ends`).
* `ReleasedBeforeFinal` is about the three statuses that say "released" (`backend освобождён`). A run
  that failed between the opening of its backend and its loop is recorded as an error with the process
  still open: `CleanupGuaranteed` of 3.3.
* `GuardsAgree` needs `Patience` to fit in the window of recent scores; the code's default (3) does.
* `CheckpointIsFaithful` excludes one case, `KeepsTwoScales`: a regression fine-tuned over a native
  stream trains with the target statistics of its own data but saves those of the model.
* `LearnsInOrder` counts the batches that ran out of memory: over a stream their rows have been read
  and are not read again (`runtime.py:562`).
* `ArenaSuffices` allows an arena that is at the ceiling of its pack.
* `BatchArrives` is about calls to a reader that has not failed since it was opened or restored. Once
  `next_batch` has raised the error of a prefetching reader, its producer is gone and is not replaced
  (`streaming.py:547`), and a further call waits in `get()` for ever: `EveryBatchArrives`, which no run
  checks, fails in `MCPrefetchStream.cfg`. The training loop makes such a call if the error says "out of
  memory" (`runtime.py:562`); the request time-out of the backend process then ends the session
  (`WorkerIPC`, `CallsReturn`).
* `RowsInOrder` says where the reader stands (`cursor`) only while it has not failed: without prefetch a batch
  whose encoding failed is behind the reader, and a further call goes on with the rows after it. The next
  restore puts it back to the row of the checkpoint.
* `SessionIsRenewed` is about what the middleware refuses. A refusal by the route is final, whichever
  session it was (`EveryRefusalIsRenewed` of 3.3); `AnswerIsTrue` covers it too. A client that
  other threads share is excluded: they may drop the session between its creation and the request.
* `DaemonIsRegistered` excludes behaviours in which a repair removed files while a daemon had the
  lock file open (`raced`).
* `SecretIsShared` excepts a process that was started before the secret was written (`early`): it may have
  read the empty file. While the file is empty, everybody who reads it has what it holds, which is nothing
  (`ClientsAreKnown` of 3.3).
* `PlanIsKept` lists the settings that come out of `create()` as they were planned. Three others do not.
  A batch size of the environment or of the file is planned with and then dropped, since the
  mode is manual for a batch size of the call itself only (`auto.py:600`); that one is cut to the rows, never
  raised (`BatchIsKept`). A target out of range is clamped, to .999, or to .5 but for a regression
  (`workspace.py:148-152`, `TargetIsKept`). The pack of a user becomes a built-in one with the profile of its base
  (`auto.py:596`, `PackIsKept`). `PlannedAsGiven` lists the options that `plan()` takes as the call gives them.
* `BatchFits` bounds a batch by the training rows `plan_batch` counts on (`batch.py:48-49`), not by those of
  the split: of 4000 rows it counts on 3520, and a split for testing may leave 2800
  (`splitter.py:10-14`). The memory bounds the safe maximum, unless that is two, which `plan_batch` does not go
  below; a manual batch may be above the safe maximum, and is then rated a high risk.
* `TrainReturns` allows a call to wait for a run that somebody paused: `paused` is no terminal state.
* `NothingLeaks` keeps the rows of one context together only where the policy is `context` or the
  source is a stream: a time-like column comes first, and an in-memory split then follows time.

### 3.5 Bounds

| Bound | Why it is enough |
|---|---|
| two runs in `RunLifecycle` | runs interact only through the lock, the order of a pass and the capacity; two make one wait behind, and overtake, the other. The theorems hold for any number. |
| no bound on commands, crashes or restarts in `RunLifecycle` | its state space is finite as it is |
| scores 1..3, `Incoming = 2` | better, equal, worse than the best and than the incoming model |
| `Interval = 2`, `MaxSteps = 9`, `ChunkCap = 3`, batch 1..3 | chunks end at a boundary, before it and at an odd limit; adaptation goes both ways and meets both ends |
| `Patience = StopPatience = TargetPatience = 2` | a streak can be broken and completed; early stop, target and rollback all happen before the limit |
| `MaxSessions = 2` | one resume loses all that is kept in memory only |
| batch 2..16 from 4 (`Batches = {2, 4, 8, 16}`), `MaxRows = 32`, `MaxEvals = 5`, `MinArena = 1024`, ceilings 8192 and 40000 in `BackendSession` | the batch doubles twice and halves; rows of 404 bytes make the second growth exceed the smaller ceiling and fit in the larger; the third evaluation is the first that may halve |
| `MaxRequests = 4` | a time-out, two answers of older requests and a live request |
| `MaxSteps = 3`, `StepCap = 2` in `WorkerIPC` | a request of no step, of one, of several that fails between two of them, and of one more than the child carries out (the loop asks for `StepCap = 100` at most, so only another caller can meet the last; the theorems have any sizes) |
| five rows, batch 1 and 4, chunk of 3, `MaxRows = 9` | a batch spans two chunks and wraps around the file; the file is passed almost twice |
| eight sources of 39 to 70 rows | each split policy, both modes, a class of three rows, too few rows, a folder, a file above the stream limit, a task that looks otherwise in the preview than in all rows. `arrays` has 6291456 features, so that its memory bounds its batch |
| nine requests | every layer of options with a value of its own that loses to another, targets on both sides of the range, batch sizes of the call, of the environment, and above the rows |
| two hashes, one permutation, `MaxEdits = MaxCommands = 2` | chunks of both kinds of size (the theorem has any); a pack is made and deleted, a run paused and resumed or removed |
| two calls, two approvals, one session | two calls compete for one approval, or swap two (symmetry over calls and approvals, which are interchangeable) |
| `Ttl = 2`, `Margin = 1`, `Window = 2`, `MaxTime = 2`, four session numbers in `ApiClient` | a session expires, or comes within the margin, during a call; a limit fills and frees again |
| `Retries = 1`, one fault | every further retry repeats the first; a fault before, during or after each step of a call |
| three pids, five starts | a daemon, one that competes, and a command; a pid that is used again after a crash (symmetry over pids) |
| one data set, two names, two calls; the old index lists the first name | what happens to a data set depends on no other; two names leave two copies of one content |

Deadlock is checked except where the system may really stop: a finished training (`done`, or no
session left), a worker's session that is over, a stream that is closed or has delivered `MaxRows`, a
user who has issued every approval there is, a call of `train()` that has returned, clients that made
their calls, and a workspace whose starts are used up.

### 3.6 Fairness

* `RunLifecycle!FairSpec`: the scheduler thread polls for ever (weak fairness). A worker thread opens
  its session, records it and closes it (weak). It polls its flags between two
  requests and finalizes under the lock; both compete with a scheduler that takes the lock again and
  again but sleeps without it after each pass, so a waiting thread gets it (strong fairness). No
  training is obliged to finish, no client, `close()` or crash to act.
* `WorkerIPC!FairSpec`: every blocking call of the parent has a time-out, so it returns (weak
  fairness of `Returns`). The child owes nothing: it may hang for ever. `OrphanEnds` alone assumes
  that the backend comes back from the call it is in (`ChildKeepsUp`).
* `PrefetchStream!FairStreamSpec`: the producer thread and a blocked `get` make progress if they can.
* `AutoTrain!Spec`: the loop of the call polls, the runtime launches what is queued and its workers
  end (weak fairness of `Poll`, `Launch`, `Settle`). That a worker ends is what the step limit of
  `TrainingLoop` and the time-outs of `WorkerIPC` give; that a queued run is launched is
  `FirstInLineIsServed`.
* The other modules claim no liveness and have no fairness.

## 4. Theorems

TLAPS proves these for every value of the constants.

| Module | Theorem | Says |
|---|---|---|
| `RunLifecycle_proofs` | `TypeCorrect` | `Spec => []TypeOK` |
| | `Invariance` | `Spec => []IInv`, the inductive invariant below |
| | `RecordIsTrue` | `RecordMatchesThread`: a run that its record calls settled has no worker, one in a transient state has one, and a queued run carries no signal |
| | `SettledIsIdle`, `NoOrphans`, `FreshStart`, `DrainIsVisible`, `ListingIsCurrent` | the parts of `IInv` one by one |
| | `BackendReleased` | the action property `ReleasedBeforeFinal`, from `IInv` and an induction of its own (`SessionInv`) |
| | `CapacityIsKept` | `CapacityBound`: the machine is never oversubscribed, for any number of runs and any demands |
| | `Refinement` | `RunLifecycle` implements `RunProtocol` |
| | `DrainHonoured` | the action property `DrainIsHonoured`, read off the refinement |
| `AgentAccess_proofs` | `TypeCorrect`, `Invariance` | the same two for `AgentAccess` |
| | `ApprovalPaysOnce`, `Revocation`, `Audited`, `Approved` | the four safety invariants of run `agent` |
| | `ClientInvariance` | `Spec => []ClientInv` of `ApiClient` |
| | `AnswersAreTrue` | `AnswerIsTrue`: whatever is lost, late or repeated, no write is carried out twice or reported falsely |
| | `SessionsAreRenewed` | `SessionIsRenewed`: what the middleware refused is sent again with another session, by every client that is not shared |
| `TrainingLoop_proofs` | `TypeCorrect`, `Invariance` | types and the inductive invariant `IInv` |
| | `BestIsNeverLost` | `BestIsKept`: the best model is noted, on disk and delivered, across pauses and crashes |
| | `PauseAlwaysContinues` | `PauseContinues`: an undisturbed pause leaves a checkpoint that the next session accepts |
| | `TrendIsStreak` | for every patience, the trend guard counts what the loop counts, cut at its window |
| | `GuardsAlwaysAgree` | `GuardsAgree`, for a patience of one to five |
| | `StepsStayBounded` | the action property `StepsAreBounded` |
| `BackendSession_proofs` | `Invariance` | sessions, files and the arena stay related |
| | `CheckpointsAreFaithful` | the action property `CheckpointIsFaithful` |
| | `RowsAreLearntInOrder` | `LearnsInOrder` |
| | `ArenaIsEnough` | `ArenaSuffices`: what is planned for the first batch is enough for every later one |
| `WorkerIPC_proofs` | `TypeCorrect`, `Invariance` | types and the shape of the conversation |
| | `SocketIsClean`, `NoMismatch` | `NothingLeftOver`; and no answer is ever compared with a number that is not its own |
| | `StepsCounted`, `NothingRuns` | `StepsAreAccounted`: a request counts in full or not at all, for any number of steps per request; `NoProcessLeft` |
| `DataStream_proofs` | `ChunksAlwaysCover` | `ChunksCover`: for any number of records, limits and hash, the chunks tile the records and respect the limits |
| | `StreamInvariance`, `RowsStayInOrder` | the inductive invariant of the stream; `RowsInOrder` |
| | `PlanInvariance` | `Spec => []PlanInv` of `AutoTrain` |
| | `PlansAreKept` | `PlanIsKept`: an accepted plan is created, and changed in the named ways only |
| | `BatchesFit` | `BatchFits`: no run has an empty batch, one above the rows the planner counts on, or a safe maximum above two whose samples exceed its memory |
| | `NothingEverLeaks` | `NothingLeaks`, with `LeakInv`: the split a worker of `train()` opens its session with is sound |
| | `CallChunksCover` | `ChunksCover` in `AutoTrain`: the chunk plans of a call start under accepted limits |
| `DatasetStore_proofs` | `Invariance` | the inductive invariants of the three below |
| | `CopiesAreKept`, `FilesFollowRecords` | `RecordsAreBacked`; `DiskMatchesRecords` |
| | `RepairLeavesNothing` | `RepairIsThorough` |
| `Workspace_proofs` | `Invariance` | the inductive invariants of the three below |
| | `RuntimeIsAlone` | `OneRuntime`: two processes never own the scheduler, for any number of processes and starts |
| | `SecretIsOne` | `SecretIsShared`: whoever works with a secret has what the file holds, or was started before it was written and has the empty one |
| | `DaemonIsFound` | `DaemonIsRegistered`: a daemon that answers holds the lock and is the one `daemon.pid` names |

**Assumptions.** Each is a named `ASSUME` of the module that declares the constants, and TLC
evaluates all of them, and those of the modules without proofs, in the runs.

* That a bound, a margin or a set of sizes consists of naturals, or that a marker (`None`, `NoFile`,
  `Unregistered`, `Broken`) is none of the values it stands beside: `HashesAssumption`,
  `RequestsAssumption`, `SessionAssumption`, `MarginAssumption`, `FileAssumption`, `NameAssumption`,
  `NumberAssumption`, `ProcsAssumption` (which also takes finitely many processes), `StreamAssumption`,
  and `LimitsAssumption`, which adds the limits of the client's options.
* `RankAssumption`: the scheduling order is total (priority, then creation time). `NeedAssumption`: a run
  asks for at most the machine. `ActionAssumption` and `CallAssumption` name
  subsets. `ScheduleAssumption` and `ScoreAssumption` are the ranges of a training request.
* `BatchAssumption` of `BackendSession`: the sizes a batch can have are each twice another one, or the
  least. `plan_batch` rounds all three of its numbers to powers of two (`batch.py:83`) and the loop
  halves and doubles between them.
* `ArenaAssumption`: each size that can be leased loses at most 128 bytes to alignment; all of that is
  either less than the smallest batch, or fits, next to twice the greatest batch, into the least arena.
  With the 8 MiB of `tuning.py:50` and the sizes of `plan_batch` one of the two holds for every
  number of columns.
* `AutoTrain`: `RequestAssumption` and `DirectAssumption` give a request its layers of options and
  integers where `_coerce` makes them, which it does before anything looks at them. `OverridesAssumption`:
  overrides passed `_normalise_overrides`. `HardwareAssumption`: there is a CPU thread.
  `SourceAssumption`: rows are numbered from one, and there is a feature column. `StridesAssumption`: a
  stride stands for a permutation, so no two rows share a rank. That is all the proofs use of a
  permutation (`Orders`), and 17 satisfies it for the sizes of the instance. `BucketsAssumption`:
  buckets are 0..99.
* `GuardsAlwaysAgree` has `Patience \in 1..5` as its hypothesis: the window has five scores.

**Argument for `RunLifecycle`.** No safety property is inductive alone. `Finalize` writes a final
status while the thread is still registered and removes it in the same locked step, which keeps
`SettledHasNoWorker`; that the thread found the right status depends on the flags, so
`DrainIsSignalled` is needed; flags are replaced by `start` and `resume`, which are possible from
`error_recoverable` only, and *that* status may be reached with a live thread (a restart of the
scheduler in the same process after a `close()` that timed out). Two facts that no run states
separately close the induction: `QueuedIsClean` (a queued row carries neither flag, live thread or
not) and `StopIsVisible` (the stop event is set only together with a status that shows it, so a
`pausing` run cannot end as `stopped` for a stop nobody asked for). The lemmas have one step per
action. `BackendReleased` needs that a thread which ended with its backend open has failed
(`SessionInv`), that a failure outranks whatever a client asked for (`FinalOutcome`), and, from `IInv`,
that nobody but the thread records a run with a live thread as paused, stopped or completed.
`RefinementStep` maps each action to a move of `RunProtocol` or to a stutter (`QuietSteps`).
`CapacityBound` sums demands with a fold over the set of live workers. That the sum of a set is its
demands added up, in whatever order the fold takes them (`TotalAdds`), is an induction over finite sets;
it is carried out without an induction theorem, by taking a smallest set that violates the claim
(`Smallest`: the strict subset ordering is well founded). The step itself is then short: a
pass starts a run only if the sum leaves room for it, and every other step leaves the set or shrinks it.

**Argument for `AgentAccess`.** `PaysOnce` needs that a call which is about to act holds an
approval nobody has spent (`HeldIsUsed`, with `spent = 0`) and nobody else holds (`HeldAlone`), and
that what was spent stays used (`SpentIsUsed`), so that consumption, the only step that creates a
holder, cannot find it open. `GatedPath` says that gated actions take no other path, and that the log
entry comes before the action.

**Argument for `ChunkPlan`.** `SizeIsValid` shows that the size the loop computes from the clamped
range and the hash lies within what is left and within the limits, whatever the hash: the range is
never empty, and a rest below the minimum is taken as one last chunk. The `RuntimeError` behind it is
therefore unreachable. `ChunkInv` then says of the ranges so far that they tile the records before
the cursor; each turn of the loop appends one.

**Argument for `Workspace`.** A process that serves got there past the exclusive lock on
`scheduler.lock`, which nobody unlinks; every step that leaves that state releases it
(`RuntimeHoldsLock`). The secret is created by an exclusive create, so that the writer is alone and
the file still empty (`WriterIsAlone`): nobody has a secret yet that the writing could make false, only the
empty one. Who has that was started before the secret was written: until then everybody alive was, and
afterwards the file never is empty again (`EmptyIsEarly`).
The third argument is about `daemon.lock`, which a repair can replace: until one has (`raced`), every
process that has the file open has the inode its name leads to, so that those in the lock are at most one,
and whoever has registered is the one in the pid file (`LockInv`). The other two do not depend on it.

**Argument for `ApiClient`.** A writing call is at each moment `Undone` (not carried out, and no request
under way), `Pending` (one request is under way, or it was carried out once and none is) or `Done`. The
lemmas show that a call is sent only while it is undone, that only a refusal or a denial returns it there, and
that a call given up as `unavailable` keeps what may still become of it (`Told`). `Renewed` follows the
session: between a refusal of the middleware and the second request, the client's session is none or a new one, unless
another thread uses the same client.

**Argument for `TrainingLoop`.** Four arguments over one induction. `BestInv`: the best file is at
least as good as the score of every record that was saved, because the metadata and the row are
written after the file, and the worker's copy is never behind the row. `RefInv`: without failures and
crashes, the metadata names the file everywhere but between the two calls that write them.
`StepInv`: at the top of an iteration a session is below the limit, or was opened at it, is counted in
`overruns`, and has its one step past it still before it. `TrendInv`
compares the counter of the loop with the last scores of the window: as many as the counter says
lie below the best one, the one before does not, and a counter that outgrew the window met a full one.

**Argument for `BackendSession`.** `SessionFits` says what a session keeps from its creation to its
end (its backend, the source of its statistics, a cursor that is the rows learnt and left out),
`FileFits` the same of what was saved, and `Agree` that a session can read the file of its run. For the
arena, the sizes that have a lease form a chain in which each is twice the one before (`Chain`), so
that they take less than twice the greatest one together; `RoomInv` says that the capacity is a multiple
of the batch that shrinks only when an evaluation has used up one of the two doublings (`Growth`).

**Argument for `WorkerIPC`.** The socket holds at most one message, in both directions together. What it
is follows from the phase of the parent and that of the child (`ParentInv`, `ChildInv`): a time-out
ends the session and never starts a second request over a connection that still owes an answer. A
request that is under way is not counted yet, and its answer says how many steps the child carried out;
any other was counted with that number or raised an error, and the child does not hold it any more
(`CountInv`). How many steps are lost with a request that raised is not bounded by one: it may be all
it asked for.

**Argument for `PrefetchStream`.** `OrderInv` looks at the items one by one: those taken, then those
queued, then the one the producer holds are the rows from `consumed` on, and the cursor is where the
next one comes from; a failure can only be the last of them. It is suspended while a restore or a close
waits for the producer, which then writes into a queue nobody reads (`Settled`). Once a failure
has been raised there is nothing left to put in order, and no producer to add to it, until a restore
(`SpentInv`).

**Argument for `DatasetStore`.** A copy is safe while no removal or repair meets a call that brings the
same data set (`Apart`, `Spared`), because whoever clears a data set has deleted its record first
(`Cleared`). A copy on disk is named by the record, is `stale`, or is in the hands of a call that will
register or unlink it (`Named`, `Keeps`); a removal has hold of the copy its record named, because nobody
writes another record next to it (`Aimed`). Arrays are published before the record (`Arrayed`), unlinked
after it, and are there without one only while somebody is between the two (`Owed`). A repair that is alone acts on the records it has read,
which are still those of the table (`RepairInv`).

**Argument for `AutoTrain`.** What `create()` does to a plan (`RunKeeps`) is the identity on what `plan()`
accepts, but for batch, target and pack: `Accepted` says that every setting is filled and in its range, so that
filling and clamping again change nothing; that profile, execution and contract are those which the same functions
yield again; and that the checks of `create()` are the ones the plan has passed. `Heeds` says what the plan took
over from the call. `PlanFits` proves both for each plan that is not refused, and `CallInv` keeps them while
others edit the table, whose records stay well formed (`TableInv`, `EditKeepsTable`). No fact about the planned
pack survives an edit: `create()` takes the pack of the profile's base, which is built in (3.3). `BatchFits` needs
nothing but the arithmetic of `plan_batch` (`RunFits`), for a run of another client too: a size up to the quotient
of memory and sample fits in the memory (`FitsWhole`), and the safe maximum is rounded down from the least bound. For `NothingLeaks`, `LeakInv` says that a run of `train()`
has the policy its data set calls for, is read in the mode that policy needs and has a task that is one
(`RunInv`), and that an open session has the split of that run, which was not refused (`SplitInv`).
`SplitsAreSound` is then a fact about splits alone. Its core is that the ranks of n rows are exactly 1..n
(`RankIs`, `RankOrders`, `RankOnto`): the three intervals of `_sizes` are disjoint, cover the rows and are
not empty, an interval further on holds later rows, and within a class the last rank is always one to
train on (`HeldOutIs`).

**Only model-checked.** Liveness (`DrainEnds`, `FirstInLineIsServed`, `CallsReturn`, `OrphanEnds`,
`BatchArrives`, `ReaderStops`, `TrainReturns`), which needs `ENABLED`. Every safety invariant and every
action property of the passing runs has its theorem.

## 5. Abstractions

* A command that repeats what is already in effect, or is refused, writes nothing: a stutter. So are
  the progress saves of a worker, which take the lock, re-read the row and keep its status and flags.
* One thread at a time is inside `close()`. `RunLifecycle` has one process per workspace; `Workspace`
  is where several meet.
* What becomes of a backend process whose thread ended without closing it is not followed in
  `RunLifecycle`; `OrphanEnds` of `WorkerIPC` is where that is looked at.
* Resources are percentages, as in the code; `rebalance` changes a share within the same row.
* Scores are integers in units of 0.05: the code's margins (.04 for a drop, .02 for a plateau) then
  compare as `<` and `=`. Scores are finite: a NaN cannot cross the worker's channel.
* In `TrainingLoop` `batch_mode` is `auto`; a run that continues another run (`base_run_id`) starts
  like one with a model.
* Time is nondeterminism: a time-out may happen whenever its wait is in progress, an approval may
  expire at any moment. `ApiClient` has a clock, which client and server share.
* The socket between parent and child is reliable and ordered, as TCP with a length prefix is;
  authentication is a part of the connection.
* A transaction of `SQLiteStorage` is one step, and so is an edit of the table of packs.
* In `DatasetStore` contents are abstracted to an identifier (hash and target); copies are verified
  before they are published. A data set whose target the ingestor renames (`Aliased`) is registered
  under another identifier than the one the next import looks for, and is therefore imported again.
* The approval of `dataset.import` takes the path of the approvals modelled, with a path for a
  resource, and is not repeated.
* Fractions and metrics of `DataSplit`, `Planning` and `AutoTrain` are in thousandths. A permutation is
  a rank of the rows; hashes, and the buckets they put rows in, are constants.
* The weights of `BackendSession` are an origin and the rows learnt since.
* A random secret is named by the process that wrote it. `agent.secret` and `daemon.json`, which
  nothing else depends on, are left out of `Workspace`.

## 6. Not modelled, and why

* `rebalance()`: see 3.3. It would make one known gap the answer to every question.
* Numerical kernels, the build of the native library, and optimizer state, which no backend saves.
* Ingestors' parsing and their normalisation statistics, which are taken over all rows, held-out ones
  included (`ingestion/tabular.py:113`): arithmetic over files.
* Formats, metrics and reports: pure functions of their input.
* Parsing of the command line, the MCP transport, the SDKs: they translate calls and keep no state.
* Migration of old database rows and `migrate`; of the import of a manifest, the runs: they replace the
  rows that are there, in a workspace without a daemon.
* The cursor of the HTTP event stream.
* A removal that races a resume (`workspace.py:198`), a progress save that inserts a row that was
  removed (`runtime.py:511`), and two runtimes on one database (`runtime.py:176`): listed as hazards,
  see the plan.
* Release tooling, examples, benchmarks.

## 7. Plan

1. A model of removal and of two runtimes on one database, composed from two control planes: the
   hazards that have no property yet.
2. The abstract resource that `BackendSession` is to `TrainingLoop`: its `Restore` as a refinement.

## 8. Reproducing

`tlc -config MCRunLifecycle_safety.cfg MCRunLifecycle.tla`, and so on with the `cfg` and `module` of
each run of `PROJECT.json`; `tlapm` on each of the eight `*_proofs.tla`. The longest runs
(`datasets`, `autotrain`, `client`, `lifecycle`) take one to four minutes with two workers.
