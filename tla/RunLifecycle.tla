----------------------------- MODULE RunLifecycle -----------------------------
(***************************************************************************)
(* The control plane of Kernelyra: TrainingRuntime (runtime.py) inside one *)
(* workspace.  Client threads issue commands, a scheduler thread launches  *)
(* queued runs, one worker thread per launched run drives a backend        *)
(* process, close() drains the workers, and the process may crash and be   *)
(* restarted over the same database.                                       *)
(*                                                                         *)
(* Everything the code does under `self.lock` in one go is one action; the *)
(* scheduler's pass, which launches several runs while it holds the lock,  *)
(* is a sequence of steps during which no other locked action is enabled.  *)
(* rebalance(), which writes run records back without the lock, is left    *)
(* out: see the divergences in the README.                                 *)
(*                                                                         *)
(* An operator Op_Mutation is a plausible mistake in Op; no definition     *)
(* uses it, and the mutants of PROJECT.json put it in the place of Op.     *)
(***************************************************************************)
EXTENDS Naturals, FiniteSets, FiniteSetsExt, RunStates

CONSTANTS
    Runs,       \* identities of the runs of the workspace
    Rank,       \* scheduling order: Rank[r] encodes (priority, created_at)
    Need        \* Need[r][x]: percentage of resource x the run asks for

Resource == {"gpu", "ram", "cpu"}
Cap == 100      \* GPU_CAP, RAM_CAP, CPU_CAP

ASSUME RankAssumption == /\ Rank \in [Runs -> Nat]
                         /\ \A q, r \in Runs : Rank[q] = Rank[r] => q = r
ASSUME NeedAssumption == Need \in [Runs -> [Resource -> 0..Cap]]

VARIABLES
    \* the database (survives a crash)
    status, paused, stop_requested,
    \* the process
    up,         \* the process that owns the runtime is running
    lockHeld,   \* _scheduler_lock_handle is not None
    sched,      \* the scheduler thread: off, waiting, woken or in its pass
    closing,    \* the _closing event
    todo,       \* the runs the current pass listed as waiting and has yet to examine
    signal,     \* controls[r]: the flags raised (a missing entry is {})
    worker,     \* phase of the registered worker thread, "none" if there is none
    outcome,    \* the thread's local outcome: "error" until the loop returns
    session,    \* the runs whose thread holds an open backend process
    closer,     \* the thread inside close()
    joined      \* the live threads close() is joining

db   == <<status, paused, stop_requested>>
proc == <<up, lockHeld, sched, closing, todo>>
work == <<signal, worker, outcome, session>>
shut == <<closer, joined>>
vars == <<db, proc, work, shut>>

Outcome   == {"complete", "pause", "stop", "error"}
Phase     == {"none", "starting", "opened", "loop", "closing", "done"}

Live == {r \in Runs : worker[r] # "none"}
Unlocked == up /\ sched # "pass"        \* self.lock can be taken

Init ==
    /\ status = [r \in Runs |-> "absent"]
    /\ paused = [r \in Runs |-> FALSE]
    /\ stop_requested = [r \in Runs |-> FALSE]
    /\ up = TRUE
    /\ lockHeld = FALSE
    /\ sched = "off"
    /\ closing = FALSE
    /\ todo = {}
    /\ signal = [r \in Runs |-> {}]
    /\ worker = [r \in Runs |-> "none"]
    /\ outcome = [r \in Runs |-> "error"]
    /\ session = {}
    /\ closer = "idle"
    /\ joined = {}

-----------------------------------------------------------------------------
(* start(): a scheduler that is not alive takes the lock file, marks every *)
(* run the previous scheduler left in flight, and spawns the thread.       *)

Recovers_Training(r) == sched = "off" /\ status[r] = "training"
Recovers(r) == sched = "off" /\ status[r] \in Interrupted

RecoveredStatus ==
    [r \in Runs |-> IF Recovers(r) THEN "error_recoverable" ELSE status[r]]

RecoveredPaused == [r \in Runs |-> Recovers(r) \/ paused[r]]

SpawnScheduler ==
    /\ lockHeld' = (lockHeld \/ sched = "off")
    /\ closing' = (closing /\ sched # "off")
    /\ sched' = IF sched = "off" THEN "waiting" ELSE sched

Start ==
    /\ Unlocked
    /\ sched = "off"
    /\ status' = RecoveredStatus
    /\ paused' = RecoveredPaused
    /\ SpawnScheduler
    /\ UNCHANGED <<stop_requested, up, todo, work, shut>>

-----------------------------------------------------------------------------
(* Client commands.  Repeating a command that is already in effect returns *)
(* the run unchanged: those calls are stuttering steps.                    *)

Create(r) ==
    /\ up
    /\ status[r] = "absent"
    /\ status' = [status EXCEPT ![r] = "draft"]
    /\ UNCHANGED <<paused, stop_requested, proc, work, shut>>

\* A fresh pair of control flags; a worker that is still draining loses its orders too.
FreshSignal(r) == [signal EXCEPT ![r] = {}]

Raise(r, flag) == [signal EXCEPT ![r] = @ \cup {flag}]

\* With a live worker a request is only acknowledged; the worker carries it out.
Acknowledged(r, asked, done) == IF r \in Live THEN asked ELSE done

Enqueue(r, from) ==
    /\ Unlocked
    /\ status[r] \in from
    /\ status' = [RecoveredStatus EXCEPT ![r] = "queued"]
    /\ paused' = [RecoveredPaused EXCEPT ![r] = FALSE]
    /\ stop_requested' = [stop_requested EXCEPT ![r] = FALSE]
    /\ signal' = FreshSignal(r)
    /\ SpawnScheduler
    /\ UNCHANGED <<up, todo, worker, outcome, session, shut>>

CommandStart(r)  == Enqueue(r, {"draft"})
CommandResume(r) == Enqueue(r, Resumable)

CommandPause(r) ==
    /\ Unlocked
    /\ status[r] \in {"queued", "training"}
    /\ status' = [status EXCEPT ![r] = Acknowledged(r, "pausing", "paused")]
    /\ paused' = [paused EXCEPT ![r] = TRUE]
    /\ signal' = Raise(r, "pause")
    /\ UNCHANGED <<stop_requested, proc, worker, outcome, session, shut>>

CommandStop(r) ==
    /\ Unlocked
    /\ status[r] \in Stoppable
    /\ status' = [status EXCEPT ![r] = Acknowledged(r, "stopping", "stopped")]
    /\ paused' = [paused EXCEPT ![r] = TRUE]
    /\ stop_requested' = [stop_requested EXCEPT ![r] = TRUE]
    /\ signal' = Raise(r, "stop")
    /\ UNCHANGED <<proc, worker, outcome, session, shut>>

-----------------------------------------------------------------------------
(* The scheduler thread: wait, take the lock, list the runs once, and go   *)
(* through those the listing shows as waiting, in scheduling order.        *)

Waiting(r) == status[r] = "queued" /\ ~paused[r] /\ ~stop_requested[r]

SchedulerWake ==
    /\ sched = "waiting"
    /\ ~closing
    /\ sched' = "woken"
    /\ UNCHANGED <<db, up, lockHeld, closing, todo, work, shut>>

SchedulerExit ==
    /\ sched = "waiting"
    /\ closing
    /\ sched' = "off"
    /\ UNCHANGED <<db, up, lockHeld, closing, todo, work, shut>>

PassBegin ==
    /\ sched = "woken"
    /\ sched' = "pass"
    /\ todo' = {r \in Runs : Waiting(r)}
    /\ UNCHANGED <<db, up, lockHeld, closing, work, shut>>

Usage(x) == MapThenSumSet(LAMBDA r : Need[r][x], Live)

CanStart_NoCpu(r) ==
    /\ \A q \in Live : status[q] \notin {"pausing", "stopping"}
    /\ \A x \in {"gpu", "ram"} : Usage(x) + Need[r][x] <= Cap

CanStart(r) ==
    /\ \A q \in Live : status[q] \notin {"pausing", "stopping"}
    /\ \A x \in Resource : Usage(x) + Need[r][x] <= Cap

Launchable_Twice(r) == CanStart(r)
Launchable(r) == r \notin Live /\ CanStart(r)

NextInPass_Reversed(r) == r \in todo /\ \A q \in todo : Rank[r] >= Rank[q]
NextInPass(r) == r \in todo /\ \A q \in todo : Rank[r] <= Rank[q]

PassSkip(r) ==
    /\ sched = "pass"
    /\ NextInPass(r)
    /\ ~Launchable(r)
    /\ todo' = todo \ {r}
    /\ UNCHANGED <<db, up, lockHeld, sched, closing, work, shut>>

PassLaunch(r) ==
    /\ sched = "pass"
    /\ NextInPass(r)
    /\ Launchable(r)
    /\ todo' = todo \ {r}
    /\ status' = [status EXCEPT ![r] = "training"]
    /\ paused' = [paused EXCEPT ![r] = FALSE]
    /\ stop_requested' = [stop_requested EXCEPT ![r] = FALSE]
    /\ worker' = [worker EXCEPT ![r] = "starting"]
    /\ UNCHANGED <<up, lockHeld, sched, closing, signal, outcome, session, shut>>

PassEnd ==
    /\ sched = "pass"
    /\ todo = {}
    /\ sched' = "waiting"
    /\ UNCHANGED <<db, up, lockHeld, closing, todo, work, shut>>

-----------------------------------------------------------------------------
(* A worker thread.  Its progress saves copy status, paused and            *)
(* stop_requested from the database under the lock, so they change nothing *)
(* that is modelled here.                                                  *)

WorkerMoves(r, from, to) ==
    /\ worker[r] = from
    /\ worker' = [worker EXCEPT ![r] = to]
    /\ UNCHANGED <<db, proc, signal, shut>>

\* The dataset loads, the source checkpoint verifies, the backend answers "ready".
WorkerOpen(r) ==
    /\ WorkerMoves(r, "starting", "opened")
    /\ session' = session \cup {r}
    /\ UNCHANGED outcome

WorkerStartupFails(r) ==
    /\ WorkerMoves(r, "starting", "done")
    /\ outcome' = [outcome EXCEPT ![r] = "error"]
    /\ UNCHANGED session

\* With the backend open, and outside the try/finally that closes it, the thread
\* fills in the record, evaluates the incoming model of a fine-tuned run and saves
\* the record of every run: each of these may raise.
RunRecorded(r) ==
    /\ WorkerMoves(r, "opened", "loop")
    /\ UNCHANGED <<outcome, session>>

RecordFails(r) ==
    /\ WorkerMoves(r, "opened", "done")
    /\ outcome' = [outcome EXCEPT ![r] = "error"]
    /\ UNCHANGED session

LoopReturns(r, result) ==
    /\ WorkerMoves(r, "loop", "closing")
    /\ outcome' = [outcome EXCEPT ![r] = result]
    /\ UNCHANGED session

\* The top of an iteration: the control flags are copied under the lock.
WorkerObserves_StopOnly(r) ==
    /\ Unlocked
    /\ "stop" \in signal[r]
    /\ LoopReturns(r, "stop")

WorkerObserves(r) ==
    /\ Unlocked
    /\ signal[r] # {}
    /\ LoopReturns(r, IF "stop" \in signal[r] THEN "stop" ELSE "pause")

WorkerCompletes(r) == LoopReturns(r, "complete")
WorkerRaises(r)    == LoopReturns(r, "error")

\* worker.close() in the finally of _execute_worker; it may itself raise.
WorkerCloses(r) ==
    /\ WorkerMoves(r, "closing", "done")
    /\ session' = session \ {r}
    /\ \/ UNCHANGED outcome
       \/ outcome' = [outcome EXCEPT ![r] = "error"]

StopAsked(r)  == status[r] = "stopping" \/ "stop" \in signal[r]
PauseAsked(r) == status[r] = "pausing" \/ "pause" \in signal[r]

\* A request outranks what the loop returned; a failure outranks the requests.
FinalOutcome_LoopWins(r) == outcome[r]

FinalOutcome_RequestsWin(r) ==
    IF StopAsked(r) THEN "stop"
    ELSE IF PauseAsked(r) THEN "pause" ELSE outcome[r]

FinalOutcome(r) ==
    IF outcome[r] = "error" THEN "error"
    ELSE IF StopAsked(r) THEN "stop"
    ELSE IF PauseAsked(r) THEN "pause" ELSE outcome[r]

FinalStatus_Unknown == [error |-> "failed", stop |-> "stopped",
                        pause |-> "paused", complete |-> "completed"]

FinalStatus == [error |-> "error_recoverable", stop |-> "stopped",
                pause |-> "paused", complete |-> "completed"]

\* The thread ends: what it returned is recorded and its session object is dropped.
\* A backend process that is still open goes on until it notices (OrphanEnds, WorkerIPC).
Finalize(r) ==
    /\ Unlocked
    /\ worker[r] = "done"
    /\ LET final == FinalOutcome(r) IN
        /\ status' = [status EXCEPT ![r] = FinalStatus[final]]
        /\ paused' = [paused EXCEPT ![r] = final # "complete"]
        /\ stop_requested' = [stop_requested EXCEPT ![r] =
                                IF final = "error" THEN @ ELSE final = "stop"]
    /\ worker' = [worker EXCEPT ![r] = "none"]
    /\ signal' = [signal EXCEPT ![r] = {}]
    /\ outcome' = [outcome EXCEPT ![r] = "error"]
    /\ session' = session \ {r}
    /\ joined' = joined \ {r}
    /\ UNCHANGED <<proc, closer>>

-----------------------------------------------------------------------------
(* close(): set the event, mark the live runs under the lock, join them    *)
(* and the scheduler until the deadline.  It gives the lock file up only   *)
(* if the worker threads it saw are dead.                                  *)

CloseBegin ==
    /\ up
    /\ closer = "idle"
    /\ closing' = TRUE
    /\ closer' = "begun"
    /\ UNCHANGED <<db, up, lockHeld, sched, todo, work, joined>>

CloseMark ==
    /\ Unlocked
    /\ closer = "begun"
    /\ LET marked == {r \in Live : status[r] = "training"} IN
        /\ status' = [r \in Runs |-> IF r \in marked THEN "pausing" ELSE status[r]]
        /\ paused' = [r \in Runs |-> r \in marked \/ paused[r]]
    /\ signal' = [r \in Runs |-> IF r \in Live THEN signal[r] \cup {"pause"} ELSE signal[r]]
    /\ joined' = Live
    /\ closer' = "joining"
    /\ UNCHANGED <<stop_requested, proc, worker, outcome, session>>

CloseEnds ==
    /\ closer = "joining"
    /\ lockHeld' = (lockHeld /\ joined # {})
    /\ closer' = "idle"
    /\ joined' = {}
    /\ UNCHANGED <<db, up, sched, closing, todo, work>>

CloseJoins    == joined = {} /\ sched = "off" /\ CloseEnds
CloseTimesOut == CloseEnds

-----------------------------------------------------------------------------
(* The process dies: its threads, flags and file locks go, the backend     *)
(* processes lose their connection, the database stays.                    *)

Crash ==
    /\ up
    /\ up' = FALSE
    /\ lockHeld' = FALSE
    /\ sched' = "off"
    /\ closing' = FALSE
    /\ todo' = {}
    /\ signal' = [r \in Runs |-> {}]
    /\ worker' = [r \in Runs |-> "none"]
    /\ outcome' = [r \in Runs |-> "error"]
    /\ session' = {}
    /\ closer' = "idle"
    /\ joined' = {}
    /\ UNCHANGED db

Boot ==
    /\ ~up
    /\ up' = TRUE
    /\ UNCHANGED <<db, lockHeld, sched, closing, todo, work, shut>>

Client(r)  == Create(r) \/ CommandStart(r) \/ CommandResume(r) \/ CommandPause(r) \/ CommandStop(r)
Scheduler  == SchedulerWake \/ SchedulerExit \/ PassBegin \/ PassEnd
Pass(r)    == PassSkip(r) \/ PassLaunch(r)
Worker(r)  == \/ WorkerOpen(r) \/ WorkerStartupFails(r)
              \/ RunRecorded(r) \/ RecordFails(r)
              \/ WorkerObserves(r) \/ WorkerCompletes(r) \/ WorkerRaises(r)
              \/ WorkerCloses(r) \/ Finalize(r)
Closer     == CloseBegin \/ CloseMark \/ CloseJoins \/ CloseTimesOut

Next ==
    \/ \E r \in Runs : Client(r) \/ Pass(r) \/ Worker(r)
    \/ Start \/ Scheduler \/ Closer \/ Crash \/ Boot

Spec == Init /\ [][Next]_vars

-----------------------------------------------------------------------------
(* Fairness.  The scheduler loop polls for ever; a worker thread always    *)
(* reaches the next step of its loop, is not assumed to finish training,   *)
(* and gets the lock although the scheduler keeps taking it, because the   *)
(* scheduler sleeps without the lock after every pass (strong fairness).   *)
(* Clients, close() and crashes are never obliged to act.                  *)

SchedulerFairness ==
    WF_vars(SchedulerWake \/ SchedulerExit \/ PassBegin \/ PassEnd \/ \E r \in Runs : Pass(r))

WorkerFairness(r) ==
    /\ WF_vars(WorkerOpen(r) \/ WorkerStartupFails(r))
    /\ WF_vars(RunRecorded(r) \/ RecordFails(r))
    /\ SF_vars(WorkerObserves(r))
    /\ WF_vars(WorkerCloses(r))
    /\ SF_vars(Finalize(r))

FairSpec == Spec /\ SchedulerFairness /\ \A r \in Runs : WorkerFairness(r)

-----------------------------------------------------------------------------
Protocol == INSTANCE RunProtocol WITH state <- status, busy <- Live

TypeOK ==
    /\ status \in [Runs -> RunStatus]
    /\ paused \in [Runs -> BOOLEAN]
    /\ stop_requested \in [Runs -> BOOLEAN]
    /\ up \in BOOLEAN
    /\ lockHeld \in BOOLEAN
    /\ sched \in {"off", "waiting", "woken", "pass"}
    /\ closing \in BOOLEAN
    /\ todo \subseteq Runs
    /\ signal \in [Runs -> SUBSET {"pause", "stop"}]
    /\ worker \in [Runs -> Phase]
    /\ outcome \in [Runs -> Outcome]
    /\ session \subseteq Runs
    /\ closer \in {"idle", "begun", "joining"}
    /\ joined \subseteq Runs

\* A run the database calls paused, stopped or completed has no worker thread: a
\* terminal state is recorded only by the thread that has already released the
\* backend, or by a command that found no thread (CHANGELOG 0.2.0a3).
SettledHasNoWorker ==
    \A r \in Runs : status[r] \in {"absent", "draft", "paused", "stopped", "completed"}
                        => worker[r] = "none"

\* While a scheduler is alive, a run in training, pausing or stopping has a worker
\* thread that will move it on: neither a crash, a blocked close() nor a lost
\* finalization leaves a run stuck in a transient state.
TransientHasWorker ==
    sched # "off" => \A r \in Runs : status[r] \in Transient => worker[r] # "none"

\* A queued run that waits for the scheduler carries no pause or stop of its former
\* life: neither in the record nor in the control flags its next worker will read.
NoStaleSignal ==
    \A r \in Runs : status[r] = "queued" /\ worker[r] = "none" =>
        /\ signal[r] = {}
        /\ ~paused[r]
        /\ ~stop_requested[r]

\* The scheduler acts on one listing of the database for a whole pass; nothing
\* makes the listing stale before it is used, because every writer takes the lock.
PassIsCurrent == \A r \in todo : sched = "pass" /\ Waiting(r)

\* Every acknowledged transition is backed by a flag the worker loop polls, and a
\* pending stop by the stop flag, also when it overtook a pause.
DrainIsSignalled ==
    \A r \in Runs : worker[r] # "none" =>
        /\ status[r] = "pausing" => "pause" \in signal[r]
        /\ status[r] = "stopping" => "stop" \in signal[r]

\* What the database says of a run is what its thread does, in every state between a
\* command, a pass of the scheduler, the end of a worker, a shutdown and a crash: the
\* four parts above, which share the hazards of commands that race with threads.
RecordMatchesThread ==
    SettledHasNoWorker /\ TransientHasWorker /\ NoStaleSignal /\ DrainIsSignalled

\* The runs whose worker threads are alive never ask together for more than the
\* machine has, across launches, pauses, blocked closes and restarts.
CapacityBound ==
    \A x \in Resource : MapThenSumSet(LAMBDA r : Need[r][x], Live) <= Cap

\* A thread records a run as paused, stopped or completed ("backend освобождён", the
\* backend is released) only when it holds no open backend process, whatever failed
\* after the process was opened and whichever request the failure races with.
ReleasedBeforeFinal ==
    [][\A r \in Live :
        status'[r] \in {"paused", "stopped", "completed"} => r \notin session]_vars

\* "Guaranteed backend worker cleanup for completion, pause, stop and error exits"
\* (CHANGELOG 0.2.0a2): a thread that ends holds no backend process, also when it
\* failed before the loop.
CleanupGuaranteed == [][\A r \in Live : worker'[r] = "none" /\ up' => r \notin session]_vars

\* close() gives up the scheduler lock file only when no worker thread is alive
\* ("lock_released": False is what it logs otherwise).
LockCoversWorkers == Live # {} => lockHeld

\* A pending stop ends as stopped, or as an error of the worker or a restart; a
\* pending pause also may be overtaken by a stop.  Neither ends as completed.
DrainIsHonoured ==
    [][\A r \in Runs :
        /\ status[r] = "stopping" =>
             status'[r] \in {"stopping", "stopped", "error_recoverable"}
        /\ status[r] = "pausing" =>
             status'[r] \in {"pausing", "paused", "stopping", "stopped", "error_recoverable"}]_vars

\* The runtime implements the protocol its clients are promised: whatever the
\* interleaving of commands, passes, workers, shutdowns and crashes, a run makes
\* only the moves of RunProtocol.
ImplementsProtocol == Protocol!PSpec

\* A pause or a stop that a live worker has to acknowledge is acknowledged, even if
\* the training itself would go on for ever.
DrainEnds ==
    \A r \in Runs : (status[r] \in {"pausing", "stopping"} /\ worker[r] # "none")
                        ~> (status[r] \notin {"pausing", "stopping"} \/ ~up)

\* If the machine falls idle again and again, the first run in scheduling order is
\* launched once it is queued (or the client withdraws it, or the scheduler ends).
FirstInLineIsServed ==
    \A r \in Runs : (\A q \in Runs : Rank[r] <= Rank[q]) =>
        ([]<>(Live = {}) => (status[r] = "queued" ~> (status[r] # "queued" \/ sched = "off")))
=============================================================================
