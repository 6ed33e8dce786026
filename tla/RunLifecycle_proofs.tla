-------------------------- MODULE RunLifecycle_proofs --------------------------
(***************************************************************************)
(* Proofs about RunLifecycle, for every set of runs, every scheduling      *)
(* order and every demand for resources.                                   *)
(***************************************************************************)
EXTENDS RunLifecycle, FiniteSetTheorems, TLAPS

\* The queued runs are clean, whether or not a worker of their former life is alive.
QueuedIsClean ==
    \A r \in Runs : status[r] = "queued" => ~paused[r] /\ ~stop_requested[r]

\* The stop flag is raised only together with a status that shows it.
StopIsVisible ==
    \A r \in Runs : status[r] \in {"queued", "training", "pausing"} => "stop" \notin signal[r]

\* The inductive invariant: the safety invariants of the runs and the two facts above.
IInv ==
    /\ TypeOK
    /\ SettledHasNoWorker
    /\ TransientHasWorker
    /\ NoStaleSignal
    /\ PassIsCurrent
    /\ DrainIsSignalled
    /\ QueuedIsClean
    /\ StopIsVisible


LEMMA FinalOutcomeType ==
    ASSUME NEW r \in Runs, TypeOK
    PROVE  /\ FinalOutcome(r) \in Outcome
           /\ FinalOutcome(r) = "complete" => status[r] \notin {"stopping", "pausing"}
           /\ status[r] = "stopping" => FinalOutcome(r) \in {"stop", "error"}
    BY DEF FinalOutcome, StopAsked, PauseAsked, Outcome, TypeOK

LEMMA TypeStep == TypeOK /\ [Next]_vars => TypeOK'
  <1> SUFFICES ASSUME TypeOK, [Next]_vars
               PROVE  TypeOK'
    OBVIOUS
  <1> USE DEF TypeOK, RunStatus, Interrupted, Resumable, Outcome, Phase,
              db, proc, work, shut
  <1>1. CASE Start
    BY <1>1 DEF Start, SpawnScheduler, RecoveredStatus, RecoveredPaused, Recovers
  <1>2. ASSUME NEW r \in Runs, CommandStart(r)
        PROVE  TypeOK'
    BY <1>2 DEF CommandStart, Enqueue, FreshSignal, SpawnScheduler, RecoveredStatus, RecoveredPaused, Recovers
  <1>3. ASSUME NEW r \in Runs, CommandResume(r)
        PROVE  TypeOK'
    BY <1>3 DEF CommandResume, Enqueue, FreshSignal, SpawnScheduler, RecoveredStatus, RecoveredPaused, Recovers
  <1>4. ASSUME NEW r \in Runs, Create(r)
        PROVE  TypeOK'
    BY <1>4 DEF Create
  <1>5. ASSUME NEW r \in Runs, CommandPause(r)
        PROVE  TypeOK'
    BY <1>5 DEF CommandPause, Acknowledged, Raise, Live
  <1>6. ASSUME NEW r \in Runs, CommandStop(r)
        PROVE  TypeOK'
    BY <1>6 DEF CommandStop, Acknowledged, Raise, Live
  <1>7. CASE SchedulerWake
    BY <1>7 DEF SchedulerWake
  <1>8. CASE SchedulerExit
    BY <1>8 DEF SchedulerExit
  <1>9. CASE PassBegin
    BY <1>9 DEF PassBegin
  <1>10. CASE PassEnd
    BY <1>10 DEF PassEnd
  <1>11. ASSUME NEW r \in Runs, PassSkip(r)
        PROVE  TypeOK'
    BY <1>11 DEF PassSkip
  <1>12. ASSUME NEW r \in Runs, PassLaunch(r)
        PROVE  TypeOK'
    BY <1>12 DEF PassLaunch, Launchable, Live
  <1>13. ASSUME NEW r \in Runs, WorkerOpen(r)
        PROVE  TypeOK'
    BY <1>13 DEF WorkerOpen, WorkerMoves
  <1>14. ASSUME NEW r \in Runs, WorkerStartupFails(r)
        PROVE  TypeOK'
    BY <1>14 DEF WorkerStartupFails, WorkerMoves
  <1>15. ASSUME NEW r \in Runs, RunRecorded(r)
        PROVE  TypeOK'
    BY <1>15 DEF RunRecorded, WorkerMoves
  <1>16. ASSUME NEW r \in Runs, RecordFails(r)
        PROVE  TypeOK'
    BY <1>16 DEF RecordFails, WorkerMoves
  <1>17. ASSUME NEW r \in Runs, WorkerObserves(r)
        PROVE  TypeOK'
    BY <1>17 DEF WorkerObserves, LoopReturns, WorkerMoves, Outcome, Phase
  <1>18. ASSUME NEW r \in Runs, WorkerCompletes(r)
        PROVE  TypeOK'
    BY <1>18 DEF WorkerCompletes, LoopReturns, WorkerMoves
  <1>19. ASSUME NEW r \in Runs, WorkerRaises(r)
        PROVE  TypeOK'
    BY <1>19 DEF WorkerRaises, LoopReturns, WorkerMoves
  <1>20. ASSUME NEW r \in Runs, WorkerCloses(r)
        PROVE  TypeOK'
    BY <1>20 DEF WorkerCloses, WorkerMoves
  <1>21. ASSUME NEW r \in Runs, Finalize(r)
        PROVE  TypeOK'
    <2> DEFINE final == FinalOutcome(r)
    <2>1. final \in Outcome
      BY FinalOutcomeType
    <2>2. status' \in [Runs -> RunStatus]
      BY <1>21, <2>1 DEF Finalize, FinalStatus
    <2>3. paused' \in [Runs -> BOOLEAN]
      <3>1. (final # "complete") \in BOOLEAN
        OBVIOUS
      <3> QED
        BY <1>21, <3>1 DEF Finalize
    <2>4. stop_requested' \in [Runs -> BOOLEAN]
      <3>1. (IF final = "error" THEN stop_requested[r] ELSE final = "stop") \in BOOLEAN
        OBVIOUS
      <3> QED
        BY <1>21, <3>1 DEF Finalize
    <2> QED
      BY <1>21, <2>2, <2>3, <2>4 DEF Finalize
  <1>22. CASE CloseBegin
    BY <1>22 DEF CloseBegin
  <1>23. CASE CloseMark
    BY <1>23 DEF CloseMark, Live
  <1>24. CASE CloseJoins
    BY <1>24 DEF CloseJoins, CloseEnds
  <1>25. CASE CloseTimesOut
    BY <1>25 DEF CloseTimesOut, CloseEnds
  <1>26. CASE Crash
    BY <1>26 DEF Crash
  <1>27. CASE Boot
    BY <1>27 DEF Boot
  <1>28. CASE UNCHANGED vars
    BY <1>28 DEF vars
  <1> QED
    BY <1>1, <1>2, <1>3, <1>4, <1>5, <1>6, <1>7, <1>8, <1>9, <1>10, <1>11, <1>12, <1>13, <1>14,
       <1>15, <1>16, <1>17, <1>18, <1>19, <1>20, <1>21, <1>22, <1>23, <1>24, <1>25,
       <1>26, <1>27, <1>28 DEF Next, Client, Scheduler, Pass, Worker, Closer

\* Every variable keeps its type: the model never leaves the states of the code.
THEOREM TypeCorrect == Spec => []TypeOK
  <1>1. Init => TypeOK
    BY DEF Init, TypeOK, RunStatus, Outcome, Phase, Interrupted
  <1>2. QED
    BY <1>1, TypeStep, PTL DEF Spec

LEMMA InvariantStep == IInv /\ [Next]_vars => IInv'
  <1> SUFFICES ASSUME IInv, [Next]_vars
               PROVE  IInv'
    OBVIOUS
  <1>0. TypeOK /\ TypeOK'
    BY TypeStep DEF IInv
  <1> USE DEF IInv, SettledHasNoWorker, TransientHasWorker, NoStaleSignal, DrainIsSignalled,
              PassIsCurrent, Waiting, NextInPass, Unlocked, QueuedIsClean, StopIsVisible, TypeOK, RunStatus, Interrupted, Transient, Resumable,
              Stoppable, db, proc, work, shut
  <1>1. CASE Start
    BY <1>1, <1>0 DEF Start, SpawnScheduler, RecoveredStatus, RecoveredPaused, Recovers
  <1>2. ASSUME NEW r \in Runs, CommandStart(r)
        PROVE  IInv'
    BY <1>2, <1>0 DEF CommandStart, Enqueue, FreshSignal, SpawnScheduler, RecoveredStatus,
       RecoveredPaused, Recovers
  <1>3. ASSUME NEW r \in Runs, CommandResume(r)
        PROVE  IInv'
    BY <1>3, <1>0 DEF CommandResume, Enqueue, FreshSignal, SpawnScheduler, RecoveredStatus,
       RecoveredPaused, Recovers
  <1>4. ASSUME NEW r \in Runs, Create(r)
        PROVE  IInv'
    BY <1>4, <1>0 DEF Create
  <1>5. ASSUME NEW r \in Runs, CommandPause(r)
        PROVE  IInv'
    BY <1>5, <1>0 DEF CommandPause, Acknowledged, Raise, Live
  <1>6. ASSUME NEW r \in Runs, CommandStop(r)
        PROVE  IInv'
    BY <1>6, <1>0 DEF CommandStop, Acknowledged, Raise, Live
  <1>7. CASE SchedulerWake
    BY <1>7, <1>0 DEF SchedulerWake
  <1>8. CASE SchedulerExit
    BY <1>8, <1>0 DEF SchedulerExit
  <1>9. CASE PassBegin
    BY <1>9, <1>0 DEF PassBegin
  <1>10. CASE PassEnd
    BY <1>10, <1>0 DEF PassEnd
  <1>11. ASSUME NEW r \in Runs, PassSkip(r)
        PROVE  IInv'
    BY <1>11, <1>0 DEF PassSkip
  <1>12. ASSUME NEW r \in Runs, PassLaunch(r)
        PROVE  IInv'
    BY <1>12, <1>0 DEF PassLaunch, Launchable, Live
  <1>13. ASSUME NEW r \in Runs, WorkerOpen(r)
        PROVE  IInv'
    BY <1>13, <1>0 DEF WorkerOpen, WorkerMoves
  <1>14. ASSUME NEW r \in Runs, WorkerStartupFails(r)
        PROVE  IInv'
    BY <1>14, <1>0 DEF WorkerStartupFails, WorkerMoves
  <1>15. ASSUME NEW r \in Runs, RunRecorded(r)
        PROVE  IInv'
    BY <1>15, <1>0 DEF RunRecorded, WorkerMoves
  <1>16. ASSUME NEW r \in Runs, RecordFails(r)
        PROVE  IInv'
    BY <1>16, <1>0 DEF RecordFails, WorkerMoves
  <1>17. ASSUME NEW r \in Runs, WorkerObserves(r)
        PROVE  IInv'
    BY <1>17, <1>0 DEF WorkerObserves, LoopReturns, WorkerMoves
  <1>18. ASSUME NEW r \in Runs, WorkerCompletes(r)
        PROVE  IInv'
    BY <1>18, <1>0 DEF WorkerCompletes, LoopReturns, WorkerMoves
  <1>19. ASSUME NEW r \in Runs, WorkerRaises(r)
        PROVE  IInv'
    BY <1>19, <1>0 DEF WorkerRaises, LoopReturns, WorkerMoves
  <1>20. ASSUME NEW r \in Runs, WorkerCloses(r)
        PROVE  IInv'
    BY <1>20, <1>0 DEF WorkerCloses, WorkerMoves
  <1>21. ASSUME NEW r \in Runs, Finalize(r)
        PROVE  IInv'
    BY <1>21, <1>0, FinalOutcomeType DEF Finalize, FinalStatus, Outcome
  <1>22. CASE CloseBegin
    BY <1>22, <1>0 DEF CloseBegin
  <1>23. CASE CloseMark
    BY <1>23, <1>0 DEF CloseMark, Live
  <1>24. CASE CloseJoins
    BY <1>24, <1>0 DEF CloseJoins, CloseEnds
  <1>25. CASE CloseTimesOut
    BY <1>25, <1>0 DEF CloseTimesOut, CloseEnds
  <1>26. CASE Crash
    BY <1>26, <1>0 DEF Crash
  <1>27. CASE Boot
    BY <1>27, <1>0 DEF Boot
  <1>28. CASE UNCHANGED vars
    BY <1>28, <1>0 DEF vars
  <1> QED
    BY <1>1, <1>2, <1>3, <1>4, <1>5, <1>6, <1>7, <1>8, <1>9, <1>10, <1>11, <1>12, <1>13, <1>14,
       <1>15, <1>16, <1>17, <1>18, <1>19, <1>20, <1>21, <1>22, <1>23, <1>24, <1>25,
       <1>26, <1>27, <1>28 DEF Next, Client, Scheduler, Pass, Worker, Closer

\* IInv holds in every reachable state.
THEOREM Invariance == Spec => []IInv
  <1>1. Init => IInv
    BY DEF Init, IInv, TypeOK, SettledHasNoWorker, TransientHasWorker, NoStaleSignal,
           PassIsCurrent, DrainIsSignalled, QueuedIsClean, StopIsVisible, RunStatus, Outcome, Phase,
           Interrupted, Transient
  <1>2. QED
    BY <1>1, InvariantStep, PTL DEF Spec

-----------------------------------------------------------------------------
\* A run recorded as paused, stopped or completed has no worker thread.
THEOREM SettledIsIdle == Spec => []SettledHasNoWorker
  BY Invariance, PTL DEF IInv

\* Under a live scheduler no run is stuck in training, pausing or stopping.
THEOREM NoOrphans == Spec => []TransientHasWorker
  BY Invariance, PTL DEF IInv

\* A queued run never hands an old pause or stop to its next worker.
THEOREM FreshStart == Spec => []NoStaleSignal
  BY Invariance, PTL DEF IInv

\* Every acknowledged pause or stop is one the worker loop can see.
THEOREM DrainIsVisible == Spec => []DrainIsSignalled
  BY Invariance, PTL DEF IInv

\* The record of a run and its thread agree in every state.
THEOREM RecordIsTrue == Spec => []RecordMatchesThread
  BY Invariance, PTL DEF IInv, RecordMatchesThread

\* The scheduler never launches from a stale listing.
THEOREM ListingIsCurrent == Spec => []PassIsCurrent
  BY Invariance, PTL DEF IInv

-----------------------------------------------------------------------------
\* A thread that does not run yet holds no backend process, and one that ended holds
\* one only if it failed.
SessionInv ==
    \A r \in Runs :
        /\ worker[r] \in {"none", "starting"} => r \notin session
        /\ worker[r] = "done" /\ outcome[r] # "error" => r \notin session

LEMMA SessionStep == TypeOK /\ SessionInv /\ [Next]_vars => SessionInv'
  <1> DEFINE Holds(q) == /\ worker'[q] \in {"none", "starting"} => q \notin session'
                         /\ worker'[q] = "done" /\ outcome'[q] # "error" => q \notin session'
  <1> SUFFICES ASSUME TypeOK, SessionInv, [Next]_vars,
                      NEW q \in Runs
               PROVE  Holds(q)
    BY DEF SessionInv
  <1> USE DEF SessionInv, TypeOK, Phase
  <1>1. CASE UNCHANGED <<worker, outcome, session>>
    BY <1>1
  <1>2. ASSUME NEW r \in Runs, PassLaunch(r)
        PROVE  Holds(q)
    BY <1>2 DEF PassLaunch, Launchable, Live
  <1>3. ASSUME NEW r \in Runs, Worker(r)
        PROVE  Holds(q)
    <2>1. CASE WorkerOpen(r)
      BY <2>1 DEF WorkerOpen, WorkerMoves
    <2>2. CASE WorkerStartupFails(r) \/ RunRecorded(r) \/ RecordFails(r)
      BY <2>2 DEF WorkerStartupFails, RunRecorded, RecordFails, WorkerMoves
    <2>3. CASE WorkerObserves(r) \/ WorkerCompletes(r) \/ WorkerRaises(r)
      BY <2>3 DEF WorkerObserves, WorkerCompletes, WorkerRaises, LoopReturns, WorkerMoves
    <2>4. CASE WorkerCloses(r)
      BY <2>4 DEF WorkerCloses, WorkerMoves
    <2>5. CASE Finalize(r)
      BY <2>5 DEF Finalize
    <2> QED
      BY <1>3, <2>1, <2>2, <2>3, <2>4, <2>5 DEF Worker
  <1>4. CASE Crash
    BY <1>4 DEF Crash
  <1>5. ASSUME NEW r \in Runs, Client(r) \/ PassSkip(r)
        PROVE  UNCHANGED <<worker, outcome, session>>
    BY <1>5 DEF Client, Create, CommandStart, CommandResume, Enqueue, CommandPause, CommandStop,
                PassSkip, work
  <1>6. ASSUME Start \/ Scheduler \/ Closer \/ Boot \/ UNCHANGED vars
        PROVE  UNCHANGED <<worker, outcome, session>>
    BY <1>6 DEF Start, Scheduler, SchedulerWake, SchedulerExit, PassBegin, PassEnd, Closer, CloseBegin,
                CloseMark, CloseJoins, CloseTimesOut, CloseEnds, Boot, work, vars
  <1> QED
    BY <1>1, <1>2, <1>3, <1>4, <1>5, <1>6 DEF Next, Pass

-----------------------------------------------------------------------------
(* Refinement.  Every step of the runtime is a step of RunProtocol or      *)
(* leaves the statuses and the set of live workers alone.                  *)

\* The steps that neither move a run nor start or end a worker thread.
LEMMA QuietSteps ==
    ASSUME TypeOK,
           \/ Scheduler \/ CloseBegin \/ CloseJoins \/ CloseTimesOut \/ Boot \/ UNCHANGED vars
           \/ \E r \in Runs : PassSkip(r) \/ (Worker(r) /\ ~Finalize(r))
    PROVE  UNCHANGED <<status, Live>>
  <1>1. CASE Scheduler \/ CloseBegin \/ CloseJoins \/ CloseTimesOut \/ Boot \/ UNCHANGED vars
    BY <1>1 DEF Scheduler, SchedulerWake, SchedulerExit, PassBegin, PassEnd, CloseBegin, CloseJoins,
                CloseTimesOut, CloseEnds, Boot, vars, db, work, Live
  <1>2. ASSUME NEW r \in Runs, PassSkip(r)
        PROVE  UNCHANGED <<status, Live>>
    BY <1>2 DEF PassSkip, db, work, Live
  <1>3. ASSUME NEW r \in Runs, NEW from \in Phase \ {"none"}, NEW to \in Phase \ {"none"},
               WorkerMoves(r, from, to)
        PROVE  UNCHANGED <<status, Live>>
    BY <1>3 DEF WorkerMoves, db, Live, TypeOK
  <1>4. ASSUME NEW r \in Runs, Worker(r), ~Finalize(r)
        PROVE  UNCHANGED <<status, Live>>
    <2>1. CASE WorkerOpen(r)
      BY <1>3, <2>1 DEF WorkerOpen, Phase
    <2>2. CASE WorkerStartupFails(r) \/ RunRecorded(r) \/ RecordFails(r) \/ WorkerCloses(r)
      BY <1>3, <2>2 DEF WorkerStartupFails, RunRecorded, RecordFails, WorkerCloses, Phase
    <2>3. CASE WorkerObserves(r) \/ WorkerCompletes(r) \/ WorkerRaises(r)
      BY <1>3, <2>3 DEF WorkerObserves, WorkerCompletes, WorkerRaises, LoopReturns, Phase
    <2> QED
      BY <1>4, <2>1, <2>2, <2>3 DEF Worker
  <1> QED
    BY <1>1, <1>2, <1>4

LEMMA FinalizeSettles ==
    ASSUME IInv, NEW r \in Runs, Finalize(r)
    PROVE  Protocol!Settle(r)
  <1> USE DEF IInv, TypeOK
  <1>1. r \in Live /\ Live' = Live \ {r}
    BY DEF Finalize, Live
  <1>2. status' = [status EXCEPT ![r] = FinalStatus[FinalOutcome(r)]]
    BY DEF Finalize
  <1>3. FinalStatus[FinalOutcome(r)] \in Protocol!Endings(status[r])
    <2>1. CASE status[r] = "stopping"
      BY <2>1, FinalOutcomeType DEF Protocol!Endings, FinalStatus
    <2>2. CASE status[r] = "pausing"
      <3>1. "stop" \notin signal[r]
        BY <2>2 DEF StopIsVisible
      <3>2. FinalOutcome(r) \in {"pause", "error"}
        BY <2>2, <3>1 DEF FinalOutcome, StopAsked, PauseAsked
      <3> QED
        BY <2>2, <3>2 DEF Protocol!Endings, FinalStatus
    <2>3. CASE status[r] \notin {"stopping", "pausing"}
      BY <2>3, FinalOutcomeType DEF Protocol!Endings, FinalStatus, Outcome
    <2> QED
      BY <2>1, <2>2, <2>3
  <1> QED
    BY <1>1, <1>2, <1>3 DEF Protocol!Settle, Protocol!Goes

LEMMA RefinementStep == IInv /\ [Next]_vars => [Protocol!PNext]_(Protocol!pvars)
  <1> SUFFICES ASSUME IInv, [Next]_vars
               PROVE  Protocol!PNext \/ UNCHANGED <<status, Live>>
    BY DEF Protocol!pvars
  <1> USE DEF IInv, TypeOK, Protocol!Goes, Live, Interrupted, Resumable, Stoppable,
              Protocol!Interrupted, Protocol!Resumable, Protocol!Stoppable
  <1>0. TypeOK
    OBVIOUS
  <1>1. CASE Start
    <2>1. Protocol!Recover
      BY <1>1 DEF Start, RecoveredStatus, Recovers, work, Protocol!Recover, Protocol!Recovered
    <2> QED
      BY <2>1 DEF Protocol!PNext
  <1>2. ASSUME NEW r \in Runs, Client(r)
        PROVE  Protocol!PNext
    <2>1. CASE Create(r)
      BY <2>1 DEF Create, work, Protocol!Register, Protocol!PNext
    <2>2. CASE CommandStart(r) \/ CommandResume(r)
      <3>1. Protocol!Queue(r, sched = "off")
        BY <2>2 DEF CommandStart, CommandResume, Enqueue, RecoveredStatus, Recovers, Protocol!Queue,
                    Protocol!Recovered
      <3>2. (sched = "off") \in BOOLEAN
        OBVIOUS
      <3> QED
        BY <3>1, <3>2 DEF Protocol!PNext
    <2>3. CASE CommandPause(r)
      BY <2>3 DEF CommandPause, Acknowledged, Protocol!RequestPause, Protocol!PNext
    <2>4. CASE CommandStop(r)
      BY <2>4 DEF CommandStop, Acknowledged, Protocol!RequestStop, Protocol!PNext
    <2> QED
      BY <1>2, <2>1, <2>2, <2>3, <2>4 DEF Client
  <1>3. ASSUME NEW r \in Runs, PassLaunch(r)
        PROVE  Protocol!PNext
    <2>1. Live' = Live \cup {r}
      BY <1>3 DEF PassLaunch
    <2>2. Protocol!Launch(r)
      BY <1>3, <2>1 DEF PassLaunch, Launchable, PassIsCurrent, NextInPass, Waiting, Protocol!Launch
    <2> QED
      BY <2>2 DEF Protocol!PNext
  <1>4. ASSUME NEW r \in Runs, Finalize(r)
        PROVE  Protocol!PNext
    BY <1>4, FinalizeSettles DEF Protocol!PNext
  <1>5. CASE CloseMark
    <2>1. Protocol!Drain
      BY <1>5 DEF CloseMark, Protocol!Drain
    <2> QED
      BY <2>1 DEF Protocol!PNext
  <1>6. CASE Crash
    <2>1. Protocol!Lose
      BY <1>6 DEF Crash, db, Protocol!Lose
    <2> QED
      BY <2>1 DEF Protocol!PNext
  <1> QED
    BY <1>0, <1>1, <1>2, <1>3, <1>4, <1>5, <1>6, QuietSteps DEF Next, Pass, Closer, Worker

\* The runtime implements the protocol it promises its clients.
THEOREM Refinement == Spec => ImplementsProtocol
  <1>1. Init => Protocol!PInit
    BY DEF Init, Protocol!PInit, Live
  <1>2. QED
    BY <1>1, Invariance, RefinementStep, PTL DEF Spec, Protocol!PSpec, ImplementsProtocol

-----------------------------------------------------------------------------
\* A pending stop or pause ends as what was asked for, or as a recoverable error.
THEOREM DrainHonoured == Spec => DrainIsHonoured
  <1>1. IInv /\ [Next]_vars =>
            [\A r \in Runs :
                /\ status[r] = "stopping" =>
                     status'[r] \in {"stopping", "stopped", "error_recoverable"}
                /\ status[r] = "pausing" =>
                     status'[r] \in {"pausing", "paused", "stopping", "stopped", "error_recoverable"}]_vars
    <2> SUFFICES ASSUME IInv, Protocol!PNext \/ UNCHANGED <<status, Live>>, NEW r \in Runs
                 PROVE  /\ status[r] = "stopping" =>
                             status'[r] \in {"stopping", "stopped", "error_recoverable"}
                        /\ status[r] = "pausing" =>
                             status'[r] \in {"pausing", "paused", "stopping", "stopped", "error_recoverable"}
      BY RefinementStep DEF Protocol!pvars
    <2> USE DEF IInv, TypeOK, Protocol!Goes, Protocol!Interrupted, Protocol!Resumable,
                Protocol!Stoppable
    <2>1. CASE UNCHANGED <<status, Live>> \/ Protocol!Lose
      BY <2>1 DEF Protocol!Lose
    <2>2. CASE Protocol!Recover \/ Protocol!Drain
      BY <2>2 DEF Protocol!Recover, Protocol!Recovered, Protocol!Drain
    <2>3. ASSUME NEW q \in Runs, NEW recovering \in BOOLEAN, Protocol!Queue(q, recovering)
          PROVE  /\ status[r] = "stopping" => status'[r] \in {"stopping", "error_recoverable"}
                 /\ status[r] = "pausing" => status'[r] \in {"pausing", "error_recoverable"}
      BY <2>3 DEF Protocol!Queue, Protocol!Recovered
    <2>4. ASSUME NEW q \in Runs,
                 Protocol!Register(q) \/ Protocol!RequestPause(q) \/ Protocol!Launch(q)
          PROVE  status[r] \in {"stopping", "pausing"} => status'[r] = status[r]
      BY <2>4 DEF Protocol!Register, Protocol!RequestPause, Protocol!Launch
    <2>5. ASSUME NEW q \in Runs, Protocol!RequestStop(q)
          PROVE  /\ status[r] = "stopping" => status'[r] = "stopping"
                 /\ status[r] = "pausing" => status'[r] \in {"pausing", "stopping", "stopped"}
      BY <2>5 DEF Protocol!RequestStop
    <2>6. ASSUME NEW q \in Runs, Protocol!Settle(q)
          PROVE  /\ status[r] = "stopping" =>
                      status'[r] \in {"stopping", "stopped", "error_recoverable"}
                 /\ status[r] = "pausing" => status'[r] \in {"pausing", "paused", "error_recoverable"}
      BY <2>6 DEF Protocol!Settle, Protocol!Endings
    <2> QED
      BY <2>1, <2>2, <2>3, <2>4, <2>5, <2>6 DEF Protocol!PNext
  <1>2. QED
    BY <1>1, Invariance, PTL DEF Spec, DrainIsHonoured

-----------------------------------------------------------------------------
(* Capacity.  The sum of the demands is a fold over the set of live        *)
(* workers.  A fact about all finite sets is proved from the least set     *)
(* that would violate it.                                                  *)

\* A collection of finite sets has a member no other member is a part of.
LEMMA Smallest ==
    ASSUME NEW T, \A S \in T : IsFiniteSet(S), T # {}
    PROVE  \E S \in T : \A U \in T : U \subseteq S => U = S
<1> DEFINE all == UNION T
<1>1. T \subseteq FiniteSubsetsOf(all)
  BY DEF FiniteSubsetsOf
<1>2. IsWellFoundedOn(StrictSubsetOrdering(all), FiniteSubsetsOf(all))
  BY FS_StrictSubsetOrderingWellFounded
<1>3. \E S \in T : \A U \in T : <<U, S>> \notin StrictSubsetOrdering(all)
  BY <1>1, <1>2, WFMin
<1>4. \A S, U \in T : <<U, S>> \in StrictSubsetOrdering(all) <=> U \subseteq S /\ U # S
  BY DEF StrictSubsetOrdering
<1>. QED
  BY <1>3, <1>4

\* The fold: the run it takes first from a set, its equation, and its value.
First(S) == CHOOSE r \in S : TRUE
Rest(S)  == S \ {First(S)}

Sums(x, S, f) ==
    f = [s \in SUBSET S |-> IF s = {} THEN 0 ELSE Need[First(s)][x] + f[Rest(s)]]

Total(x, S) == (CHOOSE f : Sums(x, S, f))[S]

\* The demand of the live workers, as the model sums it, is that value.
LEMMA UsageIs == \A x : Usage(x) = Total(x, Live)
  BY DEF Usage, MapThenSumSet, MapThenFoldSet, Total, Sums, First, Rest

\* What is left of a set without its first run is a smaller part of it.
LEMMA FirstIs ==
    ASSUME NEW S, S # {}
    PROVE  First(S) \in S /\ Rest(S) \subseteq S /\ Rest(S) # S /\ S = Rest(S) \cup {First(S)}
<1>1. First(S) \in S
  BY DEF First
<1>. QED
  BY <1>1 DEF Rest

\* Two functions that satisfy the equation agree where both are defined.
LEMMA SumsAgree ==
    ASSUME NEW x, NEW S, IsFiniteSet(S), NEW V \in SUBSET S, NEW f, NEW g,
           Sums(x, S, f), Sums(x, V, g)
    PROVE  f[V] = g[V]
<1> DEFINE T == {s \in SUBSET V : f[s] # g[s]}
<1>1. SUFFICES ASSUME T # {} PROVE FALSE
  OBVIOUS
<1>2. \A s \in T : IsFiniteSet(s)
  BY FS_Subset
<1>. HIDE DEF T
<1>3. PICK s \in T : \A u \in T : u \subseteq s => u = s
  BY <1>1, <1>2, Smallest
<1>. USE DEF T
<1>4. s \in SUBSET V /\ s \in SUBSET S /\ f[s] # g[s]
  OBVIOUS
<1>5. /\ f[s] = IF s = {} THEN 0 ELSE Need[First(s)][x] + f[Rest(s)]
      /\ g[s] = IF s = {} THEN 0 ELSE Need[First(s)][x] + g[Rest(s)]
  BY <1>4 DEF Sums
<1>6. s # {} /\ f[Rest(s)] # g[Rest(s)]
  BY <1>4, <1>5
<1>7. Rest(s) \in SUBSET V /\ Rest(s) \subseteq s /\ Rest(s) # s
  BY <1>4, <1>6, FirstIs
<1>. QED
  BY <1>3, <1>6, <1>7

\* A set whose parts all have a sum has one.
LEMMA SumsExist ==
    ASSUME NEW x, NEW S, IsFiniteSet(S)
    PROVE  \E f : Sums(x, S, f)
<1> DEFINE T == {s \in SUBSET S : ~ \E f : Sums(x, s, f)}
<1>1. SUFFICES ASSUME T # {} PROVE FALSE
  OBVIOUS
<1>2. \A s \in T : IsFiniteSet(s)
  BY FS_Subset
<1>. HIDE DEF T
<1>3. PICK s \in T : \A u \in T : u \subseteq s => u = s
  BY <1>1, <1>2, Smallest
<1>. USE DEF T
<1>4. s \in SUBSET S /\ IsFiniteSet(s)
  BY <1>2
<1>5. ASSUME NEW u \in SUBSET s, u # s PROVE Sums(x, u, CHOOSE f : Sums(x, u, f))
  <2>1. u \in SUBSET S /\ u \notin T
    BY <1>3, <1>4, <1>5
  <2>2. \E f : Sums(x, u, f)
    BY <2>1
  <2>. QED
    BY <2>2
<1>6. ASSUME NEW u \in SUBSET s, u # s
      PROVE  Total(x, u) = IF u = {} THEN 0 ELSE Need[First(u)][x] + Total(x, Rest(u))
  <2> DEFINE g == CHOOSE f : Sums(x, u, f)
  <2>1. Sums(x, u, g) /\ Total(x, u) = g[u]
    BY <1>5, <1>6 DEF Total
  <2>. HIDE DEF g
  <2>2. g[u] = IF u = {} THEN 0 ELSE Need[First(u)][x] + g[Rest(u)]
    BY <2>1 DEF Sums
  <2>3. ASSUME u # {} PROVE g[Rest(u)] = Total(x, Rest(u))
    <3>1. Rest(u) \subseteq u /\ Rest(u) \in SUBSET s /\ Rest(u) # s
      BY <1>6, <2>3, FirstIs
    <3>2. Sums(x, Rest(u), CHOOSE f : Sums(x, Rest(u), f))
      BY <1>5, <3>1
    <3>3. IsFiniteSet(u)
      BY <1>4, FS_Subset
    <3>. QED
      BY <2>1, <3>1, <3>2, <3>3, SumsAgree DEF Total
  <2>. QED
    BY <2>1, <2>2, <2>3
<1> DEFINE f == [u \in SUBSET s |-> IF u = {} THEN 0 ELSE Need[First(u)][x] + Total(x, Rest(u))]
<1>7. ASSUME NEW u \in SUBSET s, u # {} PROVE f[Rest(u)] = Total(x, Rest(u))
  <2>1. Rest(u) \in SUBSET s /\ Rest(u) # s
    BY <1>7, FirstIs
  <2>. QED
    BY <1>6, <2>1
<1>8. Sums(x, s, f)
  <2> DEFINE g == [u \in SUBSET s |-> IF u = {} THEN 0 ELSE Need[First(u)][x] + f[Rest(u)]]
  <2>1. \A u \in SUBSET s : f[u] = g[u]
    BY <1>7
  <2>2. f = g
    BY <2>1
  <2>. HIDE DEF f
  <2>. QED
    BY <2>2 DEF Sums
<1>. QED
  BY <1>8

\* The total of a set from the total of the rest of it.
LEMMA TotalIs ==
    ASSUME NEW x, NEW S, IsFiniteSet(S)
    PROVE  Total(x, S) = IF S = {} THEN 0 ELSE Need[First(S)][x] + Total(x, Rest(S))
<1> DEFINE f == CHOOSE f : Sums(x, S, f)
<1>1. Sums(x, S, f) /\ Total(x, S) = f[S]
  BY SumsExist DEF Total
<1>. HIDE DEF f
<1>2. f[S] = IF S = {} THEN 0 ELSE Need[First(S)][x] + f[Rest(S)]
  BY <1>1 DEF Sums
<1>3. ASSUME S # {} PROVE f[Rest(S)] = Total(x, Rest(S))
  <2> DEFINE g == CHOOSE g : Sums(x, Rest(S), g)
  <2>1. Rest(S) \in SUBSET S /\ IsFiniteSet(Rest(S))
    BY <1>3, FirstIs, FS_Subset
  <2>2. Sums(x, Rest(S), g) /\ Total(x, Rest(S)) = g[Rest(S)]
    BY <2>1, SumsExist DEF Total
  <2>. HIDE DEF g
  <2>. QED
    BY <1>1, <2>1, <2>2, SumsAgree
<1>. QED
  BY <1>1, <1>2, <1>3

\* The total of finitely many demands is a number.
LEMMA TotalType ==
    ASSUME NEW x \in Resource, NEW S \in SUBSET Runs, IsFiniteSet(S)
    PROVE  Total(x, S) \in Nat
<1> DEFINE T == {s \in SUBSET S : Total(x, s) \notin Nat}
<1>1. SUFFICES ASSUME T # {} PROVE FALSE
  OBVIOUS
<1>2. \A s \in T : IsFiniteSet(s)
  BY FS_Subset
<1>. HIDE DEF T
<1>3. PICK s \in T : \A u \in T : u \subseteq s => u = s
  BY <1>1, <1>2, Smallest
<1>. USE DEF T
<1>4. s \in SUBSET S /\ Total(x, s) \notin Nat
  OBVIOUS
<1>5. Total(x, s) = IF s = {} THEN 0 ELSE Need[First(s)][x] + Total(x, Rest(s))
  BY <1>2, TotalIs
<1>6. s # {}
  BY <1>4, <1>5
<1>7. First(s) \in Runs /\ Rest(s) \in SUBSET S /\ Rest(s) \subseteq s /\ Rest(s) # s
  BY <1>4, <1>6, FirstIs
<1>8. Total(x, Rest(s)) \in Nat
  BY <1>3, <1>7
<1>9. Need[First(s)][x] \in Nat
  BY <1>7, NeedAssumption DEF Cap
<1>. QED
  BY <1>4, <1>5, <1>6, <1>8, <1>9

\* The order in which the fold takes the runs does not matter.
LEMMA TotalAdds ==
    ASSUME NEW x \in Resource, NEW S \in SUBSET Runs, IsFiniteSet(S), NEW r \in Runs \ S
    PROVE  Total(x, S \cup {r}) = Total(x, S) + Need[r][x]
<1> DEFINE Adds(s, q) == Total(x, s \cup {q}) = Total(x, s) + Need[q][x]
           T == {s \in SUBSET S : \E q \in Runs \ s : ~Adds(s, q)}
<1>1. SUFFICES ASSUME T # {} PROVE FALSE
  OBVIOUS
<1>2. \A s \in T : IsFiniteSet(s)
  BY FS_Subset
<1>. HIDE DEF T
<1>3. PICK s \in T : \A u \in T : u \subseteq s => u = s
  BY <1>1, <1>2, Smallest
<1>. USE DEF T
<1>4. PICK q \in Runs \ s : ~Adds(s, q)
  OBVIOUS
<1> DEFINE more == s \cup {q}
           p    == First(more)
           less == s \ {p}
<1>5. s \in SUBSET S /\ IsFiniteSet(s) /\ IsFiniteSet(more) /\ more # {} /\ more \in SUBSET Runs
  BY <1>2, FS_AddElement
<1>6. p \in more /\ Total(x, more) = Need[p][x] + Total(x, more \ {p})
  BY <1>5, FirstIs, TotalIs DEF Rest
<1>7. Total(x, s) \in Nat /\ Need[q][x] \in Nat
  BY <1>5, TotalType, NeedAssumption DEF Cap
<1>8. CASE p = q
  <2>1. more \ {p} = s
    BY <1>8
  <2>. HIDE DEF p, more
  <2>2. Total(x, more) = Need[q][x] + Total(x, s)
    BY <1>6, <1>8, <2>1
  <2>3. Total(x, more) = Total(x, s) + Need[q][x]
    BY <1>7, <2>2
  <2>. QED
    BY <1>4, <2>3 DEF more
<1>9. CASE p # q
  <2>1. p \in s /\ p \in Runs
    BY <1>5, <1>6, <1>9
  <2>2. /\ less \in SUBSET S /\ less \subseteq s /\ less # s
        /\ q \in Runs \ less /\ p \in Runs \ less
    BY <1>5, <2>1
  <2>3. \A u \in Runs \ less : Total(x, less \cup {u}) = Total(x, less) + Need[u][x]
    BY <1>3, <2>2
  <2>4. less \cup {p} = s /\ less \cup {q} = more \ {p}
    BY <1>9, <2>1
  <2>5. /\ Total(x, s) = Total(x, less) + Need[p][x]
        /\ Total(x, more \ {p}) = Total(x, less) + Need[q][x]
    BY <2>2, <2>3, <2>4
  <2>6. Total(x, less) \in Nat /\ Need[p][x] \in Nat
    <3>1. IsFiniteSet(less)
      BY <1>5, FS_RemoveElement
    <3>2. less \in SUBSET Runs
      BY <1>5
    <3>. HIDE DEF less, p
    <3>. QED
      BY <2>1, <3>1, <3>2, TotalType, NeedAssumption DEF Cap
  <2>. HIDE DEF less, p, more
  <2>7. Total(x, more) = Total(x, s) + Need[q][x]
    BY <1>6, <1>7, <2>5, <2>6
  <2>. QED
    BY <1>4, <2>7 DEF more
<1>. QED
  BY <1>8, <1>9

-----------------------------------------------------------------------------

\* A worker that starts found room for its run; one that ends makes room.
CapacityInv == IsFiniteSet(Live) /\ CapacityBound

\* The bound, in terms of totals.
LEMMA CapacityIs == CapacityBound <=> \A x \in Resource : Total(x, Live) <= Cap
  BY UsageIs DEF CapacityBound, Usage

\* One more run fits because the pass that starts it checked the sum; the
\* other steps leave the sum alone or take from it.
LEMMA CapacityStep == TypeOK /\ CapacityInv /\ [Next]_vars => CapacityInv'
<1>. SUFFICES ASSUME TypeOK, CapacityInv, [Next]_vars
              PROVE  CapacityInv'
  OBVIOUS
<1>1. /\ Live \in SUBSET Runs /\ IsFiniteSet(Live)
      /\ \A x \in Resource : Total(x, Live) <= Cap
  BY CapacityIs DEF CapacityInv, Live
<1>2. SUFFICES IsFiniteSet(Live') /\ \A x \in Resource : Total(x, Live') <= Cap
  <2>1. \A x : Usage(x)' = Total(x, Live')
    BY DEF Usage, MapThenSumSet, MapThenFoldSet, Total, Sums, First, Rest
  <2>2. IsFiniteSet(Live') /\ \A x \in Resource : Usage(x)' <= Cap
    BY <1>2, <2>1
  <2>. QED
    BY <2>2 DEF CapacityInv, CapacityBound, Usage
<1>3. CASE Live' = Live
  BY <1>1, <1>3
<1>4. ASSUME NEW r \in Runs, PassLaunch(r)
      PROVE  IsFiniteSet(Live') /\ \A x \in Resource : Total(x, Live') <= Cap
  <2>1. Live' = Live \cup {r}
    BY <1>4 DEF PassLaunch, Live, TypeOK
  <2>2. r \notin Live /\ \A x \in Resource : Total(x, Live) + Need[r][x] <= Cap
    BY <1>4, UsageIs DEF PassLaunch, Launchable, CanStart
  <2>3. \A x \in Resource : Total(x, Live \cup {r}) = Total(x, Live) + Need[r][x]
    BY <1>1, <2>2, TotalAdds
  <2>4. IsFiniteSet(Live \cup {r})
    BY <1>1, FS_AddElement
  <2>5. \A x \in Resource : Total(x, Live \cup {r}) <= Cap
    BY <2>2, <2>3
  <2>. QED
    BY <2>1, <2>4, <2>5
<1>5. ASSUME NEW r \in Runs, Finalize(r)
      PROVE  IsFiniteSet(Live') /\ \A x \in Resource : Total(x, Live') <= Cap
  <2>1. r \in Live /\ Live' = Live \ {r}
    BY <1>5 DEF Finalize, Live, TypeOK
  <2>2. IsFiniteSet(Live \ {r}) /\ Live \ {r} \in SUBSET Runs /\ Live = (Live \ {r}) \cup {r}
    BY <1>1, <2>1, FS_RemoveElement
  <2>3. ASSUME NEW x \in Resource PROVE Total(x, Live \ {r}) <= Cap
    <3>1. Total(x, (Live \ {r}) \cup {r}) = Total(x, Live \ {r}) + Need[r][x]
      BY <2>2, TotalAdds
    <3>2. Total(x, Live \ {r}) \in Nat /\ Need[r][x] \in Nat
      BY <2>2, TotalType, NeedAssumption DEF Cap
    <3>3. Total(x, (Live \ {r}) \cup {r}) <= Cap
      BY <1>1, <2>2
    <3>. QED
      BY <3>1, <3>2, <3>3 DEF Cap
  <2>. QED
    BY <2>1, <2>2, <2>3
<1>6. CASE Crash
  <2>1. Live' = {}
    BY <1>6 DEF Crash, Live
  <2>2. IsFiniteSet({}) /\ \A x : Total(x, {}) = 0
    BY FS_EmptySet, TotalIs
  <2>. QED
    BY <2>1, <2>2 DEF Cap
<1>7. ASSUME NEW r \in Runs, Client(r)
      PROVE  Live' = Live
  BY <1>7 DEF Client, Create, CommandStart, CommandResume, Enqueue, CommandPause, CommandStop,
              work, Live
<1>8. CASE Start \/ CloseMark
  BY <1>3, <1>8 DEF Start, CloseMark, work, Live
<1>. QED
  BY <1>3, <1>4, <1>5, <1>6, <1>7, <1>8, QuietSteps DEF Next, Pass, Closer, Worker

\* The live workers never ask together for more than the machine has (runtime.py,
\* _can_start), for every number of runs and every demand.
THEOREM CapacityIsKept == Spec => []CapacityBound
<1>1. Init => CapacityInv
  <2>1. Init => Live = {}
    BY DEF Init, Live
  <2>2. IsFiniteSet({}) /\ \A x : Total(x, {}) = 0
    BY FS_EmptySet, TotalIs
  <2>. QED
    BY <2>1, <2>2, CapacityIs DEF CapacityInv, Cap
<1>2. CapacityInv => CapacityBound
  BY DEF CapacityInv
<1>. QED
  BY <1>1, <1>2, CapacityStep, TypeCorrect, PTL DEF Spec

-----------------------------------------------------------------------------
\* Only the thread itself records a live run as paused, stopped or completed, and
\* it does so for no failure: the failure outranks the requests.
LEMMA ReleasedStep ==
    IInv /\ SessionInv /\ [Next]_vars =>
        [\A r \in Live : status'[r] \in {"paused", "stopped", "completed"} => r \notin session]_vars
  <1> SUFFICES ASSUME IInv, SessionInv, [Next]_vars, NEW r \in Live,
                      status'[r] \in {"paused", "stopped", "completed"}
               PROVE  r \notin session
    OBVIOUS
  <1>0. TypeOK /\ r \in Runs
    BY DEF IInv, Live
  <1>1. status[r] \notin {"paused", "stopped", "completed"}
    BY DEF IInv, SettledHasNoWorker, Live
  <1>2. status' # status
    BY <1>1
  <1>3. ASSUME NEW q \in Runs, Finalize(q)
        PROVE  r \notin session
    <2>1. q = r
      BY <1>0, <1>1, <1>3 DEF Finalize, TypeOK
    <2>2. FinalOutcome(r) # "error"
      BY <1>0, <1>3, <2>1 DEF Finalize, FinalStatus, TypeOK
    <2> QED
      BY <1>0, <1>3, <2>1, <2>2 DEF Finalize, FinalOutcome, SessionInv
  <1>4. ASSUME NEW q \in Runs, Client(q) \/ PassLaunch(q)
        PROVE  FALSE
    BY <1>0, <1>1, <1>4 DEF Client, Create, CommandStart, CommandResume, Enqueue, RecoveredStatus,
       CommandPause, CommandStop, Acknowledged, PassLaunch, TypeOK
  <1>5. CASE Start \/ CloseMark \/ Crash
    BY <1>0, <1>1, <1>5 DEF Start, RecoveredStatus, CloseMark, Crash, db, TypeOK
  <1> QED
    BY <1>0, <1>2, <1>3, <1>4, <1>5, QuietSteps DEF Next, Pass, Closer

\* No thread records a run as paused, stopped or completed with its backend process
\* open (runtime.py, _train_guarded and _execute_worker), for every set of runs.
THEOREM BackendReleased == Spec => ReleasedBeforeFinal
  <1>1. Init => SessionInv
    BY DEF Init, SessionInv
  <1>2. QED
    BY <1>1, SessionStep, ReleasedStep, TypeCorrect, Invariance, PTL DEF Spec, ReleasedBeforeFinal
=============================================================================
