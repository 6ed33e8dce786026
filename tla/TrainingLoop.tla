------------------------------ MODULE TrainingLoop ------------------------------
(***************************************************************************)
(* The training of one run, from its first start to its completion, across *)
(* pauses, failures of the backend or of the disk, and crashes of the      *)
(* process: _train, _capture_finetune_baseline, _run_worker_loop and       *)
(* _complete_with_test (runtime.py) over the checkpoints of                *)
(* CheckpointStore.  `rec` is the run in the database, `run` the copy the  *)
(* worker thread works on; only some steps save the copy, and what they    *)
(* save decides what a restart can continue from.  batch_mode is "auto".   *)
(*                                                                         *)
(* Scores are integers, in units of 0.05: a drop of more than .04 is a     *)
(* smaller score, a difference of at most .02 is an equal one.  They are   *)
(* finite: a NaN cannot cross the worker's JSON channel (allow_nan=False)  *)
(* and comes back as a failed call, so the Quality Gate always passes.     *)
(***************************************************************************)
EXTENDS Integers, Sequences, FiniteSetsExt, CheckpointStore

CONSTANTS
    Scores,                 \* what an evaluation may return
    Incoming,               \* the score of the model a fine-tuned run starts from
    MaxSteps, Interval,     \* max_steps, evaluation_interval
    ChunkCap, RowBudget,    \* bulk_step_cap and the rows one request may touch
    BatchMin, BatchStart, BatchMax,
    TrainRecords,
    MinImprovement, Margin, Patience,   \* Patience: degradation_patience
    StopPatience,                       \* early_stopping_patience
    TargetScore, TargetPatience,
    MaxSessions             \* bound: how often the run is started or resumed

ASSUME ScheduleAssumption == /\ MaxSteps \in Nat \ {0} /\ Interval \in Nat \ {0}
                             /\ ChunkCap \in Nat \ {0} /\ RowBudget \in Nat
ASSUME BatchAssumption == /\ BatchMin \in Nat \ {0} /\ BatchStart \in BatchMin..BatchMax
                          /\ BatchMax \in Nat
ASSUME ScoreAssumption == Scores \subseteq Int /\ Incoming \in Int
ASSUME MarginAssumption == MinImprovement \in Nat /\ Margin \in Nat
ASSUME FileAssumption == NoFile \notin [step : Nat, score : Int]
ASSUME SessionAssumption == MaxSessions \in Nat

VARIABLES
    fineTuned,  \* the run starts from an existing model (model_path is set)
    rec,        \* the run in the database
    run,        \* the worker thread's copy of it
    pc,         \* what the worker thread does next; "idle" without a session
    weights,    \* the checkpoint the session's weights equal, NoFile if they moved on
    recent,     \* recent_scores: the last four scores of this session
    plateau, streak, hits,  \* plateau, degradation_streak, target_hits
    tested,     \* the weights the final test ran on
    sessions,   \* sessions so far
    seen,       \* history: the scores the database has taken note of
    mishaps,    \* history: has a call failed, has the process died?
    overruns    \* history: how many sessions were opened for a run at its step limit

mind == <<recent, plateau, streak, hits>>
history == <<seen, mishaps, overruns>>
vars == <<fineTuned, rec, run, pc, weights, mind, tested, sessions, history, disk>>

Content(step, score) == [step |-> step, score |-> score]

\* best_score is 0.0 until something sets it.
NewRun == [step |-> 0, evals |-> 0, best |-> 0, bestStep |-> 0, batch |-> BatchStart,
           bestRef |-> NoFile, baseline |-> NoFile]

Init ==
    /\ DiskInit
    /\ fineTuned \in BOOLEAN
    /\ rec = NewRun /\ run = NewRun
    /\ pc = "idle"
    /\ weights = NoFile
    /\ recent = <<>> /\ plateau = 0 /\ streak = 0 /\ hits = 0
    /\ tested = NoFile
    /\ sessions = 0
    /\ seen = {} /\ mishaps = {} /\ overruns = 0

Smaller(a, b) == IF a < b THEN a ELSE b
Larger(a, b) == IF a < b THEN b ELSE a

InSession == pc \notin {"idle", "done"}
Goto(to) == pc' = to
Save == rec' = run'

-----------------------------------------------------------------------------
(* A session opens: the source checkpoint is verified and restored, or a   *)
(* fine-tuned run loads the incoming model, or fresh weights are made.     *)

SessionOpens ==
    /\ pc = "idle"
    /\ sessions < MaxSessions
    /\ bestFile = NoFile \/ Verifies
    /\ sessions' = sessions + 1
    /\ weights' = IF bestFile = NoFile /\ fineTuned THEN Content(0, Incoming) ELSE bestFile
    /\ recent' = <<>> /\ plateau' = 0 /\ streak' = 0 /\ hits' = 0
    /\ run' = [rec EXCEPT !.baseline = NoFile]
    /\ IF fineTuned
       THEN Goto("baseline") /\ UNCHANGED rec
       ELSE Goto("top") /\ Save
    /\ overruns' = overruns + (IF rec.step >= MaxSteps THEN 1 ELSE 0)
    /\ UNCHANGED <<tested, seen, mishaps, disk, fineTuned>>

SessionRejected ==
    /\ pc = "idle"
    /\ sessions < MaxSessions
    /\ ~(bestFile = NoFile \/ Verifies)
    /\ sessions' = sessions + 1
    /\ UNCHANGED <<rec, run, pc, weights, mind, tested, history, disk, fineTuned>>

\* The incoming model is evaluated and becomes the best checkpoint.
BaselineSaves ==
    /\ pc = "baseline"
    /\ SaveBest(Content(0, weights.score))
    /\ Goto("baseline_record")
    /\ UNCHANGED <<rec, run, weights, mind, tested, sessions, history, fineTuned>>

BaselineRecords ==
    /\ pc = "baseline_record"
    /\ RecordBest
    /\ run' = [run EXCEPT !.evals = 1, !.best = weights.score, !.bestStep = 0,
                          !.bestRef = bestFile, !.baseline = weights.score]
    /\ Save
    /\ Goto("top")
    /\ UNCHANGED <<weights, mind, tested, sessions, history, fineTuned>>

-----------------------------------------------------------------------------
(* One iteration: observe the control flags, train a chunk, evaluate at    *)
(* the boundaries.                                                         *)

\* A pause or a stop is observed at the top of an iteration.
Drains ==
    /\ pc = "top"
    /\ Goto("idle")
    /\ rec' = run
    /\ UNCHANGED <<run, weights, mind, tested, sessions, history, disk, fineTuned>>

StepsToEvaluation(step) == Interval - (step % Interval)

Chunk_PastBoundary(step, batch) ==
    Smaller(Larger(1, MaxSteps - step), Larger(1, Smaller(ChunkCap, RowBudget \div batch)))

Chunk(step, batch) ==
    Smaller(StepsToEvaluation(step),
            Smaller(Larger(1, MaxSteps - step),
                    Larger(1, Smaller(ChunkCap, RowBudget \div batch))))

AtBoundary(step) == step % Interval = 0 \/ step >= MaxSteps

Trains ==
    /\ pc = "top"
    /\ run' = [run EXCEPT !.step = @ + Chunk(run.step, run.batch)]
    /\ weights' = NoFile
    /\ IF AtBoundary(run'.step)
       THEN Goto("evaluate") /\ UNCHANGED rec
       ELSE Goto("top") /\ (Save \/ UNCHANGED rec)      \* at most twice a second
    /\ UNCHANGED <<mind, tested, sessions, history, disk, fineTuned>>

\* The backend runs out of memory: retry with half the batch, or give up.
OutOfMemory ==
    /\ pc = "top"
    /\ run.batch > BatchMin
    /\ run' = [run EXCEPT !.batch = Larger(BatchMin, @ \div 2)]
    /\ Save
    /\ UNCHANGED <<pc, weights, mind, tested, sessions, history, disk, fineTuned>>

Evaluates(score) ==
    /\ pc = "evaluate"
    /\ run' = [run EXCEPT !.evals = @ + 1]
    /\ weights' = Content(run.step, score)
    /\ Goto("save")
    /\ UNCHANGED <<rec, mind, tested, sessions, history, disk, fineTuned>>

SavesLast ==
    /\ pc = "save"
    /\ SaveLast(weights)
    /\ Goto("record")
    /\ UNCHANGED <<rec, run, weights, mind, tested, sessions, history, fineTuned>>

-----------------------------------------------------------------------------
(* Judging the evaluation.                                                 *)

Degraded(score, r) == r.evals > 1 /\ score < r.best - Margin

Improves(score, r) == r.evals = 1 \/ score > r.best + MinImprovement

NextStreak_Sticky(score, r) == streak + (IF Degraded(score, r) THEN 1 ELSE 0)
NextStreak(score, r) == IF Degraded(score, r) THEN streak + 1 ELSE 0

RecordsLast_SavesFirst ==
    /\ pc = "record"
    /\ RecordLast
    /\ run' = [run EXCEPT !.best = weights.score, !.bestStep = run.step]
    /\ Save
    /\ Goto("promote")
    /\ UNCHANGED <<weights, mind, tested, sessions, history, fineTuned>>

RecordsLast ==
    /\ pc = "record"
    /\ RecordLast
    /\ LET score == weights.score IN
       /\ streak' = NextStreak(score, run)
       /\ IF Improves(score, run)
          THEN /\ run' = [run EXCEPT !.best = score, !.bestStep = run.step]
               /\ plateau' = 0
               /\ Goto("promote")
          ELSE /\ plateau' = plateau + 1
               /\ Goto("judge")
               /\ UNCHANGED run
    /\ UNCHANGED <<rec, weights, recent, hits, tested, sessions, history, fineTuned>>

Promotes ==
    /\ pc = "promote"
    /\ PromoteFile
    /\ Goto("promote_record")
    /\ UNCHANGED <<rec, run, weights, mind, tested, sessions, history, fineTuned>>

PromotionRecords_NoMetadata ==
    /\ pc = "promote_record"
    /\ run' = [run EXCEPT !.bestRef = bestFile]
    /\ Goto("judge")
    /\ UNCHANGED <<rec, weights, mind, tested, sessions, history, disk, fineTuned>>

PromotionRecords ==
    /\ pc = "promote_record"
    /\ RecordBest
    /\ run' = [run EXCEPT !.bestRef = bestFile]
    /\ Goto("judge")
    /\ UNCHANGED <<rec, weights, mind, tested, sessions, history, fineTuned>>

ScoreWindow == Append(recent, weights.score)     \* at most five scores

LastFour(window) == SubSeq(window, Larger(1, Len(window) - 3), Len(window))

\* The trend guard (assess_trend) looks at the window from its end: how many scores
\* in a row lie below the best one by more than the margin?  (It reads the best score
\* before the loop updates it; after an improvement its answer is 0 either way.)
BelowBest(window, reference) ==
    Max({n \in 0..Len(window) :
            \A i \in (Len(window) - n + 1)..Len(window) : window[i] < reference - Margin})

StreakDegrades == streak >= Patience
TrendDegrades  == BelowBest(ScoreWindow, run.best) >= Patience
Degrades == StreakDegrades \/ TrendDegrades

\* The batch shrinks after an unstable score and grows after two equal ones.
AdaptedBatch(window, r) ==
    LET n == Len(window)
        unstable == /\ n >= 3
                    /\ window[n] < Larger(window[n - 1], window[n - 2])
                    /\ r.batch > BatchMin
        stable == n >= 2 /\ window[n] = window[n - 1]
    IN  IF unstable THEN Larger(BatchMin, r.batch \div 2)
        ELSE IF r.evals \in {2, 4} /\ stable /\ r.batch < BatchMax /\ TrainRecords >= r.batch * 8
        THEN Smaller(BatchMax, r.batch * 2)
        ELSE r.batch

NextHits == IF weights.score >= TargetScore THEN hits + 1 ELSE 0

TakesNote == seen' = seen \cup {weights.score} /\ UNCHANGED <<mishaps, overruns>>

Satisfied == NextHits >= TargetPatience \/ plateau > StopPatience

Judges ==
    /\ pc = "judge"
    /\ hits' = NextHits
    /\ recent' = LastFour(ScoreWindow)
    /\ LET adapted == [run EXCEPT !.batch = AdaptedBatch(recent', run)] IN
       IF Degrades
       THEN run' = adapted /\ Goto("discard") /\ UNCHANGED <<rec, history>>
       ELSE IF Satisfied
       THEN run' = adapted /\ Save /\ TakesNote /\ Goto("restore")
       ELSE IF run.step >= MaxSteps
       THEN run' = [adapted EXCEPT !.step = MaxSteps] /\ Save /\ TakesNote /\ Goto("restore")
       ELSE run' = adapted /\ Save /\ TakesNote /\ Goto("top")
    /\ UNCHANGED <<weights, plateau, streak, tested, sessions, disk, fineTuned>>

\* Model Guard: the last checkpoint is rejected, then the run is saved.
DiscardsFile ==
    /\ pc = "discard"
    /\ DiscardLastFile
    /\ Goto("discard_record")
    /\ UNCHANGED <<rec, run, weights, mind, tested, sessions, history, fineTuned>>

DiscardsRecord ==
    /\ pc = "discard_record"
    /\ DiscardLastMeta
    /\ rec' = run
    /\ TakesNote
    /\ Goto("restore")
    /\ UNCHANGED <<run, weights, mind, tested, sessions, fineTuned>>

-----------------------------------------------------------------------------
(* Completion: restore the best checkpoint if there is one, test, finish.  *)

RestoresBest == pc = "restore" /\ weights' = IF bestFile = NoFile THEN weights ELSE bestFile

Restores ==
    /\ RestoresBest
    /\ Goto("test")
    /\ UNCHANGED <<rec, run, mind, tested, sessions, history, disk, fineTuned>>

Tests ==
    /\ pc = "test"
    /\ tested' = weights
    /\ rec' = run
    /\ Goto("finalize")
    /\ UNCHANGED <<run, weights, mind, sessions, history, disk, fineTuned>>

\* The loop has returned COMPLETE.  A pause or a stop that was flagged since the last
\* look at the flags overrides it: the run ends as paused or stopped, with its test
\* behind it, and may be resumed.
Finalizes ==
    /\ pc = "finalize"
    /\ Goto("done") \/ Goto("idle")
    /\ UNCHANGED <<rec, run, weights, mind, tested, sessions, history, disk, fineTuned>>

-----------------------------------------------------------------------------
(* A call of the worker or of the disk fails.  The thread's copy is saved  *)
(* by the finally of _execute_worker, unless closing the worker fails too; *)
(* a failure during the baseline is outside that finally.                  *)

Mishap(kind) == mishaps' = mishaps \cup {kind} /\ UNCHANGED <<seen, overruns>>

Fails ==
    /\ InSession
    /\ Goto("idle")
    /\ \/ pc \notin {"baseline", "baseline_record"} /\ rec' = run
       \/ UNCHANGED rec
    /\ Mishap("fault")
    /\ UNCHANGED <<run, weights, mind, tested, sessions, disk, fineTuned>>

\* The process dies: what was not saved is gone.
Crashes ==
    /\ InSession
    /\ Goto("idle")
    /\ Mishap("crash")
    /\ UNCHANGED <<rec, run, weights, mind, tested, sessions, disk, fineTuned>>

Step ==
    \/ BaselineSaves \/ BaselineRecords
    \/ Trains \/ OutOfMemory \/ \E score \in Scores : Evaluates(score)
    \/ SavesLast \/ RecordsLast \/ Promotes \/ PromotionRecords
    \/ Judges \/ DiscardsFile \/ DiscardsRecord \/ Restores \/ Tests
    \/ Finalizes

Steer == SessionOpens \/ SessionRejected \/ Drains

Next == Step \/ Steer \/ Fails \/ Crashes

Spec == Init /\ [][Next]_vars

-----------------------------------------------------------------------------
Files == [step : 0..(MaxSteps + MaxSessions), score : Scores \cup {Incoming}] \cup {NoFile}

RunRecord ==
    [step : 0..(MaxSteps + MaxSessions), evals : Nat, best : Scores \cup {0, Incoming},
     bestStep : 0..(MaxSteps + MaxSessions), batch : BatchMin..BatchMax,
     bestRef : Files, baseline : Scores \cup {Incoming, NoFile}]

TypeOK ==
    /\ {bestFile, bestMeta, lastFile, lastMeta, weights, tested} \subseteq Files
    /\ {rec, run} \subseteq RunRecord
    /\ recent \in Seq(Scores) /\ Len(recent) <= 4
    /\ plateau \in Nat /\ streak \in Nat /\ hits \in Nat
    /\ sessions \in 0..MaxSessions
    /\ seen \subseteq Scores /\ mishaps \subseteq {"crash", "fault"}
    /\ overruns \in 0..sessions
    /\ fineTuned \in BOOLEAN
    /\ pc \in {"idle", "baseline", "baseline_record", "top", "evaluate", "save", "record",
               "promote", "promote_record", "judge", "discard", "discard_record",
               "restore", "test", "finalize", "done"}

\* The test of a finished run is a test of the best model the run has shown: no score
\* the database ever took note of beats the delivered checkpoint by more than the
\* improvement that would have been promoted, across pauses and crashes.  (A failing
\* promotion may lose the model: _run_worker_loop notes its score first.)
DeliversTheBest ==
    pc = "done" /\ "fault" \notin mishaps =>
        /\ tested = bestFile
        /\ \A s \in seen : s <= tested.score + MinImprovement

\* What the database calls the best score is on disk, or something better is: a crash
\* may lose the note of a checkpoint, never the checkpoint of a note.
BestScoreIsOnDisk ==
    pc = "idle" /\ rec.evals > 0 /\ "fault" \notin mishaps =>
        bestFile # NoFile /\ bestFile.score >= rec.best

\* Model Guard V2 recomputes the degradation from the window of recent scores and
\* agrees with the counter of the loop, as long as the patience fits in the window.
GuardsAgree ==
    pc = "judge" => (StreakDegrades <=> TrendDegrades)

\* No evaluation is skipped: a chunk of steps ends at the latest on the next boundary.
BoundariesAreKept ==
    [][run'.step > run.step /\ pc = "top" =>
        \A s \in (run.step + 1)..(run'.step - 1) : ~AtBoundary(s)]_vars

\* Without a crash or a failure, the checksum the run publishes for its best model
\* is that of the model it delivered (tested_checkpoint).
PublishedIsDelivered == pc = "done" /\ mishaps = {} => rec.bestRef = tested

\* The best model is never lost: the three parts above, of which each relies on the
\* order of saving, noting, promoting and restoring a checkpoint.
BestIsKept == DeliversTheBest /\ BestScoreIsOnDisk /\ PublishedIsDelivered

\* A run can be continued: its best checkpoint, if there is one, verifies ("checkpoint
\* можно продолжить", the message of start() after a restart).
CheckpointContinues == pc = "idle" => bestFile = NoFile \/ Verifies

\* Whenever no write was cut short, a paused or stopped run can be continued: every
\* other interruption leaves a best checkpoint that verifies.
PauseContinues == mishaps = {} => CheckpointContinues

\* The baseline that metrics and guards refer to is the incoming model ("Preserve
\* the incoming model before the first fine-tune update").
BaselineIsIncoming == rec.baseline \in {NoFile, Incoming}

\* max_steps ("emergency limit") bounds the steps of a run, up to one step for each
\* session that was opened at the limit: by a resume after a failure, a crash, or a
\* pause or stop that overrode the completion.  Such a session trains its one step
\* before it looks at the limit.
StepLimitHolds == run.step <= MaxSteps + overruns

\* The chunks of steps end where they should: on every evaluation and at the limit.
StepsAreBounded == []StepLimitHolds /\ BoundariesAreKept
=============================================================================
