-------------------------- MODULE TrainingLoop_proofs --------------------------
(***************************************************************************)
(* The best model is kept, the two guards agree, and the chunks end where  *)
(* they should, for every schedule, every set of scores and every number   *)
(* of sessions.  Four arguments over one induction: what is on disk is at  *)
(* least as good as what was noted (BestInv); between two saves the        *)
(* metadata names the file (RefInv); a session opened at the limit takes   *)
(* one step past it (StepInv); and the counter of the loop is the count of the    *)
(* trend guard, as far as the window reaches (TrendInv).                   *)
(***************************************************************************)
EXTENDS TrainingLoop, TLAPS

Baseline  == {"baseline", "baseline_record"}
Looping   == {"top", "evaluate", "save", "record", "promote", "promote_record", "judge", "discard",
              "discard_record", "restore", "test", "finalize"}
Evaluated == {"save", "record", "promote", "promote_record", "judge", "discard", "discard_record"}
Promoted  == {"promote_record", "judge", "discard", "discard_record", "restore", "test", "finalize"}

\* What the phases of an iteration hand on to each other.
PhaseInv ==
    /\ InSession => sessions >= 1
    /\ pc \in Baseline => weights # NoFile /\ recent = <<>> /\ streak = 0
    /\ pc \in Evaluated => weights # NoFile /\ weights.score \in Scores /\ run.evals >= 1
    /\ pc \in {"record", "promote"} => lastFile = weights
    /\ pc \in {"promote", "promote_record"} => run.best = weights.score

\* The best file is at least as good as the best score of a record.
Backed(r) == bestFile # NoFile /\ bestFile.score >= r.best

\* Until a call fails: what the database has noted is on disk, the worker's copy is
\* never behind the database, and nothing noted beats the best score by more than
\* the improvement that is promoted.
BestInv ==
    "fault" \in mishaps \/
      /\ seen # {} => rec.evals > 0
      /\ \A s \in seen : s <= rec.best + MinImprovement
      /\ rec.evals > 0 => Backed(rec)
      /\ pc = "baseline" /\ rec.evals > 0 => weights = bestFile
      /\ pc = "baseline_record" => bestFile # NoFile /\ bestFile.score = weights.score
      /\ pc \in Looping /\ rec.evals > 0 => run.evals > 0 /\ rec.best <= run.best
      /\ pc \in {"top", "evaluate"} /\ run.evals > 0 => Backed(run)
      /\ pc \in {"save", "record"} /\ run.evals > 1 => Backed(run)
      /\ pc \in {"save", "record"} /\ rec.evals > 0 => run.evals > 1
      /\ pc \in Promoted => Backed(run)
      /\ pc \in {"judge", "discard", "discard_record"} => weights.score <= run.best + MinImprovement
      /\ pc \in {"restore", "test", "finalize"} => rec = run /\ run.evals > 0
      /\ pc = "test" => weights = bestFile
      /\ pc \in {"finalize", "done"} => tested = bestFile /\ rec.evals > 0

\* Until a call fails or the process dies, the best file is recorded, on disk and in
\* the run, except between the two.
RefInv ==
    mishaps = {} =>
      /\ pc \notin {"baseline_record", "promote_record"} => bestMeta = bestFile /\ run.bestRef = bestFile
      /\ pc \in {"idle", "done"} => rec.bestRef = bestFile
      /\ pc \in {"restore", "test", "finalize"} => rec = run

\* At the top of an iteration a session is below the limit, or was opened at it and
\* has its step past the limit still before it.
StepInv ==
    /\ rec.step <= MaxSteps + overruns /\ run.step <= MaxSteps + overruns
    /\ pc \in Baseline \cup {"top"} => run.step < MaxSteps \/ run.step <= MaxSteps + overruns - 1

\* The last n scores lie below the best one by more than the margin, the one before not.
Below(window, n, reference) ==
    \A i \in (Len(window) - n + 1)..Len(window) : window[i] < reference - Margin

Counted(window, n, reference) ==
    /\ n \in 0..Len(window)
    /\ Below(window, n, reference)
    /\ n < Len(window) => window[Len(window) - n] >= reference - Margin

\* The trend guard counts what the loop counts, as far as the window reaches.
Counts(window, full) ==
    /\ Counted(window, Smaller(streak, Len(window)), run.best)
    /\ streak <= Len(window) \/ Len(window) >= full

TrendInv ==
    /\ pc \in {"top", "evaluate", "save", "record"} => Counts(recent, 4)
    /\ pc \in {"promote", "promote_record", "judge"} => Counts(ScoreWindow, 5)

IInv == TypeOK /\ PhaseInv /\ BestInv /\ RefInv /\ StepInv /\ TrendInv

-----------------------------------------------------------------------------
(* The operators of the model.                                             *)

\* A chunk is not empty, and takes the run to the limit or by one step.
LEMMA ChunkFits ==
    ASSUME NEW step \in Nat, NEW batch \in Nat \ {0}
    PROVE  /\ Chunk(step, batch) \in Nat \ {0}
           /\ Chunk(step, batch) <= Interval - (step % Interval)
           /\ Chunk(step, batch) <= Larger(1, MaxSteps - step)
<1>1. step % Interval \in 0..(Interval - 1)
  BY ScheduleAssumption
<1>2. RowBudget \div batch \in Int
  BY ScheduleAssumption
<1> DEFINE rest == step % Interval  rows == RowBudget \div batch
<1>3. rest \in 0..(Interval - 1) /\ rows \in Int
  BY <1>1, <1>2
<1> HIDE DEF rest, rows
<1> QED  BY <1>3, ScheduleAssumption DEF Chunk, StepsToEvaluation, Smaller, Larger, rest, rows

\* Between a step and the end of its interval there is no boundary.
LEMMA NoBoundaryBetween ==
    ASSUME NEW a \in Nat, NEW b \in Nat, a < b, b < a + (Interval - (a % Interval))
    PROVE  b % Interval # 0
<1> DEFINE q == a \div Interval  r == a % Interval
           k == b \div Interval  m == b % Interval
<1>1. q \in Nat /\ r \in 0..(Interval - 1) /\ a = Interval * q + r
  BY ScheduleAssumption, SMT
<1>2. k \in Nat /\ m \in 0..(Interval - 1) /\ b = Interval * k + m
  BY ScheduleAssumption, SMT
<1> HIDE DEF q, r, k, m
<1>3. Interval \in Nat \ {0}
  BY ScheduleAssumption
<1> SUFFICES ASSUME m = 0 PROVE FALSE
  BY DEF m
<1>4. b < a + (Interval - r)
  BY DEF r
<1>5. b < Interval * q + Interval
  BY <1>1, <1>3, <1>4
<1>6. CASE k <= q
  <2>1. Interval * k <= Interval * q
    BY <1>6, <1>1, <1>2, <1>3
  <2> QED  BY <2>1, <1>1, <1>2, <1>3
<1>7. CASE k >= q + 1
  <2>1. Interval * k >= Interval * (q + 1)
    BY <1>7, <1>1, <1>2, <1>3
  <2>2. Interval * (q + 1) = Interval * q + Interval
    BY <1>1, <1>3
  <2> QED  BY <2>1, <2>2, <1>1, <1>2, <1>3, <1>5
<1> QED  BY <1>6, <1>7, <1>1, <1>2

\* The batch stays between its bounds.
LEMMA BatchStays ==
    ASSUME NEW window, NEW r, r.batch \in BatchMin..BatchMax
    PROVE  AdaptedBatch(window, r) \in BatchMin..BatchMax
  BY BatchAssumption DEF AdaptedBatch, Smaller, Larger

-----------------------------------------------------------------------------
(* How many of the last scores lie below the best one.                     *)

\* The count is the largest one: every score it counts is below, the next one is not.
LEMMA CountIs ==
    ASSUME NEW window \in Seq(Int), NEW reference \in Int, NEW n, Counted(window, n, reference)
    PROVE  BelowBest(window, reference) = n
<1>0. n \in 0..Len(window) /\ Below(window, n, reference)
      /\ (n < Len(window) => window[Len(window) - n] >= reference - Margin)
  BY DEF Counted
<1> DEFINE S == {m \in 0..Len(window) : Below(window, m, reference)}
<1>1. BelowBest(window, reference) = Max(S)
  BY DEF BelowBest, Below
<1>2. n \in S
  BY <1>0
<1>3. ASSUME NEW m \in S  PROVE n >= m
  <2> SUFFICES ASSUME m > n PROVE FALSE
    BY <1>0, <1>3
  <2>1. Len(window) - n \in (Len(window) - m + 1)..Len(window) /\ n < Len(window)
    BY <1>0, <1>3
  <2>2. window[Len(window) - n] < reference - Margin
    BY <1>3, <2>1 DEF Below
  <2>3. window[Len(window) - n] \in Int
    BY <2>1
  <2> QED  BY <1>0, <2>1, <2>2, <2>3, MarginAssumption
<1>4. S \subseteq Int
  OBVIOUS
<1> HIDE DEF S
<1>5. ASSUME NEW x \in S, \A y \in S : x >= y  PROVE x = n
  BY <1>0, <1>2, <1>3, <1>4, <1>5
<1> QED  BY <1>1, <1>2, <1>3, <1>5 DEF Max

\* A score below the best one is counted.
LEMMA AppendCounts ==
    ASSUME NEW window \in Seq(Int), NEW reference \in Int, NEW n, Counted(window, n, reference),
           NEW score \in Int, score < reference - Margin
    PROVE  Counted(Append(window, score), n + 1, reference)
<1> DEFINE w == Append(window, score)
<1>1. /\ Len(w) = Len(window) + 1 /\ w[Len(w)] = score
      /\ \A i \in 1..Len(window) : w[i] = window[i]
  OBVIOUS
<1> HIDE DEF w
<1>2. Below(w, n + 1, reference)
  BY <1>1 DEF Counted, Below
<1>3. n + 1 < Len(w) => w[Len(w) - (n + 1)] >= reference - Margin
  BY <1>1 DEF Counted
<1> QED  BY <1>1, <1>2, <1>3 DEF Counted, w

\* Any other score ends the row.
LEMMA AppendEnds ==
    ASSUME NEW window \in Seq(Int), NEW reference \in Int, NEW score \in Int,
           score >= reference - Margin
    PROVE  Counted(Append(window, score), 0, reference)
<1> DEFINE w == Append(window, score)
<1>1. Len(w) \in Nat /\ Len(w) = Len(window) + 1 /\ w[Len(w)] = score
  OBVIOUS
<1> HIDE DEF w
<1> QED  BY <1>1 DEF Counted, Below, w

LEMMA FirstOfFour ==
    ASSUME NEW length \in Nat
    PROVE  LET first == Larger(1, length - 3) IN
           /\ first \in Nat \ {0} /\ first <= length + 1
           /\ length - first + 1 = Smaller(4, length)
  BY DEF Larger, Smaller

\* The last four are a suffix.
LEMMA LastFourShape ==
    ASSUME NEW S, NEW window \in Seq(S)
    PROVE  LET first == Larger(1, Len(window) - 3)  w == LastFour(window) IN
           /\ first \in Nat \ {0}
           /\ w \in Seq(S) /\ Len(w) = Smaller(4, Len(window)) /\ Len(w) = Len(window) - first + 1
           /\ \A i \in 1..Len(w) : w[i] = window[first + i - 1]
<1> DEFINE first == Larger(1, Len(window) - 3)  w == LastFour(window)
<1>0. Len(window) \in Nat
  OBVIOUS
<1>1. w = SubSeq(window, first, Len(window)) /\ first \in Nat \ {0} /\ first <= Len(window) + 1
  <2>1. first \in Nat \ {0} /\ first <= Len(window) + 1
    BY <1>0, FirstOfFour
  <2>2. w = SubSeq(window, first, Len(window))
    BY DEF LastFour
  <2> QED  BY <2>1, <2>2
<1>2. w \in Seq(S) /\ Len(w) = Smaller(4, Len(window)) /\ Len(w) = Len(window) - first + 1
  <2>1. Len(window) - first + 1 = Smaller(4, Len(window))
    BY <1>0, FirstOfFour
  <2> HIDE DEF first, w
  <2>2. w \in Seq(S) /\ Len(w) = Len(window) - first + 1
    BY <1>0, <1>1
  <2> QED  BY <2>1, <2>2
<1> HIDE DEF w, first
<1>3. \A i \in 1..Len(w) : w[i] = window[first + i - 1]
  BY <1>0, <1>1, <1>2
<1> QED  BY <1>1, <1>2, <1>3 DEF first, w

\* They give the count, as far as they reach.
LEMMA LastFourCounts ==
    ASSUME NEW window \in Seq(Int), NEW reference \in Int, NEW n, Counted(window, n, reference)
    PROVE  Counted(LastFour(window), Smaller(n, Len(LastFour(window))), reference)
<1> DEFINE first == Larger(1, Len(window) - 3)  w == LastFour(window)
<1>0. Len(window) \in Nat
  OBVIOUS
<1>1. first \in Nat \ {0}
  BY LastFourShape
<1>2. w \in Seq(Int) /\ Len(w) = Smaller(4, Len(window)) /\ Len(w) = Len(window) - first + 1
  BY LastFourShape
<1>3. \A i \in 1..Len(w) : w[i] = window[first + i - 1]
  BY LastFourShape
<1> HIDE DEF w, first
<1> DEFINE m == Smaller(n, Len(w))
<1>n. n \in 0..Len(window)
  BY DEF Counted
<1>l. Len(w) \in Nat /\ Len(w) = Len(window) - first + 1
  BY <1>2
<1>4. m \in 0..Len(w) /\ m <= n /\ (m < Len(w) => m = n)
  BY <1>n, <1>l DEF Smaller
<1>5. Below(w, m, reference)
  <2> SUFFICES ASSUME NEW i \in (Len(w) - m + 1)..Len(w) PROVE w[i] < reference - Margin
    BY DEF Below
  <2>1. first + i - 1 \in (Len(window) - n + 1)..Len(window) /\ i \in 1..Len(w)
    BY <1>0, <1>1, <1>l, <1>n, <1>4
  <2> QED  BY <2>1, <1>3 DEF Counted, Below
<1>6. m < Len(w) => w[Len(w) - m] >= reference - Margin
  <2> SUFFICES ASSUME m < Len(w) PROVE w[Len(w) - m] >= reference - Margin
    OBVIOUS
  <2>1. m = n /\ Len(w) - m \in 1..Len(w) /\ Len(w) <= Len(window)
    BY <1>0, <1>1, <1>l, <1>n, <1>4
  <2>2. first + (Len(w) - m) - 1 = Len(window) - n
    BY <2>1, <1>0, <1>1, <1>l, <1>n
  <2>3. window[Len(window) - n] >= reference - Margin
    BY <2>1, <1>0, <1>4 DEF Counted
  <2> QED  BY <2>1, <2>2, <2>3, <1>3
<1> QED  BY <1>2, <1>4, <1>5, <1>6 DEF Counted, w

-----------------------------------------------------------------------------
(* One lemma per part of the invariant, one case per action.               *)

\* What the other parts use of the types: the numbers of a run, and its files.
LEMMA Fields ==
    ASSUME TypeOK
    PROVE  /\ run \in RunRecord /\ rec \in RunRecord
           /\ run.step \in Nat /\ rec.step \in Nat /\ run.evals \in Nat /\ rec.evals \in Nat
           /\ run.best \in Int /\ rec.best \in Int /\ run.batch \in BatchMin..BatchMax
           /\ run.batch \in Nat \ {0} /\ sessions \in Nat /\ overruns \in Nat
<1>1. run \in RunRecord /\ rec \in RunRecord /\ sessions \in Nat /\ overruns \in Nat
  BY SessionAssumption DEF TypeOK
<1>2. ASSUME NEW r \in RunRecord
      PROVE  /\ r.step \in Nat /\ r.evals \in Nat /\ r.best \in Int
             /\ r.batch \in BatchMin..BatchMax /\ r.batch \in Nat \ {0}
  <2>1. /\ r.step \in 0..(MaxSteps + MaxSessions) /\ r.evals \in Nat
        /\ r.best \in Scores \cup {0, Incoming} /\ r.batch \in BatchMin..BatchMax
    BY DEF RunRecord
  <2>2. r.step \in Nat
    BY <2>1
  <2>3. r.best \in Int
    <3>1. Scores \cup {0, Incoming} \subseteq Int
      BY ScoreAssumption
    <3> QED  BY <2>1, <3>1, Zenon
  <2>4. r.batch \in Nat \ {0}
    BY <2>1, BatchAssumption
  <2> QED  BY <2>1, <2>2, <2>3, <2>4
<1> QED  BY <1>1, <1>2

\* What a judgement does to the run: the batch aside, only the limit sets its step.
LEMMA Judgement ==
    ASSUME TypeOK, Judges
    PROVE  \E b \in BatchMin..BatchMax :
               \/ /\ run' = [run EXCEPT !.batch = b] /\ pc' = "discard"
                  /\ UNCHANGED <<rec, seen, mishaps, overruns>>
               \/ /\ run' = [run EXCEPT !.batch = b] /\ rec' = run' /\ TakesNote
                  /\ pc' = "restore" \/ (pc' = "top" /\ run.step < MaxSteps)
                  /\ ~Degrades
               \/ /\ run' = [[run EXCEPT !.batch = b] EXCEPT !.step = MaxSteps]
                  /\ rec' = run' /\ TakesNote
                  /\ pc' = "restore" /\ ~Degrades
<1> DEFINE b == AdaptedBatch(recent', run)
<1>1. b \in BatchMin..BatchMax
  BY BatchStays, Fields
<1>2. run.step \in Nat /\ MaxSteps \in Nat
  BY Fields, ScheduleAssumption
<1>3. /\ Degrades => run' = [run EXCEPT !.batch = b] /\ pc' = "discard" /\ UNCHANGED <<rec, history>>
      /\ ~Degrades => rec' = run' /\ TakesNote
      /\ ~Degrades /\ Satisfied => run' = [run EXCEPT !.batch = b] /\ pc' = "restore"
      /\ ~Degrades /\ ~Satisfied /\ run.step >= MaxSteps =>
            run' = [[run EXCEPT !.batch = b] EXCEPT !.step = MaxSteps] /\ pc' = "restore"
      /\ ~Degrades /\ ~Satisfied /\ ~(run.step >= MaxSteps) =>
            run' = [run EXCEPT !.batch = b] /\ pc' = "top"
  BY Zenon DEF Judges, Goto, Save
<1>4. Degrades => UNCHANGED <<rec, seen, mishaps, overruns>>
  BY <1>3, Zenon DEF history
<1>5. ~(run.step >= MaxSteps) => run.step < MaxSteps
  BY <1>2
<1> HIDE DEF b
<1> QED  BY <1>1, <1>3, <1>4, <1>5, Zenon

\* A session that opens at the limit is counted and has its one step past it to take;
\* every other one is below the limit at the top of an iteration.
LEMMA StepSteps ==
    ASSUME TypeOK, PhaseInv, StepInv, Next
    PROVE  StepInv'
<1> USE Fields, ScheduleAssumption, BatchAssumption
    DEF StepInv, Baseline, Goto, Save, Mishap, TakesNote, mind, history, RunRecord
<1>1. CASE SessionOpens
  <2>1. /\ run'.step = rec.step /\ rec'.step = rec.step /\ rec.step \in Nat
        /\ overruns' = overruns + (IF rec.step >= MaxSteps THEN 1 ELSE 0)
    BY <1>1 DEF SessionOpens
  <2>2. pc' \in {"baseline", "top"}
    BY <1>1 DEF SessionOpens
  <2> QED  BY <2>1, <2>2
<1>2. CASE SessionRejected
  BY <1>2 DEF SessionRejected
<1>3. CASE BaselineSaves
  BY <1>3 DEF BaselineSaves
<1>4. CASE BaselineRecords
  BY <1>4 DEF BaselineRecords
<1>5. CASE Trains
  <2>1. /\ Chunk(run.step, run.batch) \in Nat \ {0}
        /\ Chunk(run.step, run.batch) <= Larger(1, MaxSteps - run.step)
    BY ChunkFits
  <2>2. run'.step \in Nat /\ run'.step = run.step + Chunk(run.step, run.batch)
    BY <1>5, <2>1 DEF Trains
  <2>3. pc' = "evaluate" \/ (pc' = "top" /\ run'.step < MaxSteps)
    BY <1>5, <2>2 DEF Trains, AtBoundary
  <2>4. rec' = run' \/ rec' = rec
    BY <1>5 DEF Trains
  <2>5. pc = "top" /\ overruns' = overruns
    BY <1>5 DEF Trains
  <2> QED  BY <2>1, <2>2, <2>3, <2>4, <2>5 DEF Larger
<1>6. CASE OutOfMemory
  BY <1>6 DEF OutOfMemory
<1>7. ASSUME NEW score \in Scores, Evaluates(score)  PROVE StepInv'
  BY <1>7 DEF Evaluates
<1>8. CASE SavesLast
  BY <1>8 DEF SavesLast
<1>9. CASE RecordsLast
  BY <1>9 DEF RecordsLast
<1>10. CASE Promotes
  BY <1>10 DEF Promotes
<1>11. CASE PromotionRecords
  BY <1>11 DEF PromotionRecords
<1>12. CASE Judges
  <2>1. overruns' = overruns /\ (rec' = run' \/ rec' = rec)
    BY <1>12, Judgement
  <2>2. \/ run'.step = run.step /\ pc' \in {"discard", "restore"}
        \/ run'.step = MaxSteps /\ pc' = "restore"
        \/ run'.step = run.step /\ pc' = "top" /\ run.step < MaxSteps
    BY <1>12, Judgement
  <2> QED  BY <2>1, <2>2
<1>13. CASE DiscardsFile
  BY <1>13 DEF DiscardsFile
<1>14. CASE DiscardsRecord
  BY <1>14 DEF DiscardsRecord
<1>15. CASE Restores
  BY <1>15 DEF Restores
<1>16. CASE Tests
  BY <1>16 DEF Tests
<1>17. CASE Finalizes
  BY <1>17 DEF Finalizes
<1>18. CASE Drains
  BY <1>18 DEF Drains
<1>19. CASE Fails
  BY <1>19 DEF Fails
<1>20. CASE Crashes
  BY <1>20 DEF Crashes
<1> QED  BY <1>1, <1>2, <1>3, <1>4, <1>5, <1>6, <1>7, <1>8, <1>9, <1>10, <1>11, <1>12,
            <1>13, <1>14, <1>15, <1>16, <1>17, <1>18, <1>19, <1>20 DEF Next, Step, Steer

\* What a file is, and what a record becomes.
LEMMA FilesAre ==
    /\ \A f \in Files : f # NoFile => f.step \in Nat /\ f.score \in Scores \cup {Incoming}
    /\ \A step \in 0..(MaxSteps + MaxSessions), score \in Scores \cup {Incoming} :
           Content(step, score) \in Files
    /\ NoFile \in Files
  BY DEF Files, Content

FilesTyped == {bestFile, bestMeta, lastFile, lastMeta, weights, tested} \subseteq Files
RunsTyped  == {rec, run} \subseteq RunRecord
RestTyped  ==
    /\ recent \in Seq(Scores) /\ Len(recent) <= 4
    /\ plateau \in Nat /\ streak \in Nat /\ hits \in Nat
    /\ sessions \in 0..MaxSessions
    /\ seen \subseteq Scores /\ mishaps \subseteq {"crash", "fault"}
    /\ overruns \in 0..sessions
    /\ fineTuned \in BOOLEAN
    /\ pc \in {"idle", "baseline", "baseline_record", "top", "evaluate", "save", "record",
               "promote", "promote_record", "judge", "discard", "discard_record",
               "restore", "test", "finalize", "done"}

\* The files and the weights are checkpoints, with the step and the score of the run.
LEMMA StepFiles ==
    ASSUME TypeOK, PhaseInv, StepInv, Next
    PROVE  FilesTyped'
<1>0. FilesTyped /\ run.step \in 0..(MaxSteps + MaxSessions) /\ 0 \in 0..(MaxSteps + MaxSessions)
  BY ScheduleAssumption, SessionAssumption DEF TypeOK, FilesTyped, RunRecord
<1> USE <1>0, FilesAre DEF FilesTyped, disk, best, last
<1>1. CASE SessionOpens
  BY <1>1 DEF SessionOpens
<1>2. CASE SessionRejected
  BY <1>2 DEF SessionRejected
<1>3. CASE BaselineSaves
  BY <1>3 DEF BaselineSaves, SaveBest, Baseline, PhaseInv
<1>4. CASE BaselineRecords
  BY <1>4 DEF BaselineRecords, RecordBest
<1>5. CASE Trains
  BY <1>5 DEF Trains
<1>6. CASE OutOfMemory
  BY <1>6 DEF OutOfMemory
<1>7. ASSUME NEW score \in Scores, Evaluates(score)  PROVE FilesTyped'
  BY <1>7 DEF Evaluates
<1>8. CASE SavesLast
  BY <1>8 DEF SavesLast, SaveLast
<1>9. CASE RecordsLast
  BY <1>9 DEF RecordsLast, RecordLast
<1>10. CASE Promotes
  BY <1>10 DEF Promotes, PromoteFile, SaveBest
<1>11. CASE PromotionRecords
  BY <1>11 DEF PromotionRecords, RecordBest
<1>12. CASE Judges
  BY <1>12 DEF Judges
<1>13. CASE DiscardsFile
  BY <1>13 DEF DiscardsFile, DiscardLastFile
<1>14. CASE DiscardsRecord
  BY <1>14 DEF DiscardsRecord, DiscardLastMeta
<1>15. CASE Restores
  BY <1>15 DEF Restores, RestoresBest
<1>16. CASE Tests
  BY <1>16 DEF Tests
<1>17. CASE Finalizes
  BY <1>17 DEF Finalizes
<1>18. CASE Drains
  BY <1>18 DEF Drains
<1>19. CASE Fails
  BY <1>19 DEF Fails
<1>20. CASE Crashes
  BY <1>20 DEF Crashes
<1> QED  BY <1>1, <1>2, <1>3, <1>4, <1>5, <1>6, <1>7, <1>8, <1>9, <1>10, <1>11, <1>12,
            <1>13, <1>14, <1>15, <1>16, <1>17, <1>18, <1>19, <1>20 DEF Next, Step, Steer

\* A change of one field of a record.
LEMMA RecordStays ==
    ASSUME NEW r \in RunRecord
    PROVE  /\ \A step \in 0..(MaxSteps + MaxSessions) : [r EXCEPT !.step = step] \in RunRecord
           /\ \A b \in BatchMin..BatchMax : [r EXCEPT !.batch = b] \in RunRecord
           /\ [r EXCEPT !.evals = @ + 1] \in RunRecord
           /\ \A score \in Scores, step \in 0..(MaxSteps + MaxSessions) :
                  [r EXCEPT !.best = score, !.bestStep = step] \in RunRecord
           /\ \A f \in Files : [r EXCEPT !.bestRef = f] \in RunRecord
           /\ [r EXCEPT !.baseline = NoFile] \in RunRecord
           /\ \A score \in Scores \cup {Incoming}, f \in Files :
                  [r EXCEPT !.evals = 1, !.best = score, !.bestStep = 0, !.bestRef = f,
                            !.baseline = score] \in RunRecord
<1> USE DEF RunRecord
<1>1. \A step \in 0..(MaxSteps + MaxSessions) : [r EXCEPT !.step = step] \in RunRecord
  OBVIOUS
<1>2. \A b \in BatchMin..BatchMax : [r EXCEPT !.batch = b] \in RunRecord
  OBVIOUS
<1>3. [r EXCEPT !.evals = @ + 1] \in RunRecord
  OBVIOUS
<1>4. \A score \in Scores, step \in 0..(MaxSteps + MaxSessions) :
          [r EXCEPT !.best = score, !.bestStep = step] \in RunRecord
  OBVIOUS
<1>5. \A f \in Files : [r EXCEPT !.bestRef = f] \in RunRecord
  OBVIOUS
<1>6. [r EXCEPT !.baseline = NoFile] \in RunRecord
  OBVIOUS
<1>7. 0 \in 0..(MaxSteps + MaxSessions)
  BY ScheduleAssumption, SessionAssumption
<1>8. \A score \in Scores \cup {Incoming}, f \in Files :
          [r EXCEPT !.evals = 1, !.best = score, !.bestStep = 0, !.bestRef = f,
                    !.baseline = score] \in RunRecord
  BY <1>7
<1> QED  BY <1>1, <1>2, <1>3, <1>4, <1>5, <1>6, <1>8

\* The records keep their types: the step because of its bound, the batch because of its own.
LEMMA StepRuns ==
    ASSUME TypeOK, PhaseInv, StepInv, StepInv', Next
    PROVE  RunsTyped'
<1>0. run \in RunRecord /\ rec \in RunRecord
  BY DEF TypeOK
<1>s. run.step \in 0..(MaxSteps + MaxSessions) /\ sessions \in 0..MaxSessions /\ overruns \in 0..sessions
      /\ MaxSteps \in 0..(MaxSteps + MaxSessions)
  BY ScheduleAssumption, SessionAssumption DEF TypeOK, RunRecord
<1> USE <1>0 DEF RunsTyped, Save
<1>1. CASE SessionOpens
  BY <1>1, RecordStays DEF SessionOpens
<1>2. CASE SessionRejected
  BY <1>2 DEF SessionRejected
<1>3. CASE BaselineSaves
  BY <1>3 DEF BaselineSaves
<1>4. CASE BaselineRecords
  <2>1. weights \in Files /\ bestFile \in Files /\ weights # NoFile
    BY <1>4 DEF TypeOK, PhaseInv, Baseline, BaselineRecords
  <2>2. weights.score \in Scores \cup {Incoming}
    BY <2>1, FilesAre
  <2>3. rec' = run' /\ run' = [run EXCEPT !.evals = 1, !.best = weights.score, !.bestStep = 0,
                                       !.bestRef = bestFile, !.baseline = weights.score]
    BY <1>4 DEF BaselineRecords
  <2>4. run' \in RunRecord
    BY <2>1, <2>2, <2>3, RecordStays
  <2> QED  BY <2>3, <2>4
<1>5. CASE Trains
  <2> DEFINE step == run.step + Chunk(run.step, run.batch)
  <2>1. Chunk(run.step, run.batch) \in Nat
    BY ChunkFits, Fields
  <2>2. run' = [run EXCEPT !.step = step] /\ (rec' = run' \/ rec' = rec)
    BY <1>5 DEF Trains
  <2>3. run'.step = step /\ run'.step <= MaxSteps + overruns
    <3>1. run'.step = step /\ overruns' = overruns
      BY <1>5, <2>2 DEF Trains, RunRecord, history
    <3> QED  BY <3>1 DEF StepInv
  <2>4. step \in 0..(MaxSteps + MaxSessions)
    BY <1>s, <2>1, <2>3, ScheduleAssumption, SessionAssumption
  <2> HIDE DEF step
  <2>5. run' \in RunRecord
    BY <2>2, <2>4, RecordStays
  <2> QED  BY <2>2, <2>5
<1>6. CASE OutOfMemory
  <2>1. Larger(BatchMin, run.batch \div 2) \in BatchMin..BatchMax
    BY Fields, BatchAssumption DEF Larger
  <2> QED  BY <1>6, <2>1, RecordStays DEF OutOfMemory
<1>7. ASSUME NEW score \in Scores, Evaluates(score)  PROVE RunsTyped'
  BY <1>7, RecordStays DEF Evaluates
<1>8. CASE SavesLast
  BY <1>8 DEF SavesLast
<1>9. CASE RecordsLast
  <2>1. weights.score \in Scores
    BY <1>9 DEF PhaseInv, Evaluated, RecordsLast
  <2>2. /\ run' = run \/ run' = [run EXCEPT !.best = weights.score, !.bestStep = run.step]
        /\ rec' = rec
    BY <1>9 DEF RecordsLast
  <2>3. [run EXCEPT !.best = weights.score, !.bestStep = run.step] \in RunRecord
    BY <2>1, <1>s, RecordStays
  <2> QED  BY <2>2, <2>3
<1>10. CASE Promotes
  BY <1>10 DEF Promotes
<1>11. CASE PromotionRecords
  <2>1. bestFile \in Files
    BY DEF TypeOK
  <2> QED  BY <1>11, <2>1, RecordStays DEF PromotionRecords
<1>12. CASE Judges
  <2>1. PICK b \in BatchMin..BatchMax :
          \/ run' = [run EXCEPT !.batch = b]
          \/ run' = [[run EXCEPT !.batch = b] EXCEPT !.step = MaxSteps]
    BY <1>12, Judgement
  <2>2. rec' = run' \/ rec' = rec
    BY <1>12, Judgement
  <2>3. [run EXCEPT !.batch = b] \in RunRecord
    BY RecordStays
  <2>4. [[run EXCEPT !.batch = b] EXCEPT !.step = MaxSteps] \in RunRecord
    BY <2>3, <1>s, RecordStays
  <2> QED  BY <2>1, <2>2, <2>3, <2>4
<1>13. CASE DiscardsFile
  BY <1>13 DEF DiscardsFile
<1>14. CASE DiscardsRecord
  BY <1>14 DEF DiscardsRecord
<1>15. CASE Restores
  BY <1>15 DEF Restores
<1>16. CASE Tests
  BY <1>16 DEF Tests
<1>17. CASE Finalizes
  BY <1>17 DEF Finalizes
<1>18. CASE Drains
  BY <1>18 DEF Drains
<1>19. CASE Fails
  BY <1>19 DEF Fails
<1>20. CASE Crashes
  BY <1>20 DEF Crashes
<1> QED  BY <1>1, <1>2, <1>3, <1>4, <1>5, <1>6, <1>7, <1>8, <1>9, <1>10, <1>11, <1>12,
            <1>13, <1>14, <1>15, <1>16, <1>17, <1>18, <1>19, <1>20 DEF Next, Step, Steer

LEMMA StepRest ==
    ASSUME TypeOK, PhaseInv, Next
    PROVE  RestTyped'
<1>0. RestTyped
  BY DEF TypeOK, RestTyped
<1> USE <1>0 DEF RestTyped, Goto, Mishap, TakesNote, mind, history
<1>1. CASE SessionOpens
  <2>1. pc' \in {"baseline", "top"} /\ recent' = <<>> /\ plateau' = 0 /\ streak' = 0 /\ hits' = 0
    BY <1>1 DEF SessionOpens
  <2>2. sessions' \in 0..MaxSessions
    BY <1>1, SessionAssumption DEF SessionOpens
  <2>3. UNCHANGED <<seen, mishaps, fineTuned>>
    BY <1>1 DEF SessionOpens
  <2>4. overruns' \in 0..sessions'
    BY <1>1, SessionAssumption DEF SessionOpens
  <2> QED  BY <2>1, <2>2, <2>3, <2>4
<1>2. CASE SessionRejected
  <2>2. sessions' \in 0..MaxSessions
    BY <1>2, SessionAssumption DEF SessionRejected
  <2>3. overruns' \in 0..sessions'
    BY <1>2, SessionAssumption DEF SessionRejected
  <2> QED  BY <1>2, <2>2, <2>3 DEF SessionRejected
<1>3. CASE BaselineSaves
  BY <1>3 DEF BaselineSaves
<1>4. CASE BaselineRecords
  BY <1>4 DEF BaselineRecords
<1>5. CASE Trains
  BY <1>5 DEF Trains
<1>6. CASE OutOfMemory
  BY <1>6 DEF OutOfMemory
<1>7. ASSUME NEW score \in Scores, Evaluates(score)  PROVE RestTyped'
  BY <1>7 DEF Evaluates
<1>8. CASE SavesLast
  BY <1>8 DEF SavesLast
<1>9. CASE RecordsLast
  <2>1. NextStreak(weights.score, run) \in Nat
    BY DEF NextStreak
  <2> QED  BY <1>9, <2>1 DEF RecordsLast
<1>10. CASE Promotes
  BY <1>10 DEF Promotes
<1>11. CASE PromotionRecords
  BY <1>11 DEF PromotionRecords
<1>12. CASE Judges
  <2>1. pc = "judge" /\ weights.score \in Scores
    BY <1>12 DEF Judges, PhaseInv, Evaluated
  <2>2. ScoreWindow \in Seq(Scores)
    BY <2>1 DEF ScoreWindow
  <2>3. recent' \in Seq(Scores) /\ Len(recent') <= 4
    <3>1. recent' = LastFour(ScoreWindow)
      BY <1>12 DEF Judges
    <3>2. recent' \in Seq(Scores) /\ Len(recent') = Smaller(4, Len(ScoreWindow))
      BY <3>1, <2>2, LastFourShape
    <3>3. Smaller(4, Len(ScoreWindow)) <= 4
      BY <2>2 DEF Smaller
    <3> QED  BY <3>2, <3>3
  <2>4. hits' \in Nat
    BY <1>12 DEF Judges, NextHits
  <2>5. UNCHANGED <<plateau, streak, sessions, fineTuned>>
    BY <1>12 DEF Judges
  <2>6. /\ pc' \in {"discard", "restore", "top"} /\ mishaps' = mishaps /\ overruns' = overruns
        /\ seen' = seen \/ seen' = seen \cup {weights.score}
    BY <1>12, Judgement
  <2> QED  BY <2>1, <2>3, <2>4, <2>5, <2>6
<1>13. CASE DiscardsFile
  BY <1>13 DEF DiscardsFile
<1>14. CASE DiscardsRecord
  <2>1. weights.score \in Scores
    BY <1>14 DEF DiscardsRecord, PhaseInv, Evaluated
  <2> QED  BY <1>14, <2>1 DEF DiscardsRecord
<1>15. CASE Restores
  BY <1>15 DEF Restores
<1>16. CASE Tests
  BY <1>16 DEF Tests
<1>17. CASE Finalizes
  BY <1>17 DEF Finalizes
<1>18. CASE Drains
  BY <1>18 DEF Drains
<1>19. CASE Fails
  BY <1>19 DEF Fails
<1>20. CASE Crashes
  BY <1>20 DEF Crashes
<1> QED  BY <1>1, <1>2, <1>3, <1>4, <1>5, <1>6, <1>7, <1>8, <1>9, <1>10, <1>11, <1>12,
            <1>13, <1>14, <1>15, <1>16, <1>17, <1>18, <1>19, <1>20 DEF Next, Step, Steer

\* Each phase leaves behind what the next one needs.
LEMMA StepPhase ==
    ASSUME TypeOK, PhaseInv, Next
    PROVE  PhaseInv'
<1>0. run \in RunRecord /\ run.evals \in Nat /\ sessions \in Nat
  BY Fields
<1> USE <1>0 DEF PhaseInv, InSession, Baseline, Evaluated, Goto, mind, disk, best, last
<1>1. CASE SessionOpens
  <2>1. pc' \in {"baseline", "top"} /\ sessions' = sessions + 1 /\ recent' = <<>> /\ streak' = 0
    BY <1>1 DEF SessionOpens
  <2>2. pc' = "baseline" => weights' # NoFile
    <3>1. 0 \in Nat /\ Incoming \in Int
      BY ScoreAssumption
    <3>2. Content(0, Incoming) # NoFile
      BY <3>1, FileAssumption DEF Content
    <3> QED  BY <1>1, <3>2 DEF SessionOpens
  <2> QED  BY <2>1, <2>2
<1>2. CASE SessionRejected
  BY <1>2 DEF SessionRejected
<1>3. CASE BaselineSaves
  BY <1>3 DEF BaselineSaves, SaveBest
<1>4. CASE BaselineRecords
  <2>1. pc = "baseline_record" /\ pc' = "top" /\ sessions' = sessions
    BY <1>4 DEF BaselineRecords
  <2> QED  BY <2>1
<1>5. CASE Trains
  <2>1. pc = "top" /\ pc' \in {"top", "evaluate"} /\ sessions' = sessions
    BY <1>5 DEF Trains
  <2> QED  BY <2>1
<1>6. CASE OutOfMemory
  <2>1. pc = "top" /\ pc' = "top" /\ sessions' = sessions
    BY <1>6 DEF OutOfMemory
  <2> QED  BY <2>1
<1>7. ASSUME NEW score \in Scores, Evaluates(score)  PROVE PhaseInv'
  <2>1. pc = "evaluate" /\ pc' = "save" /\ sessions' = sessions
    BY <1>7 DEF Evaluates
  <2>2. run'.evals = run.evals + 1
    BY <1>7 DEF Evaluates, RunRecord
  <2>3. weights' # NoFile /\ weights'.score = score
    BY <1>7, Fields, ScoreAssumption, FileAssumption DEF Evaluates, Content
  <2> QED  BY <2>1, <2>2, <2>3
<1>8. CASE SavesLast
  BY <1>8 DEF SavesLast, SaveLast
<1>9. CASE RecordsLast
  <2>1. /\ pc = "record" /\ pc' \in {"promote", "judge"} /\ lastFile' = lastFile
        /\ weights' = weights /\ sessions' = sessions /\ recent' = recent
    BY <1>9 DEF RecordsLast, RecordLast
  <2>2. run'.evals = run.evals /\ (pc' = "promote" => run'.best = weights.score)
    BY <1>9 DEF RecordsLast, RunRecord
  <2> QED  BY <2>1, <2>2
<1>10. CASE Promotes
  BY <1>10 DEF Promotes, PromoteFile, SaveBest
<1>11. CASE PromotionRecords
  <2>1. /\ pc = "promote_record" /\ pc' = "judge" /\ weights' = weights /\ sessions' = sessions
    BY <1>11 DEF PromotionRecords
  <2>2. run'.evals = run.evals
    BY <1>11 DEF PromotionRecords, RunRecord
  <2> QED  BY <2>1, <2>2
<1>12. CASE Judges
  <2>1. pc = "judge" /\ weights' = weights /\ sessions' = sessions
    BY <1>12 DEF Judges
  <2>2. pc' \in {"discard", "restore", "top"}
    BY <1>12, Judgement
  <2>3. run'.evals = run.evals
    BY <1>12, Judgement DEF RunRecord
  <2> QED  BY <2>1, <2>2, <2>3
<1>13. CASE DiscardsFile
  BY <1>13 DEF DiscardsFile, DiscardLastFile
<1>14. CASE DiscardsRecord
  BY <1>14 DEF DiscardsRecord, DiscardLastMeta
<1>15. CASE Restores
  BY <1>15 DEF Restores, RestoresBest
<1>16. CASE Tests
  BY <1>16 DEF Tests
<1>17. CASE Finalizes
  BY <1>17 DEF Finalizes
<1>18. CASE Drains
  BY <1>18 DEF Drains
<1>19. CASE Fails
  BY <1>19 DEF Fails
<1>20. CASE Crashes
  BY <1>20 DEF Crashes
<1> QED  BY <1>1, <1>2, <1>3, <1>4, <1>5, <1>6, <1>7, <1>8, <1>9, <1>10, <1>11, <1>12,
            <1>13, <1>14, <1>15, <1>16, <1>17, <1>18, <1>19, <1>20 DEF Next, Step, Steer

\* A best file that is replaced is recorded in the next step, on disk and in the run.
LEMMA StepRef ==
    ASSUME TypeOK, RefInv, Next
    PROVE  RefInv'
<1>0. run \in RunRecord /\ rec \in RunRecord
  BY Fields
<1> USE <1>0 DEF RefInv, Goto, Save, Mishap, TakesNote, mind, history, disk, best, last
<1>1. CASE SessionOpens
  <2>1. /\ pc = "idle" /\ pc' \in {"baseline", "top"} /\ mishaps' = mishaps
        /\ bestFile' = bestFile /\ bestMeta' = bestMeta
    BY <1>1 DEF SessionOpens
  <2>2. run'.bestRef = rec.bestRef
    BY <1>1 DEF SessionOpens, RunRecord
  <2> QED  BY <2>1, <2>2
<1>2. CASE SessionRejected
  BY <1>2 DEF SessionRejected
<1>3. CASE BaselineSaves
  BY <1>3 DEF BaselineSaves, SaveBest
<1>4. CASE BaselineRecords
  BY <1>4 DEF BaselineRecords, RecordBest, RunRecord
<1>5. CASE Trains
  <2>1. /\ pc = "top" /\ pc' \in {"top", "evaluate"} /\ mishaps' = mishaps
        /\ bestFile' = bestFile /\ bestMeta' = bestMeta
    BY <1>5 DEF Trains
  <2>2. run'.bestRef = run.bestRef
    BY <1>5 DEF Trains, RunRecord
  <2> QED  BY <2>1, <2>2
<1>6. CASE OutOfMemory
  <2>1. /\ pc = "top" /\ pc' = pc /\ mishaps' = mishaps
        /\ bestFile' = bestFile /\ bestMeta' = bestMeta
    BY <1>6 DEF OutOfMemory
  <2>2. run'.bestRef = run.bestRef
    BY <1>6 DEF OutOfMemory, RunRecord
  <2> QED  BY <2>1, <2>2
<1>7. ASSUME NEW score \in Scores, Evaluates(score)  PROVE RefInv'
  <2>1. /\ pc = "evaluate" /\ pc' = "save" /\ mishaps' = mishaps
        /\ bestFile' = bestFile /\ bestMeta' = bestMeta
    BY <1>7 DEF Evaluates
  <2>2. run'.bestRef = run.bestRef
    BY <1>7 DEF Evaluates, RunRecord
  <2> QED  BY <2>1, <2>2
<1>8. CASE SavesLast
  BY <1>8 DEF SavesLast, SaveLast
<1>9. CASE RecordsLast
  BY <1>9 DEF RecordsLast, RecordLast, RunRecord
<1>10. CASE Promotes
  BY <1>10 DEF Promotes, PromoteFile, SaveBest
<1>11. CASE PromotionRecords
  BY <1>11 DEF PromotionRecords, RecordBest, RunRecord
<1>12. CASE Judges
  <2>1. pc = "judge" /\ bestFile' = bestFile /\ bestMeta' = bestMeta
    BY <1>12 DEF Judges
  <2>2. /\ pc' \in {"discard", "restore", "top"} /\ mishaps' = mishaps
        /\ pc' = "restore" => rec' = run'
    BY <1>12, Judgement
  <2>3. run'.bestRef = run.bestRef
    BY <1>12, Judgement DEF RunRecord
  <2> QED  BY <2>1, <2>2, <2>3
<1>13. CASE DiscardsFile
  BY <1>13 DEF DiscardsFile, DiscardLastFile
<1>14. CASE DiscardsRecord
  BY <1>14 DEF DiscardsRecord, DiscardLastMeta
<1>15. CASE Restores
  BY <1>15 DEF Restores, RestoresBest
<1>16. CASE Tests
  BY <1>16 DEF Tests
<1>17. CASE Finalizes
  BY <1>17 DEF Finalizes
<1>18. CASE Drains
  BY <1>18 DEF Drains
<1>19. CASE Fails
  BY <1>19 DEF Fails
<1>20. CASE Crashes
  BY <1>20 DEF Crashes
<1> QED  BY <1>1, <1>2, <1>3, <1>4, <1>5, <1>6, <1>7, <1>8, <1>9, <1>10, <1>11, <1>12,
            <1>13, <1>14, <1>15, <1>16, <1>17, <1>18, <1>19, <1>20 DEF Next, Step, Steer

\* A score is counted by the loop when it is recorded, and by the guard when it is
\* appended to the window; an improvement ends both rows.
LEMMA StepTrend ==
    ASSUME TypeOK, PhaseInv, TrendInv, Next
    PROVE  TrendInv'
<1>0. run \in RunRecord /\ run.best \in Int /\ streak \in Nat
  BY Fields DEF TypeOK
<1> USE <1>0 DEF TrendInv, Counts, Goto, mind
<1>1. CASE SessionOpens
  <2>1. pc' \in {"baseline", "top"} /\ recent' = <<>> /\ streak' = 0
    BY <1>1 DEF SessionOpens
  <2>2. Counted(<<>>, 0, run'.best)
    BY DEF Counted, Below
  <2> QED  BY <2>1, <2>2 DEF Smaller
<1>2. CASE SessionRejected
  BY <1>2 DEF SessionRejected
<1>3. CASE BaselineSaves
  BY <1>3 DEF BaselineSaves
<1>4. CASE BaselineRecords
  <2>1. pc = "baseline_record" /\ pc' = "top" /\ recent' = <<>> /\ streak' = 0
    BY <1>4 DEF BaselineRecords, PhaseInv, Baseline
  <2>2. Counted(<<>>, 0, run'.best)
    BY DEF Counted, Below
  <2> QED  BY <2>1, <2>2 DEF Smaller
<1>5. CASE Trains
  <2>1. /\ pc = "top" /\ pc' \in {"top", "evaluate"} /\ recent' = recent /\ streak' = streak
        /\ run'.best = run.best
    BY <1>5 DEF Trains, RunRecord
  <2> QED  BY <2>1
<1>6. CASE OutOfMemory
  <2>1. /\ pc = "top" /\ pc' = "top" /\ recent' = recent /\ streak' = streak
        /\ run'.best = run.best
    BY <1>6 DEF OutOfMemory, RunRecord
  <2> QED  BY <2>1
<1>7. ASSUME NEW score \in Scores, Evaluates(score)  PROVE TrendInv'
  <2>1. /\ pc = "evaluate" /\ pc' = "save" /\ recent' = recent /\ streak' = streak
        /\ run'.best = run.best
    BY <1>7 DEF Evaluates, RunRecord
  <2> QED  BY <2>1
<1>8. CASE SavesLast
  BY <1>8 DEF SavesLast
<1>9. CASE RecordsLast
  <2> DEFINE score == weights.score  window == Append(recent, score)
  <2>1. score \in Int /\ recent \in Seq(Int) /\ run.evals >= 1 /\ run.evals \in Nat
    BY <1>9, Fields, ScoreAssumption DEF RecordsLast, PhaseInv, Evaluated, TypeOK
  <2>2. Counts(recent, 4)
    BY <1>9 DEF RecordsLast
  <2>3. /\ pc' \in {"promote", "judge"} /\ ScoreWindow' = window
        /\ streak' = NextStreak(score, run)
    BY <1>9 DEF RecordsLast, ScoreWindow
  <2>4. /\ Improves(score, run) => run'.best = score
        /\ ~Improves(score, run) => run'.best = run.best
    BY <1>9 DEF RecordsLast, RunRecord
  <2>5. Len(window) = Len(recent) + 1 /\ Len(recent) \in Nat
    BY <2>1
  <2> HIDE DEF window, score
  <2>6. CASE Degraded(score, run)
    <3>1. score < run.best - Margin /\ run.evals > 1
      BY <2>6 DEF Degraded
    <3>2. run'.best = run.best
      BY <2>1, <2>4, <3>1, MarginAssumption DEF Improves
    <3>3. streak' = streak + 1
      BY <2>3, <2>6 DEF NextStreak
    <3>4. Counted(window, Smaller(streak, Len(recent)) + 1, run.best)
      BY <2>1, <2>2, <3>1, AppendCounts DEF window
    <3>5. Smaller(streak, Len(recent)) + 1 = Smaller(streak', Len(window))
      BY <2>5, <3>3 DEF Smaller
    <3>6. streak' <= Len(window) \/ Len(window) >= 5
      BY <2>2, <2>5, <3>3
    <3> QED  BY <2>3, <3>2, <3>4, <3>5, <3>6
  <2>7. CASE ~Degraded(score, run)
    <3>1. streak' = 0
      BY <2>3, <2>7 DEF NextStreak
    <3>2. run'.best \in Int /\ score >= run'.best - Margin
      <4>1. CASE Improves(score, run)
        BY <4>1, <2>1, <2>4, MarginAssumption
      <4>2. CASE ~Improves(score, run)
        BY <4>2, <2>1, <2>4, <2>7, MarginAssumption DEF Improves, Degraded
      <4> QED  BY <4>1, <4>2
    <3>3. Counted(window, 0, run'.best)
      BY <2>1, <3>2, AppendEnds DEF window
    <3>4. Smaller(0, Len(window)) = 0
      BY <2>5 DEF Smaller
    <3>5. 0 <= Len(window)
      BY <2>5
    <3> QED  BY <2>3, <3>1, <3>3, <3>4, <3>5
  <2> QED  BY <2>6, <2>7
<1>10. CASE Promotes
  <2>1. pc = "promote" /\ pc' = "promote_record" /\ UNCHANGED <<run, weights, recent, streak>>
    BY <1>10 DEF Promotes
  <2> QED  BY <2>1 DEF ScoreWindow
<1>11. CASE PromotionRecords
  <2>1. /\ pc = "promote_record" /\ pc' = "judge" /\ UNCHANGED <<weights, recent, streak>>
        /\ run'.best = run.best
    BY <1>11 DEF PromotionRecords, RunRecord
  <2> QED  BY <2>1 DEF ScoreWindow
<1>12. CASE Judges
  <2>1. /\ pc = "judge" /\ recent' = LastFour(ScoreWindow) /\ streak' = streak
        /\ weights.score \in Int /\ recent \in Seq(Int) /\ Len(recent) <= 4
    BY <1>12, ScoreAssumption DEF Judges, PhaseInv, Evaluated, TypeOK
  <2>2. pc' \in {"discard", "restore", "top"}
    BY <1>12, Judgement
  <2>3. run'.best = run.best
    BY <1>12, Judgement DEF RunRecord
  <2>4. ScoreWindow \in Seq(Int) /\ Len(ScoreWindow) \in Nat
    BY <2>1 DEF ScoreWindow
  <2>5. Counts(ScoreWindow, 5)
    BY <2>1
  <2>6. Len(recent') = Smaller(4, Len(ScoreWindow))
    BY <2>1, <2>4, LastFourShape
  <2>7. Counted(recent', Smaller(Smaller(streak, Len(ScoreWindow)), Len(recent')), run.best)
    BY <2>1, <2>4, <2>5, LastFourCounts
  <2>8. Smaller(Smaller(streak, Len(ScoreWindow)), Len(recent')) = Smaller(streak, Len(recent'))
    BY <2>4, <2>6 DEF Smaller
  <2>9. streak <= Len(recent') \/ Len(recent') >= 4
    BY <2>4, <2>5, <2>6 DEF Smaller
  <2> QED  BY <2>1, <2>2, <2>3, <2>7, <2>8, <2>9
<1>13. CASE DiscardsFile
  BY <1>13 DEF DiscardsFile
<1>14. CASE DiscardsRecord
  BY <1>14 DEF DiscardsRecord
<1>15. CASE Restores
  BY <1>15 DEF Restores
<1>16. CASE Tests
  BY <1>16 DEF Tests
<1>17. CASE Finalizes
  BY <1>17 DEF Finalizes
<1>18. CASE Drains
  BY <1>18 DEF Drains
<1>19. CASE Fails
  BY <1>19 DEF Fails
<1>20. CASE Crashes
  BY <1>20 DEF Crashes
<1> QED  BY <1>1, <1>2, <1>3, <1>4, <1>5, <1>6, <1>7, <1>8, <1>9, <1>10, <1>11, <1>12,
            <1>13, <1>14, <1>15, <1>16, <1>17, <1>18, <1>19, <1>20 DEF Next, Step, Steer

LEMMA MishapsStay ==
    ASSUME TypeOK, Next
    PROVE  mishaps \subseteq mishaps'
<1>1. CASE Judges
  BY <1>1, Judgement DEF TakesNote
<1>2. CASE Fails \/ Crashes
  BY <1>2 DEF Fails, Crashes, Mishap
<1>3. CASE Steer
  BY <1>3 DEF Steer, SessionOpens, SessionRejected, Drains, history
<1>4. CASE Step /\ ~Judges
  BY <1>4 DEF Step, BaselineSaves, BaselineRecords, Trains, OutOfMemory, Evaluates, SavesLast,
     RecordsLast, Promotes, PromotionRecords, DiscardsFile, DiscardsRecord, Restores, Tests, Finalizes,
     TakesNote, history
<1> QED  BY <1>1, <1>2, <1>3, <1>4 DEF Next

\* The best file only gets better than what is noted, and is saved before it is noted.
LEMMA StepBest ==
    ASSUME TypeOK, PhaseInv, BestInv, Next
    PROVE  BestInv'
<1>0. /\ run \in RunRecord /\ rec \in RunRecord
      /\ run.best \in Int /\ rec.best \in Int /\ run.evals \in Nat /\ rec.evals \in Nat
      /\ MinImprovement \in Nat /\ seen \subseteq Int
  BY Fields, MarginAssumption, ScoreAssumption DEF TypeOK
<1>f. \A f \in Files : f # NoFile => f.score \in Int
  BY FilesAre, ScoreAssumption
<1>g. {bestFile, weights} \subseteq Files
  BY DEF TypeOK
<1> SUFFICES ASSUME "fault" \notin mishaps'  PROVE BestInv'
  BY DEF BestInv
<1>h. "fault" \notin mishaps
  BY MishapsStay
<1> USE <1>0, <1>h DEF BestInv, Backed, Baseline, Looping, Promoted, Goto, Save, mind, history, disk, best, last
<1>1. CASE SessionOpens
  <2>1. /\ pc = "idle" /\ pc' \in {"baseline", "top"} /\ UNCHANGED <<seen, bestFile>>
        /\ rec' = rec \/ rec' = run'
        /\ bestFile # NoFile => weights' = bestFile
    BY <1>1 DEF SessionOpens
  <2>2. run'.evals = rec.evals /\ run'.best = rec.best
    BY <1>1 DEF SessionOpens, RunRecord
  <2> QED  BY <2>1, <2>2
<1>2. CASE SessionRejected
  BY <1>2 DEF SessionRejected
<1>3. CASE BaselineSaves
  <2>1. /\ pc = "baseline" /\ pc' = "baseline_record" /\ UNCHANGED <<rec, seen, weights>>
        /\ bestFile' = Content(0, weights.score)
    BY <1>3 DEF BaselineSaves, SaveBest
  <2>2. weights.score \in Int
    BY <2>1, <1>f, <1>g DEF PhaseInv
  <2>3. bestFile' # NoFile /\ bestFile'.score = weights.score
    BY <2>1, <2>2, FileAssumption DEF Content
  <2> QED  BY <2>1, <2>2, <2>3
<1>4. CASE BaselineRecords
  <2>1. /\ pc = "baseline_record" /\ pc' = "top" /\ rec' = run' /\ UNCHANGED <<seen, bestFile>>
    BY <1>4 DEF BaselineRecords, RecordBest
  <2>2. run'.evals = 1 /\ run'.best = weights.score
    BY <1>4 DEF BaselineRecords, RunRecord
  <2>3. bestFile.score \in Int /\ bestFile # NoFile /\ bestFile.score = weights.score
    BY <2>1, <1>f, <1>g
  <2>4. \A n \in seen : n <= bestFile.score + MinImprovement
    BY <2>1, <2>3
  <2> QED  BY <2>1, <2>2, <2>3, <2>4
<1>5. CASE Trains
  <2>1. /\ pc = "top" /\ pc' \in {"top", "evaluate"} /\ UNCHANGED <<seen, bestFile>>
        /\ rec' = rec \/ rec' = run'
    BY <1>5 DEF Trains
  <2>2. run'.evals = run.evals /\ run'.best = run.best
    BY <1>5 DEF Trains, RunRecord
  <2>3. bestFile # NoFile => bestFile.score \in Int
    BY <1>f, <1>g
  <2>4. rec' = rec => BestInv'
    BY <2>1, <2>2, <2>3
  <2>5. rec' = run' => BestInv'
    BY <2>1, <2>2, <2>3
  <2> QED  BY <2>1, <2>4, <2>5
<1>6. CASE OutOfMemory
  <2>1. /\ pc = "top" /\ pc' = "top" /\ UNCHANGED <<seen, bestFile>> /\ rec' = run'
    BY <1>6 DEF OutOfMemory
  <2>2. run'.evals = run.evals /\ run'.best = run.best
    BY <1>6 DEF OutOfMemory, RunRecord
  <2>3. bestFile # NoFile => bestFile.score \in Int
    BY <1>f, <1>g
  <2> QED  BY <2>1, <2>2, <2>3
<1>7. ASSUME NEW score \in Scores, Evaluates(score)  PROVE BestInv'
  <2>1. /\ pc = "evaluate" /\ pc' = "save" /\ UNCHANGED <<seen, bestFile, rec>>
    BY <1>7 DEF Evaluates
  <2>2. run'.evals = run.evals + 1 /\ run'.best = run.best
    BY <1>7 DEF Evaluates, RunRecord
  <2> QED  BY <2>1, <2>2
<1>8. CASE SavesLast
  <2>1. /\ pc = "save" /\ pc' = "record" /\ UNCHANGED <<seen, bestFile, rec, run>>
    BY <1>8 DEF SavesLast, SaveLast
  <2> QED  BY <2>1
<1>9. CASE RecordsLast
  <2>1. /\ pc = "record" /\ UNCHANGED <<seen, bestFile, rec, weights>>
    BY <1>9 DEF RecordsLast, RecordLast
  <2>2. weights.score \in Int /\ run.evals >= 1
    BY <2>1, ScoreAssumption DEF PhaseInv, Evaluated
  <2>3. CASE Improves(weights.score, run)
    <3>1. pc' = "promote" /\ run'.best = weights.score /\ run'.evals = run.evals
      BY <1>9, <2>3 DEF RecordsLast, RunRecord
    <3>2. rec.evals > 0 => rec.best <= weights.score
      BY <2>1, <2>2, <2>3 DEF Improves
    <3> QED  BY <2>1, <2>2, <3>1, <3>2
  <2>4. CASE ~Improves(weights.score, run)
    <3>1. pc' = "judge" /\ run' = run
      BY <1>9, <2>4 DEF RecordsLast
    <3>2. run.evals > 1 /\ weights.score <= run.best + MinImprovement
      BY <2>2, <2>4 DEF Improves
    <3> QED  BY <2>1, <2>2, <3>1, <3>2
  <2> QED  BY <2>3, <2>4
<1>10. CASE Promotes
  <2>1. /\ pc = "promote" /\ pc' = "promote_record" /\ UNCHANGED <<seen, rec, run, weights>>
        /\ bestFile' = weights /\ run.best = weights.score /\ weights # NoFile
    BY <1>10 DEF Promotes, PromoteFile, SaveBest, PhaseInv, Evaluated
  <2> QED  BY <2>1
<1>11. CASE PromotionRecords
  <2>1. /\ pc = "promote_record" /\ pc' = "judge" /\ UNCHANGED <<seen, rec, weights, bestFile>>
        /\ run.best = weights.score
    BY <1>11 DEF PromotionRecords, RecordBest, PhaseInv
  <2>2. run'.evals = run.evals /\ run'.best = run.best
    BY <1>11 DEF PromotionRecords, RunRecord
  <2> QED  BY <2>1, <2>2
<1>12. CASE Judges
  <2>1. /\ pc = "judge" /\ UNCHANGED <<weights, bestFile>>
    BY <1>12 DEF Judges
  <2>2. run'.evals = run.evals /\ run'.best = run.best
    BY <1>12, Judgement DEF RunRecord
  <2>3. weights.score \in Int /\ run.evals >= 1 /\ bestFile # NoFile /\ bestFile.score \in Int
    BY <2>1, <1>f, <1>g, ScoreAssumption DEF PhaseInv, Evaluated
  <2>4. \A n \in seen : n <= run.best + MinImprovement
    BY <2>1
  <2>5. CASE pc' = "discard" /\ UNCHANGED <<rec, seen, mishaps>>
    BY <2>1, <2>2, <2>3, <2>5
  <2>6. CASE pc' \in {"restore", "top"} /\ rec' = run' /\ seen' = seen \cup {weights.score}
    BY <2>1, <2>2, <2>3, <2>4, <2>6
  <2>7. \/ pc' = "discard" /\ UNCHANGED <<rec, seen, mishaps>>
        \/ pc' \in {"restore", "top"} /\ rec' = run' /\ seen' = seen \cup {weights.score}
    BY <1>12, Judgement DEF TakesNote
  <2> QED  BY <2>5, <2>6, <2>7
<1>13. CASE DiscardsFile
  <2>1. /\ pc = "discard" /\ pc' = "discard_record" /\ UNCHANGED <<seen, bestFile, rec, run, weights>>
    BY <1>13 DEF DiscardsFile, DiscardLastFile
  <2> QED  BY <2>1
<1>14. CASE DiscardsRecord
  <2>1. /\ pc = "discard_record" /\ pc' = "restore" /\ UNCHANGED <<bestFile, run, weights>>
        /\ rec' = run /\ seen' = seen \cup {weights.score}
    BY <1>14 DEF DiscardsRecord, DiscardLastMeta, TakesNote
  <2>2. weights.score \in Int /\ run.evals >= 1
    BY <2>1, ScoreAssumption DEF PhaseInv, Evaluated
  <2>3. \A n \in seen : n <= run.best + MinImprovement
    BY <2>1
  <2> QED  BY <2>1, <2>2, <2>3
<1>15. CASE Restores
  <2>1. /\ pc = "restore" /\ pc' = "test" /\ UNCHANGED <<seen, bestFile, rec, run>>
        /\ bestFile # NoFile => weights' = bestFile
    BY <1>15 DEF Restores, RestoresBest
  <2> QED  BY <2>1
<1>16. CASE Tests
  <2>1. /\ pc = "test" /\ pc' = "finalize" /\ UNCHANGED <<seen, bestFile, run>>
        /\ tested' = weights /\ rec' = run
    BY <1>16 DEF Tests
  <2> QED  BY <2>1
<1>17. CASE Finalizes
  BY <1>17 DEF Finalizes
<1>18. CASE Drains
  <2>1. /\ pc = "top" /\ pc' = "idle" /\ UNCHANGED <<seen, bestFile, run>> /\ rec' = run
    BY <1>18 DEF Drains
  <2>2. bestFile # NoFile => bestFile.score \in Int
    BY <1>f, <1>g
  <2> QED  BY <2>1, <2>2
<1>19. CASE Fails
  BY <1>19 DEF Fails, Mishap
<1>20. CASE Crashes
  <2>1. pc' = "idle" /\ UNCHANGED <<seen, bestFile, rec>>
    BY <1>20 DEF Crashes, Mishap
  <2> QED  BY <2>1
<1> QED  BY <1>1, <1>2, <1>3, <1>4, <1>5, <1>6, <1>7, <1>8, <1>9, <1>10, <1>11, <1>12,
            <1>13, <1>14, <1>15, <1>16, <1>17, <1>18, <1>19, <1>20 DEF Next, Step, Steer

-----------------------------------------------------------------------------
(* The theorems.                                                           *)

LEMMA InitHolds == Init => IInv
<1> SUFFICES ASSUME Init PROVE IInv
  OBVIOUS
<1>1. NoFile \in Files /\ NewRun \in RunRecord
  BY FilesAre, ScheduleAssumption, SessionAssumption, BatchAssumption DEF NewRun, RunRecord
<1>2. TypeOK
  BY <1>1, SessionAssumption DEF Init, DiskInit, TypeOK
<1>3. run.step = 0 /\ rec.step = 0 /\ rec.evals = 0 /\ run.bestRef = NoFile /\ rec.bestRef = NoFile
  BY DEF Init, NewRun
<1>4. PhaseInv /\ TrendInv
  BY DEF Init, PhaseInv, TrendInv, InSession, Baseline, Evaluated
<1>5. BestInv /\ RefInv
  BY <1>3 DEF Init, DiskInit, BestInv, RefInv, Looping, Promoted
<1>6. StepInv
  BY <1>3, ScheduleAssumption DEF Init, StepInv, Baseline
<1> QED  BY <1>2, <1>4, <1>5, <1>6 DEF IInv

LEMMA StutterHolds ==
    ASSUME IInv, UNCHANGED vars
    PROVE  IInv'
<1> USE DEF IInv, vars, mind, history, disk, best, last
<1>1. TypeOK' /\ PhaseInv'
  BY DEF TypeOK, PhaseInv, InSession
<1>2. BestInv' /\ RefInv'
  BY DEF BestInv, Backed, RefInv
<1>3. StepInv' /\ TrendInv'
  BY DEF StepInv, TrendInv, Counts, ScoreWindow
<1> QED  BY <1>1, <1>2, <1>3

\* The inductive invariant.
THEOREM Invariance == Spec => []IInv
<1>1. Init => IInv
  BY InitHolds
<1>2. ASSUME IInv, [Next]_vars  PROVE IInv'
  <2>1. CASE Next
    <3>1. StepInv' /\ PhaseInv' /\ TrendInv'
      BY <1>2, <2>1, StepSteps, StepPhase, StepTrend DEF IInv
    <3>2. BestInv' /\ RefInv'
      BY <1>2, <2>1, StepBest, StepRef DEF IInv
    <3>3. FilesTyped' /\ RunsTyped' /\ RestTyped'
      BY <1>2, <2>1, <3>1, StepFiles, StepRuns, StepRest DEF IInv
    <3>4. TypeOK'
      BY <3>3 DEF TypeOK, FilesTyped, RunsTyped, RestTyped
    <3> QED  BY <3>1, <3>2, <3>4 DEF IInv
  <2>2. CASE UNCHANGED vars
    BY <1>2, <2>2, StutterHolds
  <2> QED  BY <1>2, <2>1, <2>2
<1> QED  BY <1>1, <1>2, PTL DEF Spec

\* The types, the bounds of the steps and of the batch among them.
THEOREM TypeCorrect == Spec => []TypeOK
<1>1. IInv => TypeOK
  BY DEF IInv
<1> QED  BY <1>1, Invariance, PTL

\* The best model is never lost (_run_worker_loop, runtime.py): what is tested and
\* delivered is the best checkpoint, no score the database took note of beats it, and
\* the checkpoint of a noted best score is on disk, across pauses and crashes.
THEOREM BestIsNeverLost == Spec => []BestIsKept
<1>1. ASSUME IInv  PROVE BestIsKept
  <2> USE <1>1, Fields DEF IInv
  <2>1. DeliversTheBest
    <3> SUFFICES ASSUME pc = "done", "fault" \notin mishaps
                 PROVE  tested = bestFile /\ \A s \in seen : s <= tested.score + MinImprovement
      BY DEF DeliversTheBest
    <3>1. /\ tested = bestFile /\ bestFile # NoFile /\ bestFile.score >= rec.best
          /\ \A s \in seen : s <= rec.best + MinImprovement
      BY DEF BestInv, Backed
    <3>2. bestFile.score \in Int /\ seen \subseteq Int
      BY <3>1, FilesAre, ScoreAssumption DEF TypeOK
    <3> QED  BY <3>1, <3>2, MarginAssumption
  <2>2. BestScoreIsOnDisk
    BY DEF BestScoreIsOnDisk, BestInv, Backed
  <2>3. PublishedIsDelivered
    BY DEF PublishedIsDelivered, RefInv, BestInv
  <2> QED  BY <2>1, <2>2, <2>3 DEF BestIsKept
<1> QED  BY <1>1, Invariance, PTL

\* A paused or stopped run can be continued, as long as no call failed and the process
\* did not die: every checkpoint that is left as the best one is recorded.
THEOREM PauseAlwaysContinues == Spec => []PauseContinues
<1>1. IInv => PauseContinues
  BY DEF IInv, RefInv, PauseContinues, CheckpointContinues, Verifies
<1> QED  BY <1>1, Invariance, PTL

\* For every patience the trend guard (assess_trend, model_guard.py) counts what the
\* loop counts, cut at its window.
TrendCounts ==
    pc = "judge" => BelowBest(ScoreWindow, run.best) = Smaller(streak, Len(ScoreWindow))

THEOREM TrendIsStreak == Spec => []TrendCounts
<1>1. ASSUME IInv, pc = "judge"
      PROVE  BelowBest(ScoreWindow, run.best) = Smaller(streak, Len(ScoreWindow))
  <2>1. weights.score \in Int
    BY <1>1, ScoreAssumption DEF IInv, PhaseInv, Evaluated
  <2>r. recent \in Seq(Int)
    <3>1. recent \in Seq(Scores)
      BY <1>1 DEF IInv, TypeOK
    <3>2. Len(recent) \in Nat /\ recent = [i \in 1..Len(recent) |-> recent[i]]
          /\ \A i \in 1..Len(recent) : recent[i] \in Int
      BY <3>1, ScoreAssumption
    <3> QED  BY <3>2
  <2>b. run.best \in Int
    BY <1>1, Fields DEF IInv
  <2>2. ScoreWindow \in Seq(Int)
    BY <2>1, <2>r DEF ScoreWindow
  <2>3. Counted(ScoreWindow, Smaller(streak, Len(ScoreWindow)), run.best)
    BY <1>1 DEF IInv, TrendInv, Counts
  <2> QED  BY <2>b, <2>2, <2>3, CountIs
<1> QED  BY <1>1, Invariance, PTL DEF TrendCounts

\* So the two guards agree whenever the patience fits in the window of five scores; a
\* longer patience leaves the decision to the counter.
THEOREM GuardsAlwaysAgree == ASSUME Patience \in 1..5  PROVE Spec => []GuardsAgree
<1>1. ASSUME IInv, TrendCounts  PROVE GuardsAgree
  <2> SUFFICES ASSUME pc = "judge" PROVE StreakDegrades <=> TrendDegrades
    BY DEF GuardsAgree
  <2>1. recent \in Seq(Scores) /\ streak \in Nat
    BY <1>1 DEF IInv, TypeOK
  <2>2. Len(ScoreWindow) = Len(recent) + 1 /\ Len(recent) \in Nat
    BY <2>1 DEF ScoreWindow
  <2>3. streak <= Len(ScoreWindow) \/ Len(ScoreWindow) >= 5
    BY <1>1 DEF IInv, TrendInv, Counts
  <2> QED  BY <1>1, <2>1, <2>2, <2>3 DEF TrendCounts, StreakDegrades, TrendDegrades, Smaller
<1> QED  BY <1>1, Invariance, TrendIsStreak, PTL

\* A chunk of steps ends at the latest on the next evaluation, and a run takes no step
\* past max_steps but the one of each session that was opened at the limit, whether a
\* failure, a crash, or a pause or stop during the final test had left it there.
THEOREM StepsStayBounded == Spec => StepsAreBounded
<1>1. IInv => StepLimitHolds
  BY Fields, ScheduleAssumption DEF IInv, StepInv, StepLimitHolds
<1>2. ASSUME IInv, Next, run'.step > run.step, pc = "top"
      PROVE  \A s \in (run.step + 1)..(run'.step - 1) : ~AtBoundary(s)
  <2>1. TypeOK /\ run \in RunRecord /\ run.step \in Nat /\ run.batch \in Nat \ {0}
    BY <1>2, Fields DEF IInv
  <2>2. Trains
    <3>1. CASE OutOfMemory
      BY <1>2, <2>1, <3>1 DEF OutOfMemory, RunRecord
    <3>2. ~OutOfMemory => Trains \/ run' = run
      BY <1>2 DEF Next, Step, Steer, BaselineSaves, BaselineRecords, Evaluates, SavesLast,
         RecordsLast, Promotes, PromotionRecords, Judges, DiscardsFile, DiscardsRecord, Restores,
         Tests, Finalizes, SessionOpens, SessionRejected, Drains, Fails, Crashes
    <3> QED  BY <1>2, <2>1, <3>1, <3>2
  <2> DEFINE chunk == Chunk(run.step, run.batch)
  <2>3. run'.step = run.step + chunk
    BY <2>1, <2>2 DEF Trains, RunRecord
  <2>4. /\ chunk \in Nat \ {0} /\ chunk <= Interval - (run.step % Interval)
        /\ chunk <= Larger(1, MaxSteps - run.step)
    BY <2>1, ChunkFits
  <2> HIDE DEF chunk
  <2> SUFFICES ASSUME NEW s \in (run.step + 1)..(run'.step - 1)  PROVE ~AtBoundary(s)
    OBVIOUS
  <2>5. run.step % Interval \in Int
    BY <2>1, ScheduleAssumption
  <2>6. s \in Nat /\ run.step < s /\ s < run.step + (Interval - (run.step % Interval))
    BY <2>1, <2>3, <2>4, <2>5, ScheduleAssumption
  <2>7. s % Interval # 0
    BY <2>1, <2>6, NoBoundaryBetween
  <2>8. s < MaxSteps
    BY <2>1, <2>3, <2>4, ScheduleAssumption DEF Larger
  <2> QED  BY <2>6, <2>7, <2>8, ScheduleAssumption DEF AtBoundary
<1>3. ASSUME IInv, [Next]_vars  PROVE [run'.step > run.step /\ pc = "top" =>
        \A s \in (run.step + 1)..(run'.step - 1) : ~AtBoundary(s)]_vars
  BY <1>2, <1>3
<1> QED  BY <1>1, <1>3, Invariance, PTL DEF StepsAreBounded, BoundariesAreKept, Spec
=============================================================================
