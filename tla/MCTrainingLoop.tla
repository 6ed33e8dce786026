---------------------------- MODULE MCTrainingLoop ----------------------------
(* Instances of TrainingLoop: an evaluation every two steps and at the limit,  *)
(* scores one unit, that is more than either margin, apart.                    *)
EXTENDS TrainingLoop

Accuracies == 1..3
=============================================================================
