--------------------------- MODULE MCRunLifecycle ---------------------------
(* Instances of RunLifecycle for TLC: two runs on a small machine.  r1 comes *)
(* first in scheduling order.                                                *)
EXTENDS RunLifecycle, TLC

CONSTANTS r1, r2

TwoRuns == {r1, r2}
TwoRank == r1 :> 1 @@ r2 :> 2

\* Two runs that fit together, and two that collide on the cpu alone.
FittingNeed   == [r \in TwoRuns |-> [gpu |-> 50, ram |-> 30, cpu |-> 40]]
CollidingNeed == r1 :> [gpu |-> 40, ram |-> 20, cpu |-> 50]
              @@ r2 :> [gpu |-> 0, ram |-> 80, cpu |-> 60]

\* close() always joins the scheduler and the workers it saw before its deadline.
PromptNext == \/ \E r \in Runs : Client(r) \/ Pass(r) \/ Worker(r)
              \/ Start \/ Scheduler \/ CloseBegin \/ CloseMark \/ CloseJoins
PromptSpec == Init /\ [][PromptNext]_vars
=============================================================================
