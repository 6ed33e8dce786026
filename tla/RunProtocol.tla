------------------------------ MODULE RunProtocol ------------------------------
(***************************************************************************)
(* What a client of Kernelyra is promised about a run, without saying how: *)
(* the states of models.RunStatus and the moves between them, together     *)
(* with the set of runs a worker thread is busy with.  RunLifecycle        *)
(* implements it: flags, thread phases, the scheduler's pass, close() and  *)
(* the lock are its business and do not appear here.                       *)
(***************************************************************************)
EXTENDS RunStates

CONSTANT Runs

VARIABLES state, busy

pvars == <<state, busy>>

PInit == state = [r \in Runs |-> "absent"] /\ busy = {}

Goes(r, to) == state' = [state EXCEPT ![r] = to]

Register(r) == state[r] = "absent" /\ Goes(r, "draft") /\ UNCHANGED busy

\* Runs left in flight by a scheduler that is gone become recoverable errors.
Recovered(recovering) ==
    [r \in Runs |-> IF recovering /\ state[r] \in Interrupted
                    THEN "error_recoverable" ELSE state[r]]

Queue(r, recovering) ==
    /\ state[r] \in Resumable \cup {"draft"}
    /\ state' = [Recovered(recovering) EXCEPT ![r] = "queued"]
    /\ UNCHANGED busy

Recover == state' = Recovered(TRUE) /\ UNCHANGED busy

\* A request to pause or stop takes effect at once if nobody works on the run, and
\* is acknowledged by the worker otherwise.
RequestPause(r) ==
    /\ state[r] \in {"queued", "training"}
    /\ Goes(r, IF r \in busy THEN "pausing" ELSE "paused")
    /\ UNCHANGED busy

RequestStop(r) ==
    /\ state[r] \in Stoppable
    /\ Goes(r, IF r \in busy THEN "stopping" ELSE "stopped")
    /\ UNCHANGED busy

Launch(r) ==
    /\ state[r] = "queued"
    /\ r \notin busy
    /\ Goes(r, "training")
    /\ busy' = busy \cup {r}

\* How the run ends depends on what was asked of it, whatever the training did.
Endings(s) ==
    IF s = "stopping" THEN {"stopped", "error_recoverable"}
    ELSE IF s = "pausing" THEN {"paused", "error_recoverable"}
    ELSE {"completed", "paused", "stopped", "error_recoverable"}

Settle(r) ==
    /\ r \in busy
    /\ \E to \in Endings(state[r]) : Goes(r, to)
    /\ busy' = busy \ {r}

\* Shutting down asks every run in training to pause.
Drain ==
    /\ state' = [r \in Runs |-> IF r \in busy /\ state[r] = "training"
                                THEN "pausing" ELSE state[r]]
    /\ UNCHANGED busy

\* A crash loses the workers and leaves the record as it was.
Lose == busy' = {} /\ UNCHANGED state

PNext ==
    \/ \E r \in Runs :
        \/ Register(r) \/ RequestPause(r) \/ RequestStop(r) \/ Launch(r) \/ Settle(r)
        \/ \E recovering \in BOOLEAN : Queue(r, recovering)
    \/ Recover \/ Drain \/ Lose

PSpec == PInit /\ [][PNext]_pvars
=============================================================================
