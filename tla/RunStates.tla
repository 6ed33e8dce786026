------------------------------- MODULE RunStates -------------------------------
(* The states of a run (models.RunStatus) and the groups the runtime tests for. *)
(* "absent" is a run that is not in the database.                               *)

Interrupted == {"training", "queued", "pausing", "stopping"}
Transient   == {"training", "pausing", "stopping"}
Resumable   == {"paused", "stopped", "error_recoverable"}
Stoppable   == {"draft", "queued", "training", "pausing", "paused", "error_recoverable"}

RunStatus == {"absent", "draft", "completed"} \cup Interrupted \cup Resumable
=============================================================================
