------------------------------- MODULE WorkerIPC -------------------------------
(***************************************************************************)
(* One backend process and the parent that drives it over a loopback       *)
(* socket: ProcessBackendWorker and _worker_main (backends/worker.py).     *)
(* The parent sends one request at a time and waits for the answer until a *)
(* time-out; the child executes it and answers with a result or an error.  *)
(* The child may crash, hang or be slow at any moment, so an answer can    *)
(* arrive after the parent has given up.  What is exchanged is abstracted  *)
(* to the number of the request and the training steps it asks for: none   *)
(* for an evaluation or a checkpoint, one for train_step, up to a hundred  *)
(* for train_steps, carried out one after the other.                       *)
(***************************************************************************)
EXTENDS Naturals, Sequences

CONSTANTS
    MaxRequests,    \* bound: requests of one session
    MaxSteps,       \* the most steps a caller asks for in one request
    StepCap         \* the most steps the child carries out for one: 100

ASSUME RequestsAssumption == MaxRequests \in Nat /\ MaxSteps \in Nat /\ StepCap \in Nat

VARIABLES
    parent,     \* starting, idle, waiting, closing, joining; closed, failed or gone
    asked,      \* number of the latest request
    wanted,     \* and the steps it asks for
    child,      \* booting, ready, busy, leaving or dead
    toChild, toParent,  \* the two directions of the socket
    executed,   \* steps the child has carried out, for each request
    credited,   \* steps the caller was told of, for each request
    failed      \* requests that raised an error in the caller

books == <<executed, credited, failed>>
vars == <<parent, asked, wanted, child, toChild, toParent, books>>

Requests == 1..MaxRequests

Alive == child # "dead"
Over  == parent \in {"closed", "failed", "gone"}    \* the parent's end is closed

Init ==
    /\ parent = "starting"
    /\ asked = 0 /\ wanted = 0
    /\ child = "booting"
    /\ toChild = <<>> /\ toParent = <<>>
    /\ executed = [r \in Requests |-> 0] /\ credited = [r \in Requests |-> 0]
    /\ failed = {}

Message(kind, id, steps) == [kind |-> kind, id |-> id, steps |-> steps]
Tell(message) == toParent' = Append(toParent, message)
Ask(message) == toChild' = Append(toChild, message)

\* _terminate_tree(): SIGTERM to the process group, SIGKILL if that is not enough.
Terminate == child' = "dead"

-----------------------------------------------------------------------------
(* The child: _worker_main.                                                *)

ChildBoots ==
    /\ child = "booting"
    /\ child' = "ready"
    /\ Tell(Message("ready", 0, 0))
    /\ UNCHANGED <<parent, asked, wanted, toChild, books>>

\* A backend that cannot be created is reported, if the socket is there to report it.
ChildCannotBoot ==
    /\ child = "booting"
    /\ child' = "dead"
    /\ Tell(Message("startup_error", 0, 0)) \/ UNCHANGED toParent
    /\ UNCHANGED <<parent, asked, wanted, toChild, books>>

ChildTakes ==
    /\ child = "ready"
    /\ toChild # <<>>
    /\ child' = IF Head(toChild).kind = "close" THEN "leaving" ELSE "busy"
    /\ UNCHANGED <<parent, asked, wanted, toChild, toParent, books>>

\* min(100, steps): what the child makes of the number it is sent.
Capped(steps) == IF steps < StepCap THEN steps ELSE StepCap

\* One step of the request in hand.
ChildSteps ==
    /\ child = "busy"
    /\ LET request == Head(toChild) IN
       /\ executed[request.id] < Capped(request.steps)
       /\ executed' = [executed EXCEPT ![request.id] = @ + 1]
    /\ UNCHANGED <<parent, asked, wanted, child, toChild, toParent, credited, failed>>

\* All steps are done: the answer says how many they were.
ChildAnswers ==
    /\ child = "busy"
    /\ LET request == Head(toChild) IN
       /\ executed[request.id] = Capped(request.steps)
       /\ Tell(Message("result", request.id, Capped(request.steps)))
    /\ child' = "ready"
    /\ toChild' = Tail(toChild)
    /\ UNCHANGED <<parent, asked, wanted, books>>

\* The backend raises at some step, or JSON refuses the result (NaN, too large).
ChildFails ==
    /\ child = "busy"
    /\ Tell(Message("error", Head(toChild).id, 0))
    /\ child' = "ready"
    /\ toChild' = Tail(toChild)
    /\ UNCHANGED <<parent, asked, wanted, books>>

\* close: the session is closed, the answer sent, and the process exits.
ChildLeaves ==
    /\ child = "leaving"
    /\ child' = "dead"
    /\ toChild' = Tail(toChild)
    /\ Tell(Message("result", Head(toChild).id, 0))
    /\ UNCHANGED <<parent, asked, wanted, books>>

\* Closing the session raises: an error is the answer, and the process stays.
ChildCannotLeave ==
    /\ child = "leaving"
    /\ child' = "ready"
    /\ toChild' = Tail(toChild)
    /\ Tell(Message("error", Head(toChild).id, 0))
    /\ UNCHANGED <<parent, asked, wanted, books>>

ChildCrashes ==
    /\ Alive
    /\ child' = "dead"
    /\ UNCHANGED <<parent, asked, wanted, toChild, toParent, books>>

ChildSeesEof_Retries ==
    /\ parent = "gone"
    /\ child \in {"booting", "ready"}
    /\ child' = "ready"
    /\ UNCHANGED <<parent, asked, wanted, toChild, toParent, books>>

\* Reading from a parent that is gone, or connecting to it, ends the process.
ChildSeesEof ==
    /\ parent = "gone"
    /\ child \in {"booting", "ready"}
    /\ child' = "dead"
    /\ UNCHANGED <<parent, asked, wanted, toChild, toParent, books>>

-----------------------------------------------------------------------------
(* The parent: ProcessBackendWorker.                                       *)

ParentReady ==
    /\ parent = "starting"
    /\ toParent # <<>>
    /\ toParent' = Tail(toParent)
    /\ IF Head(toParent).kind = "ready"
       THEN parent' = "idle" /\ UNCHANGED child
       ELSE parent' = "failed" /\ Terminate
    /\ UNCHANGED <<asked, wanted, toChild, books>>

ParentStartupTimesOut ==
    /\ parent = "starting"
    /\ parent' = "failed"
    /\ Terminate
    /\ UNCHANGED <<asked, wanted, toChild, toParent, books>>

\* _request(): an exited child is an error, otherwise the message is sent.
Request ==
    /\ parent = "idle"
    /\ Alive
    /\ asked < MaxRequests
    /\ asked' = asked + 1
    /\ wanted' \in 0..MaxSteps
    /\ Ask(Message("step", asked', wanted'))
    /\ parent' = "waiting"
    /\ UNCHANGED <<child, toParent, books>>

\* The heartbeat is older than the request time-out: nothing is sent.
HeartbeatExpired ==
    /\ parent = "idle"
    /\ Alive
    /\ Terminate
    /\ UNCHANGED <<parent, asked, wanted, toChild, toParent, books>>

Answered(id) == toParent # <<>> /\ Head(toParent).id = id

\* The caller of the latest request gets an error and counts none of its steps.
Raises ==
    /\ failed' = failed \cup {asked}
    /\ UNCHANGED credited

ParentReceives_CreditsErrors ==
    /\ parent = "waiting"
    /\ toParent # <<>>
    /\ toParent' = Tail(toParent)
    /\ credited' = [credited EXCEPT ![asked] = wanted]
    /\ parent' = "idle"
    /\ UNCHANGED <<asked, wanted, child, toChild, executed, failed>>

\* An error leaves the session in use; an answer to something else, or a result for
\* another number of steps than were asked for, ends it.
ParentReceives ==
    /\ parent = "waiting"
    /\ toParent # <<>>
    /\ toParent' = Tail(toParent)
    /\ parent' = "idle"
    /\ LET answer == Head(toParent) IN
       \/ /\ Answered(asked) /\ answer.kind = "result" /\ answer.steps = wanted
          /\ credited' = [credited EXCEPT ![asked] = wanted]
          /\ UNCHANGED <<child, failed>>
       \/ /\ Answered(asked) /\ answer.kind = "error"
          /\ Raises
          /\ UNCHANGED child
       \/ /\ ~Answered(asked) \/ (answer.kind = "result" /\ answer.steps # wanted)
          /\ Raises
          /\ Terminate
    /\ UNCHANGED <<asked, wanted, toChild, executed>>

\* The wait ends by the time-out, or by a socket the child has closed.
WaitIsOver == parent = "waiting" /\ toParent = <<>>

ParentGivesUp_Hopeful ==
    /\ WaitIsOver
    /\ Raises
    /\ parent' = "idle"
    /\ UNCHANGED <<asked, wanted, child, toChild, toParent, executed>>

ParentGivesUp_NeverWhileAlive ==
    /\ WaitIsOver /\ ~Alive
    /\ Raises
    /\ parent' = "idle"
    /\ UNCHANGED <<asked, wanted, child, toChild, toParent, executed>>

ParentGivesUp ==
    /\ WaitIsOver
    /\ Raises
    /\ Terminate
    /\ parent' = "idle"
    /\ UNCHANGED <<asked, wanted, toChild, toParent, executed>>

-----------------------------------------------------------------------------
(* close(): a cooperative request with a shorter time-out, a join, and     *)
(* termination if either does not help.                                    *)

CloseBegins ==
    /\ parent = "idle"
    /\ IF Alive
       THEN parent' = "closing" /\ Ask(Message("close", asked + 1, 0))
       ELSE parent' = "closed" /\ UNCHANGED toChild
    /\ UNCHANGED <<asked, wanted, child, toParent, books>>

CloseAnswered ==
    /\ parent = "closing"
    /\ toParent # <<>>
    /\ toParent' = Tail(toParent)
    /\ IF Answered(asked + 1) /\ Head(toParent).kind = "result"
       THEN parent' = "joining" /\ UNCHANGED child
       ELSE parent' = "closed" /\ Terminate
    /\ UNCHANGED <<asked, wanted, toChild, books>>

CloseFails_LeavesChild ==
    /\ parent = "closing"
    /\ toParent = <<>>
    /\ parent' = "closed"
    /\ UNCHANGED <<asked, wanted, child, toChild, toParent, books>>

CloseFails ==
    /\ parent = "closing"
    /\ toParent = <<>>
    /\ parent' = "closed"
    /\ Terminate
    /\ UNCHANGED <<asked, wanted, toChild, toParent, books>>

CloseJoins ==
    /\ parent = "joining"
    /\ parent' = "closed"
    /\ Terminate
    /\ UNCHANGED <<asked, wanted, toChild, toParent, books>>

\* The process of the parent dies; the child's end of the socket stays readable.
ParentDies ==
    /\ ~Over
    /\ parent' = "gone"
    /\ UNCHANGED <<asked, wanted, child, toChild, toParent, books>>

Finishes == \/ ChildAnswers \/ ChildFails
            \/ ChildLeaves \/ ChildCannotLeave

Child == \/ ChildBoots \/ ChildCannotBoot \/ ChildTakes \/ ChildSteps
         \/ Finishes \/ ChildCrashes \/ ChildSeesEof

Returns == \/ ParentReady \/ ParentStartupTimesOut
           \/ ParentReceives \/ ParentGivesUp
           \/ CloseAnswered \/ CloseFails \/ CloseJoins

Parent == Request \/ HeartbeatExpired \/ CloseBegins \/ Returns \/ ParentDies

Next == Child \/ Parent

Spec == Init /\ [][Next]_vars

\* Every blocking call of the parent has a time-out; the child owes nothing.
FairSpec == Spec /\ WF_vars(Returns)

-----------------------------------------------------------------------------
Id == 0..(MaxRequests + 1)
Sizes == 0..MaxSteps
Downward == [kind : {"step", "close"}, id : Id, steps : Sizes]
Upward == [kind : {"ready", "startup_error", "result", "error"}, id : Id, steps : Sizes]

TypeOK ==
    /\ parent \in {"starting", "idle", "waiting", "closing", "joining",
                  "closed", "failed", "gone"}
    /\ child \in {"booting", "ready", "busy", "leaving", "dead"}
    /\ asked \in 0..MaxRequests /\ wanted \in Sizes
    /\ toChild \in Seq(Downward) /\ toParent \in Seq(Upward)
    /\ executed \in [Requests -> Sizes]
    /\ credited \in [Requests -> Sizes]
    /\ failed \subseteq Requests

\* Between two requests to a living child the socket is empty: an answer the parent
\* did not wait for can never be taken for the answer of a later request.
NothingLeftOver ==
    parent = "idle" /\ Alive => toParent = <<>> /\ toChild = <<>>

\* A request is counted with the steps the backend carried out for it, or not at all.
\* Steps that are not counted belong to a request whose caller got an error, or waits
\* still; such a request, which may have been carried out in part or in full, is never
\* counted as well, and nothing more is done for it once its caller has the error.
StepsAreAccounted ==
    /\ \A r \in 1..asked :
        /\ credited[r] \in {0, executed[r]}
        /\ credited[r] < executed[r] =>
               r \in failed \/ (r = asked /\ parent \in {"waiting", "gone"})
        /\ r \in failed => credited[r] = 0
    /\ child = "busy" => Head(toChild).id \notin failed

\* close() and a failed constructor leave no backend process, whatever the child did.
NoProcessLeft == parent \in {"closed", "failed"} => ~Alive

\* No call of the parent blocks for ever, though the child may hang.
CallsReturn == parent \in {"starting", "waiting", "closing", "joining"}
                  ~> parent \in {"idle", "closed", "failed", "gone"}

\* A backend process does not outlive the process that started it, if its backend
\* comes back from the call it is in.
ChildKeepsUp == WF_vars(Finishes) /\ WF_vars(ChildTakes) /\ WF_vars(ChildSeesEof)
OrphanEnds == ChildKeepsUp => (parent = "gone" ~> ~Alive)
=============================================================================
