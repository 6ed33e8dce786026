--------------------------- MODULE WorkerIPC_proofs ---------------------------
(***************************************************************************)
(* Proofs about WorkerIPC, for any number of requests: whatever the child  *)
(* does and whoever gives up, the socket never holds more than one message.*)
(***************************************************************************)
EXTENDS WorkerIPC, TLAPS

Step  == <<Message("step", asked, wanted)>>
Close == <<Message("close", asked + 1, 0)>>
Answer(kinds, id) == \E kind \in kinds, n \in Sizes : toParent = <<Message(kind, id, n)>>

Answers == {"result", "error"}

\* The parent's view of the conversation, in each of its phases.
ParentInv ==
    /\ parent = "starting" =>
        /\ asked = 0 /\ toChild = <<>> /\ child \in {"booting", "ready", "dead"}
        /\ (child = "booting" => toParent = <<>>)
        /\ (child = "ready" => Answer({"ready"}, 0))
        /\ (toParent = <<>> \/ Answer({"ready", "startup_error"}, 0))
    /\ parent = "idle" /\ Alive => child = "ready" /\ toChild = <<>> /\ toParent = <<>>
    /\ parent = "waiting" =>
        \/ toChild = Step /\ toParent = <<>> /\ child \in {"ready", "busy", "dead"}
        \/ toChild = <<>> /\ Answer(Answers, asked) /\ child \in {"ready", "dead"}
    /\ parent = "closing" =>
        \/ toChild = Close /\ toParent = <<>> /\ child # "busy"
        \/ toChild = <<>> /\ Answer({"error"}, asked + 1) /\ child \in {"ready", "dead"}
        \/ toChild = <<>> /\ Answer({"result"}, asked + 1) /\ ~Alive
    /\ parent \in {"joining", "closed", "failed"} => ~Alive

\* The child's view, which survives the death of the parent.
ChildInv ==
    /\ child = "booting" => /\ parent \in {"starting", "gone"} /\ asked = 0
                            /\ toChild = <<>> /\ toParent = <<>>
    /\ child = "busy" => parent \in {"waiting", "gone"} /\ toChild = Step /\ toParent = <<>>
    /\ child = "leaving" => parent \in {"closing", "gone"} /\ toChild = Close /\ toParent = <<>>
    /\ toChild \in {<<>>, Step, Close}
    /\ toChild # <<>> => toParent = <<>>

\* A request under way: the child holds it, or its caller waits for it.
Pending == (Alive /\ toChild = Step) \/ parent = "waiting"

\* What is counted: nothing of a request under way, and of any other all or nothing.
CountInv ==
    /\ \A r \in Requests :
        /\ r > asked => executed[r] = 0
        /\ credited[r] \in {0, executed[r]}
        /\ credited[r] < executed[r] =>
               r \in failed \/ (r = asked /\ parent \in {"waiting", "gone"})
        /\ r \in failed => r <= asked /\ credited[r] = 0
    /\ Pending => asked \in Requests \ failed /\ credited[asked] = 0
    /\ parent = "waiting" =>
           \A n \in Sizes : toParent = <<Message("result", asked, n)>> => executed[asked] = n

IInv == TypeOK /\ ParentInv /\ ChildInv /\ CountInv

-----------------------------------------------------------------------------
\* A socket with one message.  Nothing in the model ever puts a second one into it.
LEMMA Single ==
    ASSUME NEW m
    PROVE  /\ <<m>> # <<>> /\ Head(<<m>>) = m /\ Tail(<<m>>) = <<>>
           /\ Append(<<>>, m) = <<m>>
  OBVIOUS

LEMMA SingleIn ==
    ASSUME NEW S, NEW m \in S
    PROVE  <<m>> \in Seq(S)
  OBVIOUS

\* What is in a message, and that it may be sent.
LEMMA Fields ==
    \A kind, id, n : /\ Message(kind, id, n).kind = kind
                     /\ Message(kind, id, n).id = id
                     /\ Message(kind, id, n).steps = n
  BY DEF Message

LEMMA Sendable ==
    \A id \in Id, n \in Sizes :
        /\ \A kind \in {"step", "close"} : <<Message(kind, id, n)>> \in Seq(Downward)
        /\ \A kind \in {"ready", "startup_error", "result", "error"} :
               <<Message(kind, id, n)>> \in Seq(Upward)
<1> SUFFICES ASSUME NEW id \in Id, NEW n \in Sizes
             PROVE  /\ \A kind \in {"step", "close"} : <<Message(kind, id, n)>> \in Seq(Downward)
                    /\ \A kind \in {"ready", "startup_error", "result", "error"} :
                           <<Message(kind, id, n)>> \in Seq(Upward)
  OBVIOUS
<1>1. ASSUME NEW kind \in {"step", "close"} PROVE <<Message(kind, id, n)>> \in Seq(Downward)
  <2>1. Message(kind, id, n) \in Downward
    BY DEF Message, Downward
  <2> QED  BY <2>1, SingleIn
<1>2. ASSUME NEW kind \in {"ready", "startup_error", "result", "error"}
      PROVE  <<Message(kind, id, n)>> \in Seq(Upward)
  <2>1. Message(kind, id, n) \in Upward
    BY DEF Message, Upward
  <2> QED  BY <2>1, SingleIn
<1> QED  BY <1>1, <1>2

LEMMA NothingSent == <<>> \in Seq(Downward) /\ <<>> \in Seq(Upward)
  OBVIOUS

LEMMA Ids == \A n \in 0..MaxRequests : n \in Id /\ n + 1 \in Id
  BY RequestsAssumption DEF Id

LEMMA NoSteps == 0 \in Sizes
  BY RequestsAssumption DEF Sizes

LEMMA CappedIn == \A n \in Sizes : Capped(n) \in Sizes /\ Capped(n) <= n
  BY RequestsAssumption DEF Capped, Sizes

\* What the child has in hand while it works, and while it leaves.
LEMMA InHand ==
    ASSUME IInv, child = "busy"
    PROVE  /\ toChild = Step /\ Head(toChild) = Message("step", asked, wanted)
           /\ Tail(toChild) = <<>> /\ toParent = <<>> /\ parent \in {"waiting", "gone"}
           /\ asked \in Requests /\ asked \notin failed /\ credited[asked] = 0
  BY Single DEF IInv, ChildInv, CountInv, Pending, Alive, Step

LEMMA LastWords ==
    ASSUME IInv, child = "leaving"
    PROVE  /\ toChild = Close /\ Head(toChild) = Message("close", asked + 1, 0)
           /\ Tail(toChild) = <<>> /\ toParent = <<>> /\ parent \in {"closing", "gone"}
  BY Single DEF IInv, ChildInv, Close

LEMMA InitInv == Init => IInv
  BY RequestsAssumption, NothingSent
     DEF Init, IInv, TypeOK, ParentInv, ChildInv, CountInv, Id, Alive, Over,
     Step, Close, Answer, Pending, Requests, Sizes

LEMMA StepInv == IInv /\ [Next]_vars => IInv'
<1> SUFFICES ASSUME IInv, [Next]_vars PROVE IInv'
  OBVIOUS
<1> USE DEF Alive, Over, Answers, books
<1>1. CASE ChildBoots
  <2>1. toChild = <<>> /\ toParent' = <<Message("ready", 0, 0)>> /\ 0 \in Id /\ 0 \in Sizes
    BY <1>1, Single, RequestsAssumption DEF ChildBoots, Tell, IInv, ChildInv, Id, Sizes
  <2>2. TypeOK'
    BY <1>1, <2>1, NothingSent, Sendable DEF IInv, TypeOK, ChildBoots
  <2>3. ParentInv'
    BY <1>1, <2>1, Single, Fields DEF IInv, TypeOK, ParentInv, Step, Close, Answer, ChildBoots
  <2>4. ChildInv'
    BY <1>1, <2>1, Single, Fields DEF IInv, TypeOK, ChildInv, Step, Close, ChildBoots
  <2>5. CountInv'
    BY <1>1, <2>1, Single, Fields DEF IInv, TypeOK, CountInv, Pending, Step, Close, ChildBoots
  <2> QED  BY <2>2, <2>3, <2>4, <2>5 DEF IInv
<1>2. CASE ChildCannotBoot
  <2>1. /\ toChild = <<>> /\ 0 \in Id /\ 0 \in Sizes /\ toParent = <<>>
        /\ toParent' \in {<<>>, <<Message("startup_error", 0, 0)>>} /\ parent # "waiting"
    BY <1>2, Single, RequestsAssumption DEF ChildCannotBoot, Tell, IInv, ChildInv, Id, Sizes
  <2>2. TypeOK'
    BY <1>2, <2>1, NothingSent, Sendable DEF IInv, TypeOK, ChildCannotBoot
  <2>3. ParentInv'
    BY <1>2, <2>1, Single, Fields DEF IInv, TypeOK, ParentInv, Step, Close, Answer, ChildCannotBoot
  <2>4. ChildInv'
    BY <1>2, <2>1, Single, Fields DEF IInv, TypeOK, ChildInv, Step, Close, ChildCannotBoot
  <2>5. CountInv'
    BY <1>2, <2>1, Single, Fields DEF IInv, TypeOK, CountInv, Pending, Step, Close, ChildCannotBoot
  <2> QED  BY <2>2, <2>3, <2>4, <2>5 DEF IInv
<1>3. CASE ChildTakes
  <2>1. \/ toChild = Step /\ Head(toChild).kind = "step"
        \/ toChild = Close /\ Head(toChild).kind = "close"
    BY <1>3, Single, Fields DEF ChildTakes, IInv, ChildInv, Step, Close
  <2>2. Step # Close /\ Close # <<>> /\ Step # <<>>
    BY Single, Fields DEF Step, Close
  <2>3. /\ toParent = <<>> /\ child = "ready"
        /\ toChild = Step => parent \in {"waiting", "gone"}
        /\ toChild = Close => parent \in {"closing", "gone"}
    BY <1>3, <2>2 DEF ChildTakes, IInv, TypeOK, ParentInv, ChildInv, Answer
  <2>4. TypeOK'
    BY <1>3, <2>1, <2>2, <2>3, NothingSent, Sendable DEF IInv, TypeOK, ChildTakes
  <2>5. ParentInv'
    BY <1>3, <2>1, <2>2, <2>3, Single, Fields DEF IInv, TypeOK, ParentInv, Step, Close, Answer, ChildTakes
  <2>6. ChildInv'
    <3>1. UNCHANGED <<Step, Close>>
      BY <1>3 DEF ChildTakes, Step, Close
    <3> QED  BY <1>3, <3>1, <2>1, <2>2, <2>3 DEF ChildInv, ChildTakes
  <2>7. CountInv'
    BY <1>3, <2>1, <2>2, <2>3, Single, Fields DEF IInv, TypeOK, CountInv, Pending, Step, Close, ChildTakes
  <2> QED  BY <2>4, <2>5, <2>6, <2>7 DEF IInv
<1>4. CASE ChildSteps
  <2>1. Head(toChild).id = asked /\ Head(toChild).steps = wanted /\ wanted \in Sizes
    BY <1>4, InHand, Fields DEF ChildSteps, IInv, TypeOK
  <2>2. executed' = [executed EXCEPT ![asked] = executed[asked] + 1] /\ executed[asked] < Capped(wanted)
    BY ONLY <1>4, <2>1 DEF ChildSteps
  <2>3. /\ child = "busy" /\ asked \in Requests /\ asked \notin failed /\ credited[asked] = 0
        /\ parent \in {"waiting", "gone"} /\ toParent = <<>>
    BY <1>4, InHand DEF ChildSteps
  <2>4. executed[asked] + 1 \in Sizes
    <3>1. executed[asked] \in Sizes /\ Capped(wanted) \in Sizes
      BY <2>1, <2>3, CappedIn DEF IInv, TypeOK
    <3> QED  BY ONLY <3>1, <2>2, RequestsAssumption DEF Sizes
  <2>5. TypeOK'
    BY <1>4, <2>1, <2>2, <2>3, <2>4, NothingSent, Sendable DEF IInv, TypeOK, ChildSteps
  <2>6. ParentInv'
    BY <1>4, <2>1, <2>2, <2>3, <2>4, Single, Fields DEF IInv, TypeOK, ParentInv, Step, Close, Answer, ChildSteps
  <2>7. ChildInv'
    BY <1>4, <2>1, <2>2, <2>3, <2>4, Single, Fields DEF IInv, TypeOK, ChildInv, Step, Close, ChildSteps
  <2>8. CountInv'
    BY <1>4, <2>1, <2>2, <2>3, <2>4, Single, Fields DEF IInv, TypeOK, CountInv, Pending, Step, Close, ChildSteps
  <2> QED  BY <2>5, <2>6, <2>7, <2>8 DEF IInv
<1>5. CASE ChildAnswers
  <2>1. /\ toChild' = <<>> /\ toParent' = <<Message("result", asked, executed[asked])>>
        /\ asked \in Requests /\ asked \notin failed /\ credited[asked] = 0
        /\ parent \in {"waiting", "gone"}
    BY <1>5, InHand, Fields, Single DEF ChildAnswers, Tell
  <2>2. asked \in Id /\ executed[asked] \in Sizes
    BY <2>1, Ids DEF IInv, TypeOK
  <2>3. TypeOK'
    BY <1>5, <2>1, <2>2, NothingSent, Sendable DEF IInv, TypeOK, ChildAnswers
  <2>4. ParentInv'
    BY <1>5, <2>1, <2>2, Single, Fields DEF IInv, TypeOK, ParentInv, Step, Close, Answer, ChildAnswers
  <2>5. ChildInv'
    BY <1>5, <2>1, <2>2, Single, Fields DEF IInv, TypeOK, ChildInv, Step, Close, ChildAnswers
  <2>6. CountInv'
    BY <1>5, <2>1, <2>2, Single, Fields DEF IInv, TypeOK, CountInv, Pending, Step, Close, ChildAnswers
  <2> QED  BY <2>3, <2>4, <2>5, <2>6 DEF IInv
<1>6. CASE ChildFails
  <2>1. /\ toChild' = <<>> /\ toParent' = <<Message("error", asked, 0)>>
        /\ asked \in Requests /\ asked \notin failed /\ credited[asked] = 0
        /\ parent \in {"waiting", "gone"}
    BY <1>6, InHand, Fields, Single DEF ChildFails, Tell
  <2>2. asked \in Id /\ 0 \in Sizes
    BY <2>1, Ids, RequestsAssumption DEF IInv, TypeOK, Sizes
  <2>3. TypeOK'
    BY <1>6, <2>1, <2>2, NothingSent, Sendable DEF IInv, TypeOK, ChildFails
  <2>4. ParentInv'
    BY <1>6, <2>1, <2>2, Single, Fields DEF IInv, TypeOK, ParentInv, Step, Close, Answer, ChildFails
  <2>5. ChildInv'
    BY <1>6, <2>1, <2>2, Single, Fields DEF IInv, TypeOK, ChildInv, Step, Close, ChildFails
  <2>6. CountInv'
    BY <1>6, <2>1, <2>2, Single, Fields DEF IInv, TypeOK, CountInv, Pending, Step, Close, ChildFails
  <2> QED  BY <2>3, <2>4, <2>5, <2>6 DEF IInv
<1>7. CASE ChildLeaves
  <2>1. toChild' = <<>> /\ toParent' = <<Message("result", asked + 1, 0)>> /\ parent \in {"closing", "gone"}
    BY <1>7, LastWords, Fields, Single DEF ChildLeaves, Tell
  <2>2. asked \in 0..MaxRequests
    BY DEF IInv, TypeOK
  <2>3. asked + 1 \in Id /\ 0 \in Sizes
    BY <2>2, Ids, NoSteps
  <2>4. TypeOK'
    BY <1>7, <2>1, <2>2, <2>3, NothingSent, Sendable DEF IInv, TypeOK, ChildLeaves
  <2>5. ParentInv'
    BY <1>7, <2>1, <2>2, <2>3, Single, Fields DEF IInv, TypeOK, ParentInv, Step, Close, Answer, ChildLeaves
  <2>6. ChildInv'
    BY <1>7, <2>1, <2>2, <2>3, Single, Fields DEF IInv, TypeOK, ChildInv, Step, Close, ChildLeaves
  <2>7. CountInv'
    BY <1>7, <2>1, <2>2, <2>3, Single, Fields DEF IInv, TypeOK, CountInv, Pending, Step, Close, ChildLeaves
  <2> QED  BY <2>4, <2>5, <2>6, <2>7 DEF IInv
<1>8. CASE ChildCannotLeave
  <2>1. toChild' = <<>> /\ toParent' = <<Message("error", asked + 1, 0)>> /\ parent \in {"closing", "gone"}
    BY <1>8, LastWords, Fields, Single DEF ChildCannotLeave, Tell
  <2>2. asked \in 0..MaxRequests
    BY DEF IInv, TypeOK
  <2>3. asked + 1 \in Id /\ 0 \in Sizes
    BY <2>2, Ids, NoSteps
  <2>4. TypeOK'
    BY <1>8, <2>1, <2>2, <2>3, NothingSent, Sendable DEF IInv, TypeOK, ChildCannotLeave
  <2>5. ParentInv'
    BY <1>8, <2>1, <2>2, <2>3, Single, Fields DEF IInv, TypeOK, ParentInv, Step, Close, Answer, ChildCannotLeave
  <2>6. ChildInv'
    BY <1>8, <2>1, <2>2, <2>3, Single, Fields DEF IInv, TypeOK, ChildInv, Step, Close, ChildCannotLeave
  <2>7. CountInv'
    BY <1>8, <2>1, <2>2, <2>3, Single, Fields DEF IInv, TypeOK, CountInv, Pending, Step, Close, ChildCannotLeave
  <2> QED  BY <2>4, <2>5, <2>6, <2>7 DEF IInv
<1>9. CASE ChildCrashes
  <2>1. TypeOK'
    BY <1>9, NothingSent, Sendable DEF IInv, TypeOK, ChildCrashes
  <2>2. ParentInv'
    BY <1>9, Single, Fields DEF IInv, TypeOK, ParentInv, Step, Close, Answer, ChildCrashes
  <2>3. ChildInv'
    BY <1>9, Single, Fields DEF IInv, TypeOK, ChildInv, Step, Close, ChildCrashes
  <2>4. CountInv'
    BY <1>9, Single, Fields DEF IInv, TypeOK, CountInv, Pending, Step, Close, ChildCrashes
  <2> QED  BY <2>1, <2>2, <2>3, <2>4 DEF IInv
<1>10. CASE ChildSeesEof
  <2>1. TypeOK'
    BY <1>10, NothingSent, Sendable DEF IInv, TypeOK, ChildSeesEof
  <2>2. ParentInv'
    BY <1>10, Single, Fields DEF IInv, TypeOK, ParentInv, Step, Close, Answer, ChildSeesEof
  <2>3. ChildInv'
    BY <1>10, Single, Fields DEF IInv, TypeOK, ChildInv, Step, Close, ChildSeesEof
  <2>4. CountInv'
    BY <1>10, Single, Fields DEF IInv, TypeOK, CountInv, Pending, Step, Close, ChildSeesEof
  <2> QED  BY <2>1, <2>2, <2>3, <2>4 DEF IInv
<1>11. CASE ParentReady
  <2>1. toParent' = <<>> /\ toChild = <<>> /\ asked = 0 /\ child # "booting"
    BY <1>11, Single DEF ParentReady, IInv, ParentInv, Answer
  <2>2. child = "dead" \/ (child = "ready" /\ Head(toParent).kind = "ready")
    BY <1>11, <2>1, Single, Fields DEF ParentReady, IInv, ParentInv, Answer
  <2>3. TypeOK'
    BY <1>11, <2>1, <2>2, NothingSent, Sendable DEF IInv, TypeOK, ParentReady, Terminate
  <2>4. ParentInv'
    BY <1>11, <2>1, <2>2, Single, Fields DEF IInv, TypeOK, ParentInv, Step, Close, Answer, ParentReady, Terminate
  <2>5. ChildInv'
    BY <1>11, <2>1, <2>2, Single, Fields DEF IInv, TypeOK, ChildInv, Step, Close, ParentReady, Terminate
  <2>6. CountInv'
    BY <1>11, <2>1, <2>2, Single, Fields DEF IInv, TypeOK, CountInv, Pending, Step, Close, ParentReady, Terminate
  <2> QED  BY <2>3, <2>4, <2>5, <2>6 DEF IInv
<1>12. CASE ParentStartupTimesOut
  <2>1. TypeOK'
    BY <1>12, NothingSent, Sendable DEF IInv, TypeOK, ParentStartupTimesOut, Terminate
  <2>2. ParentInv'
    BY <1>12, Single, Fields DEF IInv, TypeOK, ParentInv, Step, Close, Answer, ParentStartupTimesOut, Terminate
  <2>3. ChildInv'
    BY <1>12, Single, Fields DEF IInv, TypeOK, ChildInv, Step, Close, ParentStartupTimesOut, Terminate
  <2>4. CountInv'
    BY <1>12, Single, Fields DEF IInv, TypeOK, CountInv, Pending, Step, Close, ParentStartupTimesOut, Terminate
  <2> QED  BY <2>1, <2>2, <2>3, <2>4 DEF IInv
<1>13. CASE Request
  <2>1. /\ toChild' = <<Message("step", asked', wanted')>> /\ toParent = <<>> /\ child = "ready"
        /\ asked' \in Requests /\ wanted' \in Sizes /\ asked' = asked + 1 /\ asked \in 0..MaxRequests
    BY <1>13, Single, RequestsAssumption DEF Request, Ask, IInv, TypeOK, ParentInv, Requests, Sizes
  <2>2. asked' \in Id /\ asked' \in 0..MaxRequests
    BY <2>1, Ids, RequestsAssumption DEF Requests
  <2>3. TypeOK'
    BY <1>13, <2>1, <2>2, NothingSent, Sendable DEF IInv, TypeOK, Request
  <2>4. ParentInv'
    BY <1>13, <2>1, <2>2, Single, Fields DEF IInv, TypeOK, ParentInv, Step, Close, Answer, Request
  <2>5. ChildInv'
    BY <1>13, <2>1, <2>2, Single, Fields DEF IInv, TypeOK, ChildInv, Step, Close, Request
  <2>6. CountInv'
    BY <1>13, <2>1, <2>2, Single, Fields DEF IInv, TypeOK, CountInv, Pending, Step, Close, Request
  <2> QED  BY <2>3, <2>4, <2>5, <2>6 DEF IInv
<1>14. CASE HeartbeatExpired
  <2>1. TypeOK'
    BY <1>14, NothingSent, Sendable DEF IInv, TypeOK, HeartbeatExpired, Terminate
  <2>2. ParentInv'
    BY <1>14, Single, Fields DEF IInv, TypeOK, ParentInv, Step, Close, Answer, HeartbeatExpired, Terminate
  <2>3. ChildInv'
    BY <1>14, Single, Fields DEF IInv, TypeOK, ChildInv, Step, Close, HeartbeatExpired, Terminate
  <2>4. CountInv'
    BY <1>14, Single, Fields DEF IInv, TypeOK, CountInv, Pending, Step, Close, HeartbeatExpired, Terminate
  <2> QED  BY <2>1, <2>2, <2>3, <2>4 DEF IInv
<1>15. CASE ParentReceives
  <2>1. /\ toChild = <<>> /\ toParent' = <<>> /\ child \in {"ready", "dead"}
    BY <1>15, Single DEF ParentReceives, IInv, ParentInv, Step, Answer
  <2>2. PICK kind \in Answers, n \in Sizes : toParent = <<Message(kind, asked, n)>>
    BY <1>15, Single DEF ParentReceives, IInv, ParentInv, Step, Answer
  <2>3. Head(toParent) = Message(kind, asked, n) /\ Answered(asked)
    BY <2>2, Single, Fields DEF Answered
  <2>4. asked \in Requests /\ asked \notin failed /\ credited[asked] = 0
    BY <1>15 DEF ParentReceives, IInv, CountInv, Pending
  <2>5. \/ /\ credited' = [credited EXCEPT ![asked] = wanted] /\ executed[asked] = wanted
           /\ failed' = failed /\ child' = child
        \/ /\ credited' = credited /\ failed' = failed \cup {asked} /\ child' \in {child, "dead"}
    <3>1. kind = "result" => executed[asked] = n
      BY <1>15, <2>2 DEF ParentReceives, IInv, CountInv
    <3> QED  BY <1>15, <2>3, <3>1, Fields DEF ParentReceives, Raises, Terminate
  <2>6. TypeOK'
    BY <1>15, <2>1, <2>4, <2>5, NothingSent DEF IInv, TypeOK, ParentReceives
  <2>7. ParentInv'
    BY <1>15, <2>1, <2>5 DEF ParentInv, ParentReceives
  <2>8. ChildInv'
    BY <1>15, <2>1, <2>5 DEF ChildInv, ParentReceives
  <2>9. CountInv'
    <3>1. parent' = "idle" /\ ~Pending' /\ UNCHANGED <<asked, wanted, executed>>
      <4>1. toChild' = <<>> /\ parent' = "idle" /\ UNCHANGED <<asked, wanted, executed>>
        BY <1>15, <2>1 DEF ParentReceives
      <4>2. Step' # <<>>
        BY Single DEF Step
      <4> QED  BY <4>1, <4>2 DEF Pending
    <3>2. CASE credited' = [credited EXCEPT ![asked] = wanted] /\ executed[asked] = wanted /\ failed' = failed
      <4>1. /\ credited'[asked] = executed'[asked]
            /\ \A r \in Requests : r # asked => credited'[r] = credited[r]
        BY <3>1, <3>2, <2>4 DEF IInv, TypeOK
      <4>2. ASSUME NEW r \in Requests
            PROVE  /\ r > asked' => executed'[r] = 0
                   /\ credited'[r] \in {0, executed'[r]}
                   /\ credited'[r] < executed'[r] => r \in failed'
                   /\ r \in failed' => r <= asked' /\ credited'[r] = 0
        <5>1. CASE r = asked
          BY <5>1, <4>1, <3>1, <3>2, <2>4 DEF IInv, TypeOK, CountInv, Requests, Sizes
        <5>2. CASE r # asked
          BY <5>2, <4>1, <3>1, <3>2 DEF IInv, CountInv
        <5> QED  BY <5>1, <5>2
      <4> QED  BY <4>2, <3>1 DEF CountInv
    <3>3. CASE credited' = credited /\ failed' = failed \cup {asked}
      BY <3>1, <3>3, <2>4 DEF IInv, TypeOK, CountInv, Requests
    <3> QED  BY <2>5, <3>2, <3>3
  <2> QED  BY <2>6, <2>7, <2>8, <2>9 DEF IInv
<1>16. CASE ParentGivesUp
  <2>1. asked \in Requests /\ asked \notin failed /\ credited[asked] = 0
    BY <1>16 DEF ParentGivesUp, WaitIsOver, IInv, CountInv, Pending
  <2>2. TypeOK'
    BY <1>16, <2>1, NothingSent, Sendable DEF IInv, TypeOK, ParentGivesUp, Raises, WaitIsOver, Terminate
  <2>3. ParentInv'
    BY <1>16, <2>1, Single, Fields DEF IInv, TypeOK, ParentInv, Step, Close, Answer, ParentGivesUp, Raises, WaitIsOver, Terminate
  <2>4. ChildInv'
    BY <1>16, <2>1, Single, Fields DEF IInv, TypeOK, ChildInv, Step, Close, ParentGivesUp, Raises, WaitIsOver, Terminate
  <2>5. CountInv'
    BY <1>16, <2>1, Single, Fields DEF IInv, TypeOK, CountInv, Pending, Step, Close, ParentGivesUp, Raises, WaitIsOver, Terminate
  <2> QED  BY <2>2, <2>3, <2>4, <2>5 DEF IInv
<1>17. CASE CloseBegins
  <2>1. asked \in 0..MaxRequests
    BY DEF IInv, TypeOK
  <2>2. asked + 1 \in Id /\ 0 \in Sizes
    BY <2>1, Ids, NoSteps
  <2>3. IF Alive THEN toChild' = Close /\ parent' = "closing" /\ toParent = <<>> /\ child = "ready" ELSE toChild' = toChild /\ parent' = "closed"
    BY <1>17, Single DEF CloseBegins, Ask, IInv, ParentInv, Close
  <2>4. toChild' \in Seq(Downward)
    <3>1. CASE Alive
      BY <3>1, <2>2, <2>3, Sendable DEF Close
    <3>2. CASE ~Alive
      BY <3>2, <2>3 DEF IInv, TypeOK
    <3> QED  BY <3>1, <3>2
  <2>5. TypeOK'
    BY <1>17, <2>1, <2>2, <2>3, <2>4, NothingSent, Sendable DEF IInv, TypeOK, CloseBegins
  <2>6. ParentInv'
    BY <1>17, <2>1, <2>2, <2>3, <2>4, Single, Fields DEF IInv, TypeOK, ParentInv, Step, Close, Answer, CloseBegins
  <2>7. ChildInv'
    BY <1>17, <2>1, <2>2, <2>3, <2>4, Single, Fields DEF IInv, TypeOK, ChildInv, Step, Close, CloseBegins
  <2>8. CountInv'
    BY <1>17, <2>1, <2>2, <2>3, <2>4, Single, Fields DEF IInv, TypeOK, CountInv, Pending, Step, Close, CloseBegins
  <2> QED  BY <2>5, <2>6, <2>7, <2>8 DEF IInv
<1>18. CASE CloseAnswered
  <2>1. toParent' = <<>> /\ toChild = <<>> /\ child \in {"ready", "dead"}
    BY <1>18, Single DEF CloseAnswered, IInv, ParentInv, Answer, Close
  <2>2. child' = "dead" /\ parent' \in {"joining", "closed"}
    BY <1>18, <2>1, Single, Fields DEF CloseAnswered, Terminate, IInv, ParentInv, Answer, Close
  <2>3. TypeOK'
    BY <1>18, <2>1, <2>2, NothingSent, Sendable DEF IInv, TypeOK, CloseAnswered, Terminate
  <2>4. ParentInv'
    BY <1>18, <2>1, <2>2, Single, Fields DEF IInv, TypeOK, ParentInv, Step, Close, Answer, CloseAnswered, Terminate
  <2>5. ChildInv'
    BY <1>18, <2>1, <2>2, Single, Fields DEF IInv, TypeOK, ChildInv, Step, Close, CloseAnswered, Terminate
  <2>6. CountInv'
    BY <1>18, <2>1, <2>2, Single, Fields DEF IInv, TypeOK, CountInv, Pending, Step, Close, CloseAnswered, Terminate
  <2> QED  BY <2>3, <2>4, <2>5, <2>6 DEF IInv
<1>19. CASE CloseFails
  <2>1. TypeOK'
    BY <1>19, NothingSent, Sendable DEF IInv, TypeOK, CloseFails, Terminate
  <2>2. ParentInv'
    BY <1>19, Single, Fields DEF IInv, TypeOK, ParentInv, Step, Close, Answer, CloseFails, Terminate
  <2>3. ChildInv'
    BY <1>19, Single, Fields DEF IInv, TypeOK, ChildInv, Step, Close, CloseFails, Terminate
  <2>4. CountInv'
    BY <1>19, Single, Fields DEF IInv, TypeOK, CountInv, Pending, Step, Close, CloseFails, Terminate
  <2> QED  BY <2>1, <2>2, <2>3, <2>4 DEF IInv
<1>20. CASE CloseJoins
  <2>1. TypeOK'
    BY <1>20, NothingSent, Sendable DEF IInv, TypeOK, CloseJoins, Terminate
  <2>2. ParentInv'
    BY <1>20, Single, Fields DEF IInv, TypeOK, ParentInv, Step, Close, Answer, CloseJoins, Terminate
  <2>3. ChildInv'
    BY <1>20, Single, Fields DEF IInv, TypeOK, ChildInv, Step, Close, CloseJoins, Terminate
  <2>4. CountInv'
    BY <1>20, Single, Fields DEF IInv, TypeOK, CountInv, Pending, Step, Close, CloseJoins, Terminate
  <2> QED  BY <2>1, <2>2, <2>3, <2>4 DEF IInv
<1>21. CASE ParentDies
  <2>1. TypeOK'
    BY <1>21, NothingSent, Sendable DEF IInv, TypeOK, ParentDies
  <2>2. ParentInv'
    BY <1>21, Single, Fields DEF IInv, TypeOK, ParentInv, Step, Close, Answer, ParentDies
  <2>3. ChildInv'
    BY <1>21, Single, Fields DEF IInv, TypeOK, ChildInv, Step, Close, ParentDies
  <2>4. CountInv'
    BY <1>21, Single, Fields DEF IInv, TypeOK, CountInv, Pending, Step, Close, ParentDies
  <2> QED  BY <2>1, <2>2, <2>3, <2>4 DEF IInv
<1>22. CASE UNCHANGED vars
  <2>1. TypeOK'
    BY <1>22, NothingSent, Sendable DEF IInv, TypeOK, vars
  <2>2. ParentInv'
    BY <1>22, Single, Fields DEF IInv, TypeOK, ParentInv, Step, Close, Answer, vars
  <2>3. ChildInv'
    BY <1>22, Single, Fields DEF IInv, TypeOK, ChildInv, Step, Close, vars
  <2>4. CountInv'
    BY <1>22, Single, Fields DEF IInv, TypeOK, CountInv, Pending, Step, Close, vars
  <2> QED  BY <2>1, <2>2, <2>3, <2>4 DEF IInv
<1> QED
  BY <1>1, <1>2, <1>3, <1>4, <1>5, <1>6, <1>7, <1>8, <1>9, <1>10, <1>11, <1>12, <1>13, <1>14, <1>15, <1>16, <1>17, <1>18, <1>19, <1>20, <1>21, <1>22
  DEF Next, Child, Parent, Finishes, Returns

-----------------------------------------------------------------------------
\* The shape of the conversation is an invariant.
THEOREM Invariance == Spec => []IInv
<1> QED  BY InitInv, StepInv, PTL DEF Spec

\* Messages, counters and phases stay in their sets: the bound on requests bounds the steps.
THEOREM TypeCorrect == Spec => []TypeOK
<1>1. IInv => TypeOK
  BY DEF IInv
<1> QED  BY <1>1, Invariance, PTL

\* The next request of _request() finds an empty socket, if it finds a process at all.
THEOREM SocketIsClean == Spec => []NothingLeftOver
<1>1. IInv => NothingLeftOver
  BY DEF IInv, ParentInv, NothingLeftOver
<1> QED  BY <1>1, Invariance, PTL

\* The answer that _request() waits for is the only one it can get: the identifiers that
\* it compares (response_protocol_mismatch in worker.py) never differ.
AnswersMatch == parent = "waiting" /\ toParent # <<>> => Answered(asked)

THEOREM NoMismatch == Spec => []AnswersMatch
<1>1. IInv => AnswersMatch
  BY Single DEF IInv, ParentInv, AnswersMatch, Answered, Answer, Message
<1> QED  BY <1>1, Invariance, PTL

\* A request is counted in full or not at all; whatever the child did for a request that
\* is not counted, its caller has an error or waits, and nothing is done for it after that.
THEOREM StepsCounted == Spec => []StepsAreAccounted
<1>1. IInv => StepsAreAccounted
  <2> SUFFICES ASSUME IInv PROVE StepsAreAccounted
    OBVIOUS
  <2>1. 1..asked \subseteq Requests
    BY RequestsAssumption DEF IInv, TypeOK, Requests
  <2>2. child = "busy" => Head(toChild).id = asked /\ asked \notin failed
    BY Single DEF IInv, ChildInv, CountInv, Pending, Alive, Step, Message
  <2> QED  BY <2>1, <2>2 DEF IInv, CountInv, StepsAreAccounted
<1> QED  BY <1>1, Invariance, PTL

\* close() and a failed constructor leave no process behind.
THEOREM NothingRuns == Spec => []NoProcessLeft
<1>1. IInv => NoProcessLeft
  BY DEF IInv, ParentInv, NoProcessLeft
<1> QED  BY <1>1, Invariance, PTL
=============================================================================
