-------------------------- MODULE AgentAccess_proofs --------------------------
(***************************************************************************)
(* Both sides of the agents' access.  The server: an approval pays once,   *)
(* for any number of runs, threads, sessions and approvals and for every   *)
(* choice of policies.  The client: what becomes of a call and what its    *)
(* caller is told agree, for any number of threads and clients, of repeats *)
(* and of lost requests and answers.                                       *)
(***************************************************************************)
EXTENDS AgentAccess, ApiClient, TLAPS

\* A call that holds an approval: consumed, and not used up yet.
Holds(c) == call[c].pc \in {"log", "act"} /\ call[c].action \in Gated

\* What a call holds was approved for it and has not been spent; no other call holds it.
HeldIsUsed ==
    \A c \in Calls : Holds(c) =>
        LET t == call[c].token
        IN  /\ approval[t].state = "used"
            /\ approval[t].action = call[c].action
            /\ approval[t].run = call[c].run
            /\ spent[t] = 0

HeldAlone == \A c, d \in Calls : Holds(c) /\ Holds(d) /\ call[c].token = call[d].token => c = d

\* What has been spent stays used.
SpentIsUsed == \A t \in Tokens : spent[t] # 0 => spent[t] = 1 /\ approval[t].state = "used"

\* Only the gated actions go through approval, and they act after the log entry.
GatedPath ==
    \A c \in Calls :
        /\ call[c].pc \in {"approve", "log"} => call[c].action \in Gated
        /\ call[c].pc = "act" /\ call[c].action \in Gated => call[c].token \in consumes

IInv == TypeOK /\ HeldIsUsed /\ HeldAlone /\ SpentIsUsed /\ GatedPath /\ SpentIsLogged

-----------------------------------------------------------------------------
LEMMA RunsTypeStep ==
    ASSUME TypeOK, NEW r \in Runs,
           \/ Register(r) \/ RequestPause(r) \/ RequestStop(r) \/ Launch(r) \/ Settle(r)
           \/ \E recovering \in BOOLEAN : Queue(r, recovering)
    PROVE  state' \in [Runs -> RunStatus] /\ busy' \subseteq Runs
  <1> USE DEF TypeOK, RunStatus, Interrupted, Resumable, Goes
  <1>1. CASE Register(r)
    BY <1>1 DEF Register
  <1>2. CASE RequestPause(r)
    BY <1>2 DEF RequestPause
  <1>3. CASE RequestStop(r)
    BY <1>3 DEF RequestStop
  <1>4. CASE Launch(r)
    BY <1>4 DEF Launch
  <1>5. CASE Settle(r)
    BY <1>5 DEF Settle, Endings
  <1>6. CASE \E recovering \in BOOLEAN : Queue(r, recovering)
    BY <1>6 DEF Queue, Recovered
  <1> QED
    BY <1>1, <1>2, <1>3, <1>4, <1>5, <1>6

LEMMA TypeStep == TypeOK /\ [ANext]_avars => TypeOK'
  <1> SUFFICES ASSUME TypeOK, [ANext]_avars
               PROVE  TypeOK'
    OBVIOUS
  <1> USE ActionAssumption DEF TypeOK, pvars
  <1>1. ASSUME NEW s \in Sessions, IssueSession(s) \/ EndSession(s)
        PROVE  TypeOK'
    BY <1>1 DEF IssueSession, EndSession
  <1>2. ASSUME NEW t \in Tokens, NEW action \in Gated \cap Actions, NEW r \in Runs,
               IssueApproval(t, action, r)
        PROVE  TypeOK'
    BY <1>2 DEF IssueApproval, Approval
  <1>3. ASSUME NEW t \in Tokens, HandOut(t)
        PROVE  TypeOK'
    BY <1>3 DEF HandOut
  <1>4. ASSUME NEW t \in Tokens, Expire(t) \/ RevokeApproval(t)
        PROVE  TypeOK'
    BY <1>4 DEF Expire, RevokeApproval, Revocable, Approval, NoApproval
  <1>5. ASSUME NEW c \in Calls, NEW s \in Sessions, NEW action \in Actions, NEW r \in Runs,
               NEW t \in Tokens, Admit(c, s, action, r, t)
        PROVE  TypeOK'
    BY <1>5 DEF Admit, Call
  <1>6. ASSUME NEW c \in Calls, Consume(c)
        PROVE  TypeOK'
    <2>1. call[c] # NoCall /\ call[c].token \in Tokens
      BY <1>6 DEF Consume, Call, NoCall
    <2>2. approval[call[c].token] # NoApproval
      BY <1>6 DEF Consume, Redeemable, NoApproval
    <2>3. approval' \in [Tokens -> Approval]
      BY <1>6, <2>1, <2>2 DEF Consume, Approval
    <2>4. call' \in [Calls -> Call]
      BY <1>6, <2>1 DEF Consume, Goto, Call
    <2> QED
      BY <1>6, <2>3, <2>4 DEF Consume
  <1>7. ASSUME NEW c \in Calls, Refuse(c)
        PROVE  TypeOK'
    BY <1>7 DEF Refuse, Return, Call
  <1>8. ASSUME NEW c \in Calls, LogConsume(c)
        PROVE  TypeOK'
    <2>1. call[c] # NoCall /\ call[c].token \in Tokens
      BY <1>8 DEF LogConsume, Call, NoCall
    <2>2. call' \in [Calls -> Call]
      BY <1>8, <2>1 DEF LogConsume, Goto, Call
    <2> QED
      BY <1>8, <2>1, <2>2 DEF LogConsume
  <1>9. ASSUME NEW c \in Calls, Act(c)
        PROVE  TypeOK'
    <2>1. call[c].run \in Runs
      BY <1>9 DEF Act, Call, NoCall
    <2>2. state' \in [Runs -> RunStatus] /\ busy' \subseteq Runs
      BY <1>9, <2>1, RunsTypeStep DEF Act, Carries
    <2>3. call[c].token \in Tokens
      BY <1>9 DEF Act, Call, NoCall
    <2>4. spent' \in [Tokens -> Nat]
      BY <1>9, <2>3 DEF Act
    <2>5. call' \in [Calls -> Call]
      BY <1>9 DEF Act, Return, Call
    <2> QED
      BY <1>9, <2>2, <2>4, <2>5 DEF Act
  <1>10. CASE Meanwhile
    <2>1. state' \in [Runs -> RunStatus] /\ busy' \subseteq Runs
      BY <1>10, RunsTypeStep DEF Meanwhile
    <2> QED
      BY <1>10, <2>1 DEF Meanwhile, access
  <1>11. CASE Restart
    BY <1>11 DEF Restart, Call, Recovered, RunStatus, Interrupted, Resumable
  <1>12. CASE UNCHANGED avars
    BY <1>12 DEF avars, access
  <1> QED
    BY <1>1, <1>2, <1>3, <1>4, <1>5, <1>6, <1>7, <1>8, <1>9, <1>10, <1>11, <1>12
    DEF ANext, Serve, User

LEMMA InitInv == AInit => IInv
  BY DEF AInit, IInv, TypeOK, HeldIsUsed, HeldAlone, SpentIsUsed, GatedPath, SpentIsLogged,
         Holds, NoCall, NoApproval, Approval, Call, PInit, RunStatus

LEMMA InvStep == IInv /\ [ANext]_avars => IInv'
  <1> SUFFICES ASSUME IInv, [ANext]_avars
               PROVE  IInv'
    OBVIOUS
  <1>0. TypeOK /\ TypeOK'
    BY TypeStep DEF IInv
  <1> DEFINE Rest == HeldIsUsed /\ HeldAlone /\ SpentIsUsed /\ GatedPath /\ SpentIsLogged
  <1> SUFFICES Rest'
    BY <1>0 DEF IInv
  <1> USE <1>0 DEF IInv, HeldIsUsed, HeldAlone, SpentIsUsed, GatedPath, SpentIsLogged, Holds
  <1>1. CASE UNCHANGED <<approval, call, consumes, spent>>
    BY <1>1
  <1>2. ASSUME NEW t \in Tokens, NEW action \in Gated \cap Actions, NEW r \in Runs,
               IssueApproval(t, action, r)
        PROVE  Rest'
    <2>1. approval[t].state # "used"
      BY <1>2 DEF IssueApproval, NoApproval
    <2>2. \A u \in Tokens : approval[u].state = "used" => approval'[u] = approval[u]
      BY <1>2, <2>1 DEF IssueApproval, TypeOK
    <2> QED
      BY <1>2, <2>2 DEF IssueApproval, TypeOK, Call
  <1>3. ASSUME NEW t \in Tokens, Expire(t) \/ RevokeApproval(t)
        PROVE  Rest'
    <2>1. \A u \in Tokens : approval[u].state = "used" => approval'[u] = approval[u]
      BY <1>3 DEF Expire, RevokeApproval, Revocable, TypeOK
    <2>2. UNCHANGED <<call, consumes, spent>>
      BY <1>3 DEF Expire, RevokeApproval
    <2>3. \A c \in Calls : Holds(c) => call[c].token \in Tokens
      BY DEF TypeOK, Call, NoCall
    <2> HIDE DEF IInv
    <2>4. HeldIsUsed'
      BY <2>1, <2>2, <2>3 DEF IInv
    <2>5. SpentIsUsed'
      BY <2>1, <2>2 DEF IInv
    <2> QED
      BY <2>2, <2>4, <2>5 DEF IInv
  <1>4. ASSUME NEW c \in Calls, NEW s \in Sessions, NEW action \in Actions, NEW r \in Runs,
               NEW t \in Tokens, Admit(c, s, action, r, t)
        PROVE  Rest'
    <2>1. \A d \in Calls : Holds(d)' => d # c /\ call'[d] = call[d]
      BY <1>4 DEF Admit, TypeOK
    <2>2. GatedPath'
      BY <1>4 DEF Admit, TypeOK
    <2> QED
      BY <1>4, <2>1, <2>2 DEF Admit
  <1>5. ASSUME NEW c \in Calls, Consume(c)
        PROVE  Rest'
    <2> DEFINE t == call[c].token
    <2>1. t \in Tokens /\ call[c].action \in Gated /\ ~Holds(c)
      BY <1>5 DEF Consume, TypeOK, Call, NoCall
    <2>2. approval[t].state = "open" /\ spent[t] = 0
      BY <1>5, <2>1 DEF Consume, Redeemable
    <2>3. /\ approval'[t].state = "used"
          /\ approval'[t].action = call[c].action /\ approval'[t].run = call[c].run
          /\ \A u \in Tokens : u # t => approval'[u] = approval[u]
      BY <1>5, <2>1 DEF Consume, Redeemable, TypeOK, Approval, NoApproval
    <2>4. /\ call'[c].pc = "log" /\ call'[c].token = t
          /\ call'[c].action = call[c].action /\ call'[c].run = call[c].run
          /\ \A d \in Calls : d # c => call'[d] = call[d]
      BY <1>5 DEF Consume, Goto, TypeOK, Call, NoCall
    <2>5. \A d \in Calls : Holds(d) => call[d].token \in Tokens /\ call[d].token # t
      BY <2>2 DEF TypeOK, Call, NoCall
    <2> QED
      BY <1>5, <2>1, <2>2, <2>3, <2>4, <2>5 DEF Consume
  <1>6. ASSUME NEW c \in Calls, Refuse(c)
        PROVE  Rest'
    BY <1>6 DEF Refuse, Return, TypeOK, NoCall
  <1>7. ASSUME NEW c \in Calls, LogConsume(c)
        PROVE  Rest'
    <2>1. /\ call'[c].pc = "act" /\ call'[c].token = call[c].token
          /\ call'[c].action = call[c].action /\ call'[c].run = call[c].run
          /\ \A d \in Calls : d # c => call'[d] = call[d]
      BY <1>7 DEF LogConsume, Goto, TypeOK, Call, NoCall
    <2> QED
      BY <1>7, <2>1 DEF LogConsume
  <1>8. ASSUME NEW c \in Calls, Act(c)
        PROVE  Rest'
    <2>1. /\ call'[c] = NoCall
          /\ \A d \in Calls : d # c => call'[d] = call[d]
      BY <1>8 DEF Act, Return, TypeOK
    <2>2. CASE call[c].action \notin Gated
      <3>1. UNCHANGED <<approval, consumes, spent>>
        BY <1>8, <2>2 DEF Act
      <3> QED
        BY <2>1, <3>1 DEF NoCall
    <2>3. CASE call[c].action \in Gated
      <3> DEFINE t == call[c].token
      <3>1. t \in Tokens /\ t \in consumes /\ spent[t] = 0 /\ approval[t].state = "used"
        BY <1>8, <2>3 DEF Act, TypeOK, Call, NoCall
      <3>2. /\ UNCHANGED <<approval, consumes>>
            /\ spent'[t] = 1
            /\ \A u \in Tokens : u # t => spent'[u] = spent[u]
        BY <1>8, <2>3, <3>1 DEF Act, TypeOK
      <3>3. \A d \in Calls : d # c /\ Holds(d) => call[d].token \in Tokens /\ call[d].token # t
        BY <1>8, <2>3 DEF Act, TypeOK, Call, NoCall
      <3> QED
        BY <2>1, <3>1, <3>2, <3>3 DEF NoCall
    <2> QED
      BY <2>2, <2>3
  <1>9. CASE Restart
    BY <1>9 DEF Restart, NoCall
  <1> QED
    BY <1>1, <1>2, <1>3, <1>4, <1>5, <1>6, <1>7, <1>8, <1>9
    DEF ANext, Serve, User, IssueSession, EndSession, HandOut, Meanwhile, access, avars

-----------------------------------------------------------------------------
\* Calls, approvals, the log and the runs stay well typed: in particular a session
\* never grants an action the server does not know.
THEOREM TypeCorrect == ASpec => []TypeOK
  <1>1. AInit => TypeOK
    BY InitInv DEF IInv
  <1> QED
    BY <1>1, TypeStep, PTL DEF ASpec

\* The inductive invariant: approvals, the calls that hold them and the action log agree.
THEOREM Invariance == ASpec => []IInv
  BY InitInv, InvStep, PTL DEF ASpec

\* An approval pays for one action at most (mcp_run_command, consume_approval).
THEOREM ApprovalPaysOnce == ASpec => []PaysOnce
  <1>1. IInv => PaysOnce
    BY DEF IInv, SpentIsUsed, PaysOnce, TypeOK
  <1> QED
    BY <1>1, Invariance, PTL

\* A revoked approval was not and will not be used (revoke_approval).
THEOREM Revocation == ASpec => []RevokedIsVoid
  <1>1. IInv => RevokedIsVoid
    BY DEF IInv, HeldIsUsed, SpentIsUsed, Holds, RevokedIsVoid, TypeOK
  <1> QED
    BY <1>1, Invariance, PTL

\* Every action an agent carried out on an approval is in the action log.
THEOREM Audited == ASpec => []SpentIsLogged
  BY Invariance, PTL DEF IInv

\* A call acts on an approval for its own action and run.
THEOREM Approved == ASpec => []ActsAsApproved
  <1>1. IInv => ActsAsApproved
    BY DEF IInv, HeldIsUsed, Holds, ActsAsApproved
  <1> QED
    BY <1>1, Invariance, PTL

-----------------------------------------------------------------------------
(* The clients.                                                            *)

Numbers == Threads \X (1..MaxCalls)
Ends    == {"none", "ok", "refused", "denied", "limited", "unavailable"}
CallRecord ==
    [pc : Phases, n : 0..MaxCalls, attempt : Nat, renew : BOOLEAN, reads : BOOLEAN,
     agent : BOOLEAN, answer : {"none", "ok", "session", "denied"}, refused : Nat]
Request == [from : Threads, n : 1..MaxCalls, attempt : Nat, renew : BOOLEAN, agent : BOOLEAN,
            session : Nat]

ClientTyped ==
    /\ now \in Nat
    /\ clientOf \in [Threads -> DaemonClients]
    /\ held \in [DaemonClients -> [id : Nat, expires : Nat]]
    /\ calls \in [Threads -> CallRecord]
    /\ \A t \in Threads : calls[t].pc # "idle" => calls[t].n \in 1..MaxCalls
    /\ net \subseteq Request
    /\ served \in [Numbers -> Nat]
    /\ result \in [Numbers -> [how : Ends, reads : BOOLEAN]]

\* Requests of a call that are on their way; one that writes has one at most.
Quiet(x) == \A m \in net : <<m.from, m.n>> # x
Once(x)  == \A m, o \in net : <<m.from, m.n>> = x /\ <<o.from, o.n>> = x => m = o

\* What may become of a call: nothing any more, or one time at most.
Undone(x) == served[x] = 0 /\ Quiet(x)
Done(x)   == served[x] = 1 /\ Quiet(x)
Pending(x) == \/ served[x] = 0 /\ Once(x)
              \/ served[x] <= 1 /\ Quiet(x)

\* A call that is under way, and the ones that the thread has not made yet.
Current(t) ==
    LET k == calls[t]
        x == <<t, k.n>>
    IN  /\ \A n \in 1..MaxCalls : n > k.n => Undone(<<t, n>>) /\ result[<<t, n>>].how = "none"
        /\ k.pc # "idle" =>
              /\ result[x].how = "none"
              /\ k.reads /\ k.pc = "answered" /\ k.answer = "ok" => served[x] >= 1
              /\ ~k.reads /\ k.pc \in {"request", "create", "renew", "send"} => Undone(x)
              /\ ~k.reads /\ k.pc = "sent" => Pending(x)
              /\ ~k.reads /\ k.pc = "answered" /\ k.answer = "ok" => Done(x)
              /\ ~k.reads /\ k.pc = "answered" /\ k.answer \in {"session", "denied"} => Undone(x)

\* What was told about a call that has ended.
Told(x) ==
    LET r == result[x]
    IN  /\ r.how = "ok" /\ r.reads => served[x] >= 1
        /\ r.how = "ok" /\ ~r.reads => Done(x)
        /\ r.how \in {"refused", "denied", "limited"} /\ ~r.reads => Undone(x)
        /\ r.how = "unavailable" /\ ~r.reads => Pending(x)

CallsInv == (\A t \in Threads : Current(t)) /\ (\A x \in Numbers : Told(x))

\* A request is repeated for a session by an agent only, with a session that differs from
\* the one that was not accepted, unless another thread has put its own in its place.
Renewed(t) ==
    LET k == calls[t]
    IN  k.pc # "idle" =>
          /\ k.answer = "session" \/ ~k.renew => k.agent
          /\ \A m \in net : m.from = t /\ m.n = k.n =>
                /\ m.agent = k.agent
                /\ ~m.renew => ~k.renew
                /\ ~m.renew /\ Alone(t) => m.session \notin {0, k.refused}
          /\ ~k.renew /\ Alone(t) =>
                /\ Session(t).id = 0 \/ Session(t).id # k.refused
                /\ k.pc = "send" => Session(t).id # 0

RenewedInv == \A t \in Threads : Renewed(t)

ClientInv == ClientTyped /\ CallsInv /\ RenewedInv

LEMMA ClientInit == Init => ClientInv
<1>. SUFFICES ASSUME Init PROVE ClientInv
  OBVIOUS
<1>1. ClientTyped
  BY LimitsAssumption DEF Init, ClientTyped, Numbers, Ends, CallRecord, Phases, Idle, NoSession, NoResult, Request
<1>2. /\ \A t \in Threads : calls[t].pc = "idle" /\ calls[t].n = 0
      /\ \A x \in Numbers : served[x] = 0 /\ result[x].how = "none"
      /\ \A x : Quiet(x)
  BY DEF Init, Idle, NoResult, Numbers, Quiet
<1>3. CallsInv
  <2>1. ASSUME NEW t \in Threads PROVE Current(t)
    BY <1>2 DEF Current, Undone, Numbers
  <2>2. ASSUME NEW x \in Numbers PROVE Told(x)
    BY <1>2 DEF Told
  <2>. QED
    BY <2>1, <2>2 DEF CallsInv
<1>4. RenewedInv
  BY <1>2 DEF RenewedInv, Renewed
<1>. QED
  BY <1>1, <1>3, <1>4 DEF ClientInv

\* What the step of one thread leaves to the others.
Only(t) ==
    /\ \A u \in Threads \ {t} : calls'[u] = calls[u]
    /\ \A u \in Threads \ {t}, n \in 1..MaxCalls :
          served'[<<u, n>>] = served[<<u, n>>] /\ result'[<<u, n>>] = result[<<u, n>>]
    /\ \A m \in Request : m.from # t => (m \in net' <=> m \in net)
    /\ clientOf' = clientOf
    /\ \A u \in Threads \ {t} :
          clientOf[u] # clientOf[t] => held'[clientOf[u]] = held[clientOf[u]]

LEMMA OthersKeep ==
    ASSUME ClientInv, ClientTyped', NEW t \in Threads, Only(t), NEW u \in Threads \ {t}
    PROVE  Current(u)' /\ Renewed(u)' /\ \A n \in 1..MaxCalls : Told(<<u, n>>)'
<1>1. /\ net \subseteq Request /\ net' \subseteq Request /\ calls'[u] = calls[u] /\ u # t
      /\ calls[u].n \in 0..MaxCalls /\ (calls[u].pc # "idle" => calls[u].n \in 1..MaxCalls)
  BY DEF ClientInv, ClientTyped, Only, CallRecord
<1>2. \A m \in Request : m.from = u => (m \in net' <=> m \in net)
  BY <1>1 DEF Only
<1>3. ASSUME NEW n \in 1..MaxCalls
      PROVE  /\ served'[<<u, n>>] = served[<<u, n>>] /\ result'[<<u, n>>] = result[<<u, n>>]
             /\ Quiet(<<u, n>>)' <=> Quiet(<<u, n>>)
             /\ Once(<<u, n>>)' <=> Once(<<u, n>>)
  <2>1. Quiet(<<u, n>>)' <=> Quiet(<<u, n>>)
    BY <1>1, <1>2 DEF Quiet
  <2>2. Once(<<u, n>>)' <=> Once(<<u, n>>)
    BY <1>1, <1>2 DEF Once
  <2>. QED
    BY <2>1, <2>2 DEF Only
<1>4. ASSUME NEW n \in 1..MaxCalls
      PROVE  /\ Undone(<<u, n>>)' <=> Undone(<<u, n>>)
             /\ Done(<<u, n>>)' <=> Done(<<u, n>>)
             /\ Pending(<<u, n>>)' <=> Pending(<<u, n>>)
  BY <1>3 DEF Undone, Done, Pending
<1>5. Current(u)'
  <2>1. Current(u)
    BY DEF ClientInv, CallsInv
  <2>. QED
    BY <1>1, <1>3, <1>4, <2>1 DEF Current
<1>6. Renewed(u)'
  <2>1. Renewed(u)
    BY DEF ClientInv, RenewedInv
  <2>2. Alone(u)' <=> Alone(u)
    BY DEF Alone, Only
  <2>3. Alone(u) => Session(u)' = Session(u)
    BY <1>1 DEF Alone, Only, Session
  <2>4. \A m \in net' : m.from = u => m \in net
    BY <1>1, <1>2
  <2>. QED
    BY <1>1, <2>1, <2>2, <2>3, <2>4 DEF Renewed
<1>7. ASSUME NEW n \in 1..MaxCalls PROVE Told(<<u, n>>)'
  <2>1. Told(<<u, n>>)
    BY DEF ClientInv, CallsInv, Numbers
  <2>. QED
    BY <1>3, <1>4, <2>1 DEF Told
<1>. QED
  BY <1>5, <1>6, <1>7

\* So a step is sound if it is for the thread that makes it.
LEMMA OneKeeps ==
    ASSUME ClientInv, ClientTyped', NEW t \in Threads, Only(t),
           Current(t)', Renewed(t)', \A n \in 1..MaxCalls : Told(<<t, n>>)'
    PROVE  ClientInv'
<1>1. \A u \in Threads : Current(u)' /\ Renewed(u)' /\ \A n \in 1..MaxCalls : Told(<<u, n>>)'
  BY OthersKeep
<1>2. ASSUME NEW x \in Numbers PROVE Told(x)'
  <2>1. PICK u \in Threads, n \in 1..MaxCalls : x = <<u, n>>
    BY DEF Numbers
  <2>. QED
    BY <1>1, <2>1
<1>3. CallsInv' /\ RenewedInv'
  BY <1>1, <1>2 DEF CallsInv, RenewedInv
<1>. QED
  BY <1>3 DEF ClientInv

\* The thread itself, while nothing is sent or served and no call ends.
LEMMA Unsent ==
    ASSUME net' = net, served' = served, NEW x
    PROVE  /\ Undone(x)' <=> Undone(x)
           /\ Done(x)' <=> Done(x)
           /\ Pending(x)' <=> Pending(x)
  BY DEF Undone, Done, Pending, Quiet, Once

LEMMA Moves ==
    ASSUME ClientTyped, NEW t \in Threads, NEW k \in CallRecord, calls' = [calls EXCEPT ![t] = k]
    PROVE  /\ calls' \in [Threads -> CallRecord] /\ calls'[t] = k
           /\ \A u \in Threads \ {t} : calls'[u] = calls[u]
  BY DEF ClientTyped

LEMMA Fields ==
    ASSUME ClientTyped, NEW t \in Threads
    PROVE  /\ calls[t] \in CallRecord
           /\ calls[t].pc \in Phases /\ calls[t].n \in 0..MaxCalls /\ calls[t].attempt \in Nat
           /\ calls[t].renew \in BOOLEAN /\ calls[t].reads \in BOOLEAN /\ calls[t].agent \in BOOLEAN
           /\ calls[t].answer \in {"none", "ok", "session", "denied"} /\ calls[t].refused \in Nat
           /\ calls[t].pc # "idle" => calls[t].n \in 1..MaxCalls
           /\ Session(t).id \in Nat /\ Session(t).expires \in Nat
           /\ \A n \in 1..MaxCalls : <<t, n>> \in Numbers
  BY DEF ClientTyped, CallRecord, Session, Numbers

LEMMA BeginKeeps ==
    ASSUME ClientInv, NEW t \in Threads, Begin(t)
    PROVE  ClientInv'
<1>. PICK k : k = calls[t]
  OBVIOUS
<1>0. /\ ClientTyped /\ Current(t) /\ Renewed(t) /\ \A n \in 1..MaxCalls : Told(<<t, n>>)
      /\ k \in CallRecord /\ k.n \in 0..MaxCalls
  BY Fields DEF ClientInv, CallsInv, RenewedInv, Numbers
<1>1. PICK reads \in BOOLEAN, agent \in BOOLEAN :
        calls' = [calls EXCEPT ![t] = [Idle(@.n + 1) EXCEPT !.pc = "request", !.renew = TRUE,
                                                            !.reads = reads, !.agent = agent]]
  BY DEF Begin
<1>. DEFINE c == [Idle(k.n + 1) EXCEPT !.pc = "request", !.renew = TRUE, !.reads = reads, !.agent = agent]
<1>2. k.n + 1 \in 1..MaxCalls
  BY <1>0, LimitsAssumption DEF Begin
<1>3. c \in CallRecord
  <2>1. k.n + 1 \in 0..MaxCalls
    BY <1>2
  <2>2. PICK n : n = k.n + 1
    OBVIOUS
  <2>. QED
    BY <2>1, <2>2 DEF CallRecord, Phases, Idle
<1>4. calls' = [calls EXCEPT ![t] = c]
  BY <1>0, <1>1
<1>5. /\ calls' \in [Threads -> CallRecord] /\ calls'[t] = c
      /\ \A u \in Threads \ {t} : calls'[u] = calls[u]
  BY <1>0, <1>3, <1>4, Moves
<1>6. /\ now' = now /\ clientOf' = clientOf /\ held' = held /\ result' = result /\ net' = net
      /\ served' = served
  BY DEF Begin, server
<1>7. /\ c.pc = "request" /\ c.n = k.n + 1 /\ c.renew /\ c.answer = "none" /\ c.reads = reads
  BY DEF Idle
<1>. HIDE DEF c
<1>8. ClientTyped'
  <2>1. \A u \in Threads : calls'[u].pc # "idle" => calls'[u].n \in 1..MaxCalls
    BY <1>0, <1>2, <1>5, <1>7 DEF ClientTyped
  <2>. QED
    BY <1>0, <1>5, <1>6, <2>1 DEF ClientTyped
<1>9. Only(t)
  BY <1>5, <1>6 DEF Only
<1>10. /\ Undone(<<t, k.n + 1>>) /\ result[<<t, k.n + 1>>].how = "none"
       /\ \A n \in 1..MaxCalls : n > k.n + 1 => Undone(<<t, n>>) /\ result[<<t, n>>].how = "none"
  BY <1>0, <1>2 DEF Current
<1>11. Current(t)'
  <2>1. \A n \in 1..MaxCalls : n > c.n => Undone(<<t, n>>)' /\ result'[<<t, n>>].how = "none"
    BY <1>6, <1>7, <1>10, Unsent
  <2>2. Undone(<<t, c.n>>)' /\ result'[<<t, c.n>>].how = "none"
    BY <1>6, <1>7, <1>10, Unsent
  <2>. QED
    BY <1>5, <1>7, <2>1, <2>2 DEF Current
<1>12. Renewed(t)'
  <2>1. \A m \in net' : ~(m.from = t /\ m.n = c.n)
    BY <1>6, <1>7, <1>10 DEF Undone, Quiet
  <2>. QED
    BY <1>5, <1>7, <2>1 DEF Renewed
<1>13. \A n \in 1..MaxCalls : Told(<<t, n>>)'
  BY <1>0, <1>6, Unsent DEF Told
<1>. QED
  BY <1>8, <1>9, <1>11, <1>12, <1>13, OneKeeps

\* A call goes on with another phase and sends nothing.
LEMMA PhaseKeeps ==
    ASSUME ClientInv, NEW t \in Threads, NEW c \in CallRecord, calls' = [calls EXCEPT ![t] = c],
           net' = net, served' = served, result' = result, clientOf' = clientOf, now' = now,
           held' \in [DaemonClients -> [id : Nat, expires : Nat]],
           \A k \in DaemonClients : k # clientOf[t] => held'[k] = held[k],
           calls[t].pc # "idle", c.pc \in {"request", "create", "renew", "send"},
           c.n = calls[t].n, c.reads = calls[t].reads, c.agent = calls[t].agent,
           c.refused = calls[t].refused,
           ~c.reads => Undone(<<t, c.n>>),
           c.answer = "session" \/ ~c.renew => c.agent,
           ~calls[t].renew => ~c.renew,
           ~c.renew /\ Alone(t) => LET s == held'[clientOf[t]] IN
              /\ s.id = 0 \/ s.id # c.refused
              /\ c.pc = "send" => s.id # 0
    PROVE  ClientInv'
<1>. PICK k : k = calls[t]
  OBVIOUS
<1>0. /\ ClientTyped /\ Current(t) /\ Renewed(t) /\ \A n \in 1..MaxCalls : Told(<<t, n>>)
      /\ k.n \in 1..MaxCalls
  BY Fields DEF ClientInv, CallsInv, RenewedInv, Numbers
<1>1. /\ calls' \in [Threads -> CallRecord] /\ calls'[t] = c
      /\ \A u \in Threads \ {t} : calls'[u] = calls[u]
  BY <1>0, Moves
<1>2. ClientTyped'
  <2>1. \A u \in Threads : calls'[u].pc # "idle" => calls'[u].n \in 1..MaxCalls
    BY <1>0, <1>1 DEF ClientTyped
  <2>. QED
    BY <1>0, <1>1, <2>1 DEF ClientTyped
<1>3. Only(t)
  BY <1>0, <1>1 DEF Only, ClientTyped
<1>4. Current(t)'
  <2>1. \A n \in 1..MaxCalls : n > c.n => Undone(<<t, n>>)' /\ result'[<<t, n>>].how = "none"
    BY <1>0, Unsent DEF Current
  <2>2. (~c.reads => Undone(<<t, c.n>>)') /\ result'[<<t, c.n>>].how = "none"
    BY <1>0, Unsent DEF Current
  <2>. QED
    BY <1>1, <2>1, <2>2 DEF Current
<1>5. Renewed(t)'
  <2>1. Alone(t)' <=> Alone(t)
    BY DEF Alone
  <2>2. \A m \in net' : m.from = t /\ m.n = c.n =>
           /\ m.agent = c.agent
           /\ ~m.renew => ~c.renew
           /\ ~m.renew /\ Alone(t) => m.session \notin {0, c.refused}
    BY <1>0 DEF Renewed
  <2>3. Session(t)' = held'[clientOf[t]]
    BY DEF Session
  <2>. QED
    BY <1>1, <2>1, <2>2, <2>3 DEF Renewed
<1>6. \A n \in 1..MaxCalls : Told(<<t, n>>)'
  BY <1>0, Unsent DEF Told
<1>. QED
  BY <1>2, <1>3, <1>4, <1>5, <1>6, OneKeeps

\* A call ends, and what it tells is what has become of it.
LEMMA FinishKeeps ==
    ASSUME ClientInv, NEW t \in Threads, NEW how \in Ends, Finish(t, how),
           net' = net, served' = served, held' = held, clientOf' = clientOf, now' = now,
           calls[t].pc # "idle",
           LET k == calls[t]   x == <<t, k.n>> IN
              /\ how = "ok" /\ k.reads => served[x] >= 1
              /\ how = "ok" /\ ~k.reads => Done(x)
              /\ how \in {"refused", "denied", "limited"} /\ ~k.reads => Undone(x)
              /\ how = "unavailable" /\ ~k.reads => Pending(x)
    PROVE  ClientInv'
<1>. PICK k : k = calls[t]
  OBVIOUS
<1>0. /\ ClientTyped /\ Current(t) /\ Renewed(t) /\ \A n \in 1..MaxCalls : Told(<<t, n>>)
      /\ k \in CallRecord /\ k.n \in 1..MaxCalls /\ k.reads \in BOOLEAN
      /\ \A n \in 1..MaxCalls : <<t, n>> \in Numbers
  BY Fields DEF ClientInv, CallsInv, RenewedInv, Numbers
<1>1. Idle(k.n) \in CallRecord /\ Idle(k.n).pc = "idle" /\ Idle(k.n).n = k.n
  BY <1>0 DEF Idle, CallRecord, Phases
<1>2. /\ calls' \in [Threads -> CallRecord] /\ calls'[t] = Idle(k.n)
      /\ \A u \in Threads \ {t} : calls'[u] = calls[u]
  BY <1>0, <1>1, Moves DEF Finish
<1>3. /\ result' \in [Numbers -> [how : Ends, reads : BOOLEAN]]
      /\ result'[<<t, k.n>>] = [how |-> how, reads |-> k.reads]
      /\ \A x \in Numbers : x # <<t, k.n>> => result'[x] = result[x]
  BY <1>0 DEF Finish, ClientTyped
<1>4. ClientTyped'
  <2>1. \A u \in Threads : calls'[u].pc # "idle" => calls'[u].n \in 1..MaxCalls
    BY <1>0, <1>1, <1>2 DEF ClientTyped
  <2>. QED
    BY <1>0, <1>2, <1>3, <2>1 DEF ClientTyped
<1>5. Only(t)
  <2>1. \A u \in Threads \ {t}, n \in 1..MaxCalls : result'[<<u, n>>] = result[<<u, n>>]
    BY <1>3 DEF Numbers
  <2>. QED
    BY <1>2, <2>1 DEF Only
<1>6. Current(t)'
  <2>1. \A n \in 1..MaxCalls : n > k.n => Undone(<<t, n>>)' /\ result'[<<t, n>>].how = "none"
    BY <1>0, <1>3, Unsent DEF Current
  <2>. QED
    BY <1>1, <1>2, <2>1 DEF Current
<1>7. Renewed(t)'
  BY <1>1, <1>2 DEF Renewed
<1>8. ASSUME NEW n \in 1..MaxCalls PROVE Told(<<t, n>>)'
  <2>1. CASE n = k.n
    BY <1>3, <2>1, Unsent DEF Told
  <2>2. CASE n # k.n
    <3>1. result'[<<t, n>>] = result[<<t, n>>]
      BY <1>0, <1>3, <2>2
    <3>. QED
      BY <1>0, <3>1, Unsent DEF Told
  <2>. QED
    BY <2>1, <2>2
<1>. QED
  BY <1>4, <1>5, <1>6, <1>7, <1>8, OneKeeps

LEMMA CheckKeeps ==
    ASSUME ClientInv, NEW t \in Threads, Check(t)
    PROVE  ClientInv'
<1>. PICK k : k = calls[t]
  OBVIOUS
<1>. DEFINE p == IF k.agent /\ (Session(t).id = 0 \/ Session(t).expires <= now + Margin)
                 THEN "create" ELSE "send"
            c == [k EXCEPT !.pc = p]
<1>0. /\ ClientTyped /\ Current(t) /\ Renewed(t) /\ k \in CallRecord /\ k.pc = "request"
      /\ clientOf[t] \in DaemonClients /\ k.agent \in BOOLEAN
  BY Fields DEF ClientInv, CallsInv, RenewedInv, Check, ClientTyped
<1>1. p \in {"create", "send"} /\ (p = "send" => ~k.agent \/ Session(t).id # 0)
  BY <1>0
<1>2. /\ calls' = [calls EXCEPT ![t] = c] /\ held' = held
      /\ now' = now /\ clientOf' = clientOf /\ result' = result /\ net' = net /\ served' = served
  BY DEF Check
<1>. HIDE DEF p
<1>3. /\ c \in CallRecord /\ c.pc = p /\ c.n = k.n /\ c.reads = k.reads /\ c.agent = k.agent
      /\ c.refused = k.refused /\ c.renew = k.renew /\ c.answer = k.answer
  BY <1>0, <1>1 DEF CallRecord, Phases
<1>. HIDE DEF c
<1>4. ~c.reads => Undone(<<t, c.n>>)
  BY <1>0, <1>3 DEF Current
<1>5. c.answer = "session" \/ ~c.renew => c.agent
  BY <1>0, <1>3 DEF Renewed
<1>6. ~c.renew /\ Alone(t) =>
        /\ Session(t).id = 0 \/ Session(t).id # c.refused
        /\ c.pc = "send" => Session(t).id # 0
  BY <1>0, <1>1, <1>3 DEF Renewed
<1>. QED
  BY <1>0, <1>1, <1>2, <1>3, <1>4, <1>5, <1>6, PhaseKeeps DEF Session, ClientTyped

LEMMA CreateKeeps ==
    ASSUME ClientInv, NEW t \in Threads, CreateSession(t)
    PROVE  ClientInv'
<1>. PICK k : k = calls[t]
  OBVIOUS
<1>0. /\ ClientTyped /\ Current(t) /\ Renewed(t) /\ k \in CallRecord /\ k.pc \in {"create", "renew"}
      /\ clientOf[t] \in DaemonClients /\ k.n \in 1..MaxCalls
  BY Fields DEF ClientInv, CallsInv, RenewedInv, CreateSession, ClientTyped
<1>1. now' = now /\ clientOf' = clientOf /\ net' = net /\ served' = served
  BY DEF CreateSession
<1>2. ~k.reads => Undone(<<t, k.n>>) /\ Pending(<<t, k.n>>)
  BY <1>0 DEF Current, Undone, Pending
<1>3. CASE held' = held /\ (Finish(t, "limited") \/ Finish(t, "unavailable"))
  <2>1. "limited" \in Ends /\ "unavailable" \in Ends /\ k.pc # "idle"
    BY <1>0 DEF Ends
  <2>. QED
    BY <1>1, <1>2, <1>3, <2>1, FinishKeeps
<1>4. CASE \E id \in Unknown :
              /\ held' = [held EXCEPT ![clientOf[t]] = [id |-> id, expires |-> now + Ttl]]
              /\ calls' = [calls EXCEPT ![t].pc = IF @ = "renew" THEN "request" ELSE "send"]
              /\ UNCHANGED result
  <2>1. PICK id \in Unknown :
              /\ held' = [held EXCEPT ![clientOf[t]] = [id |-> id, expires |-> now + Ttl]]
              /\ calls' = [calls EXCEPT ![t].pc = IF @ = "renew" THEN "request" ELSE "send"]
              /\ UNCHANGED result
    BY <1>4
  <2>2. id \in Nat /\ id # 0 /\ id # k.refused
    BY LimitsAssumption DEF Unknown, Known
  <2>. DEFINE p == IF k.pc = "renew" THEN "request" ELSE "send"
              c == [k EXCEPT !.pc = p]
  <2>3. calls' = [calls EXCEPT ![t] = c] /\ p \in {"request", "send"}
    BY <2>1
  <2>. HIDE DEF p
  <2>4. /\ c \in CallRecord /\ c.pc = p /\ c.n = k.n /\ c.reads = k.reads /\ c.agent = k.agent
        /\ c.refused = k.refused /\ c.renew = k.renew /\ c.answer = k.answer
    BY <1>0, <2>3 DEF CallRecord, Phases
  <2>. HIDE DEF c
  <2>5. /\ held' \in [DaemonClients -> [id : Nat, expires : Nat]]
        /\ held'[clientOf[t]].id = id
        /\ \A d \in DaemonClients : d # clientOf[t] => held'[d] = held[d]
    <3>1. [id |-> id, expires |-> now + Ttl] \in [id : Nat, expires : Nat]
      BY <1>0, <2>2, LimitsAssumption DEF ClientTyped
    <3>. QED
      BY <1>0, <2>1, <3>1 DEF ClientTyped
  <2>6. c.answer = "session" \/ ~c.renew => c.agent
    BY <1>0, <2>4 DEF Renewed
  <2>7. /\ c.pc \in {"request", "create", "renew", "send"} /\ calls[t].pc # "idle"
        /\ ~c.reads => Undone(<<t, c.n>>)
        /\ ~calls[t].renew => ~c.renew
    BY <1>0, <1>2, <2>3, <2>4
  <2>8. ~c.renew /\ Alone(t) => LET s == held'[clientOf[t]] IN
           /\ s.id = 0 \/ s.id # c.refused
           /\ c.pc = "send" => s.id # 0
    BY <2>2, <2>4, <2>5
  <2>9. result' = result
    BY <2>1
  <2>. QED
    BY <1>1, <2>3, <2>4, <2>5, <2>6, <2>7, <2>8, <2>9, PhaseKeeps
<1>. QED
  BY <1>3, <1>4 DEF CreateSession

\* The request is the only one of its call that is on its way, if it writes.
LEMMA SendKeeps ==
    ASSUME ClientInv, NEW t \in Threads, Send(t)
    PROVE  ClientInv'
<1>. PICK k : k = calls[t]
  OBVIOUS
<1>. DEFINE id == IF k.agent THEN Session(t).id ELSE 0
            r  == IF k.renew THEN id ELSE k.refused
            c  == [k EXCEPT !.pc = "sent", !.refused = r]
            m  == [from |-> t, n |-> k.n, attempt |-> k.attempt, renew |-> k.renew,
                   agent |-> k.agent, session |-> id]
<1>0. /\ ClientTyped /\ Current(t) /\ Renewed(t) /\ \A n \in 1..MaxCalls : Told(<<t, n>>)
      /\ k \in CallRecord /\ k.pc = "send" /\ k.n \in 1..MaxCalls
      /\ k.agent \in BOOLEAN /\ k.renew \in BOOLEAN /\ k.attempt \in Nat /\ k.refused \in Nat
      /\ clientOf[t] \in DaemonClients
      /\ \A n \in 1..MaxCalls : <<t, n>> \in Numbers
  BY Fields DEF ClientInv, CallsInv, RenewedInv, Send, ClientTyped, Numbers
<1>1. id \in Nat /\ r \in Nat
  BY <1>0, Fields
<1>2. /\ calls' = [calls EXCEPT ![t] = c] /\ net' = net \cup {m}
      /\ now' = now /\ clientOf' = clientOf /\ result' = result /\ held' = held /\ served' = served
  BY DEF Send
<1>3. m \in Request /\ m.from = t /\ m.n = k.n /\ m.agent = k.agent /\ m.renew = k.renew /\ m.session = id
  BY <1>0, <1>1 DEF Request
<1>4. /\ (k.renew => r = id) /\ (~k.renew => r = k.refused)
      /\ (k.agent => id = Session(t).id)
  OBVIOUS
<1>. HIDE DEF id, r, m
<1>5. /\ c \in CallRecord /\ c.pc = "sent" /\ c.n = k.n /\ c.reads = k.reads /\ c.agent = k.agent
      /\ c.refused = r /\ c.renew = k.renew /\ c.answer = k.answer
  BY <1>0, <1>1 DEF CallRecord, Phases
<1>. HIDE DEF c
<1>6. /\ calls' \in [Threads -> CallRecord] /\ calls'[t] = c
      /\ \A u \in Threads \ {t} : calls'[u] = calls[u]
  BY <1>0, <1>2, <1>5, Moves
<1>7. ClientTyped'
  <2>1. \A u \in Threads : calls'[u].pc # "idle" => calls'[u].n \in 1..MaxCalls
    BY <1>0, <1>5, <1>6 DEF ClientTyped
  <2>2. net' \subseteq Request
    BY <1>0, <1>2, <1>3 DEF ClientTyped
  <2>. QED
    BY <1>0, <1>2, <1>6, <2>1, <2>2 DEF ClientTyped
<1>8. Only(t)
  BY <1>2, <1>3, <1>6 DEF Only
<1>9. ASSUME NEW n \in 1..MaxCalls, n # k.n
      PROVE  /\ Quiet(<<t, n>>)' <=> Quiet(<<t, n>>)
             /\ Once(<<t, n>>)' <=> Once(<<t, n>>)
  <2>1. \A o \in net' : <<o.from, o.n>> = <<t, n>> <=> o \in net /\ <<o.from, o.n>> = <<t, n>>
    BY <1>2, <1>3, <1>9
  <2>2. Quiet(<<t, n>>)' <=> Quiet(<<t, n>>)
    BY <1>2, <2>1 DEF Quiet
  <2>3. Once(<<t, n>>)' <=> Once(<<t, n>>)
    BY <1>2, <2>1 DEF Once
  <2>. QED
    BY <2>2, <2>3
<1>10. Current(t)'
  <2>1. \A n \in 1..MaxCalls : n > k.n => Undone(<<t, n>>)' /\ result'[<<t, n>>].how = "none"
    BY <1>0, <1>2, <1>9 DEF Current, Undone
  <2>2. ~k.reads => Pending(<<t, k.n>>)'
    <3>. SUFFICES ASSUME ~k.reads PROVE Pending(<<t, k.n>>)'
      OBVIOUS
    <3>1. Undone(<<t, k.n>>)
      BY <1>0 DEF Current
    <3>2. Once(<<t, k.n>>)'
      BY <1>2, <3>1 DEF Undone, Quiet, Once
    <3>. QED
      BY <1>2, <3>1, <3>2 DEF Undone, Pending
  <2>3. result'[<<t, k.n>>].how = "none"
    BY <1>0, <1>2 DEF Current
  <2>. QED
    BY <1>5, <1>6, <2>1, <2>2, <2>3 DEF Current
<1>11. Renewed(t)'
  <2>1. (Alone(t)' <=> Alone(t)) /\ Session(t)' = Session(t)
    BY <1>2 DEF Alone, Session
  <2>2. c.answer = "session" \/ ~c.renew => c.agent
    BY <1>0, <1>5 DEF Renewed
  <2>3. ASSUME NEW o \in net', o.from = t, o.n = k.n
        PROVE  /\ o.agent = k.agent
               /\ ~o.renew => ~k.renew
               /\ ~o.renew /\ Alone(t) => o.session \notin {0, r}
    <3>1. CASE o \in net
      BY <1>0, <1>4, <2>3, <3>1 DEF Renewed
    <3>2. CASE o = m
      BY <1>0, <1>3, <1>4, <3>2 DEF Renewed
    <3>. QED
      BY <1>2, <3>1, <3>2
  <2>4. ~c.renew /\ Alone(t) => Session(t).id = 0 \/ Session(t).id # r
    BY <1>0, <1>4, <1>5 DEF Renewed
  <2>. QED
    BY <1>5, <1>6, <2>1, <2>2, <2>3, <2>4 DEF Renewed
<1>12. ASSUME NEW n \in 1..MaxCalls PROVE Told(<<t, n>>)'
  <2>1. CASE n = k.n
    BY <1>0, <1>2, <2>1 DEF Told, Current
  <2>2. CASE n # k.n
    BY <1>0, <1>2, <1>9, <2>2 DEF Told, Done, Undone, Pending
  <2>. QED
    BY <2>1, <2>2
<1>. QED
  BY <1>7, <1>8, <1>10, <1>11, <1>12, OneKeeps

LEMMA NetworkErrorKeeps ==
    ASSUME ClientInv, NEW t \in Threads, NetworkError(t)
    PROVE  ClientInv'
<1>. PICK k : k = calls[t]
  OBVIOUS
<1>0. /\ ClientTyped /\ Current(t) /\ Renewed(t) /\ k \in CallRecord /\ k.pc = "sent"
      /\ clientOf[t] \in DaemonClients /\ k.n \in 1..MaxCalls /\ k.attempt \in Nat
  BY Fields DEF ClientInv, CallsInv, RenewedInv, NetworkError, ClientTyped
<1>1. /\ now' = now /\ clientOf' = clientOf /\ held' = held /\ net' = net /\ served' = served
  BY DEF NetworkError, server
<1>2. CASE Repeats(t) /\ result' = result
           /\ calls' = [calls EXCEPT ![t].pc = "request", ![t].attempt = @ + 1]
  <2>. PICK a \in Nat : a = k.attempt + 1
    BY <1>0
  <2>. DEFINE c == [k EXCEPT !.pc = "request", !.attempt = a]
  <2>1. calls' = [calls EXCEPT ![t] = c]
    BY <1>2
  <2>2. /\ c \in CallRecord /\ c.pc = "request" /\ c.n = k.n /\ c.reads = k.reads /\ c.agent = k.agent
        /\ c.refused = k.refused /\ c.renew = k.renew /\ c.answer = k.answer
    BY <1>0 DEF CallRecord, Phases
  <2>. HIDE DEF c
  <2>3. c.reads
    BY <1>2, <2>2 DEF Repeats
  <2>4. c.answer = "session" \/ ~c.renew => c.agent
    BY <1>0, <2>2 DEF Renewed
  <2>5. ~c.renew /\ Alone(t) => held[clientOf[t]].id = 0 \/ held[clientOf[t]].id # c.refused
    BY <1>0, <2>2 DEF Renewed, Session
  <2>. QED
    BY <1>0, <1>1, <1>2, <2>1, <2>2, <2>3, <2>4, <2>5, PhaseKeeps DEF ClientTyped
<1>3. CASE ~Repeats(t) /\ Finish(t, "unavailable")
  <2>1. "unavailable" \in Ends /\ (~k.reads => Pending(<<t, k.n>>))
    BY <1>0 DEF Ends, Current
  <2>. QED
    BY <1>0, <1>1, <1>3, <2>1, FinishKeeps
<1>. QED
  BY <1>2, <1>3 DEF NetworkError

LEMMA ReceiveKeeps ==
    ASSUME ClientInv, NEW t \in Threads, Receive(t)
    PROVE  ClientInv'
<1>. PICK k : k = calls[t]
  OBVIOUS
<1>0. /\ ClientTyped /\ Current(t) /\ Renewed(t) /\ k \in CallRecord /\ k.pc = "answered"
      /\ clientOf[t] \in DaemonClients /\ k.n \in 1..MaxCalls
  BY Fields DEF ClientInv, CallsInv, RenewedInv, Receive, ClientTyped
<1>1. /\ now' = now /\ clientOf' = clientOf /\ net' = net /\ served' = served
  BY DEF Receive, server
<1>2. CASE k.answer = "ok" /\ Finish(t, "ok") /\ held' = held
  <2>1. "ok" \in Ends /\ (k.reads => served[<<t, k.n>>] >= 1) /\ (~k.reads => Done(<<t, k.n>>))
    BY <1>0, <1>2 DEF Ends, Current
  <2>. QED
    BY <1>0, <1>1, <1>2, <2>1, FinishKeeps
<1>3. CASE k.answer = "session" /\ k.renew /\ Renew(t) /\ result' = result
  <2>. DEFINE c == [k EXCEPT !.pc = "renew", !.renew = FALSE, !.answer = "none"]
  <2>1. calls' = [calls EXCEPT ![t] = c]
    BY <1>3 DEF Renew
  <2>2. /\ c \in CallRecord /\ c.pc = "renew" /\ c.n = k.n /\ c.reads = k.reads /\ c.agent = k.agent
        /\ c.refused = k.refused /\ ~c.renew /\ c.answer = "none"
    BY <1>0 DEF CallRecord, Phases
  <2>. HIDE DEF c
  <2>3. c.agent /\ (~c.reads => Undone(<<t, c.n>>))
    BY <1>0, <1>3, <2>2 DEF Renewed, Current
  <2>4. /\ held' \in [DaemonClients -> [id : Nat, expires : Nat]] /\ held'[clientOf[t]].id = 0
        /\ \A d \in DaemonClients : d # clientOf[t] => held'[d] = held[d]
    <3>1. NoSession \in [id : Nat, expires : Nat] /\ NoSession.id = 0
      BY DEF NoSession
    <3>2. held' = [held EXCEPT ![clientOf[t]] = NoSession]
      BY <1>3 DEF Renew
    <3>. QED
      BY <1>0, <3>1, <3>2 DEF ClientTyped
  <2>. QED
    BY <1>0, <1>1, <1>3, <2>1, <2>2, <2>3, <2>4, PhaseKeeps
<1>4. CASE k.answer = "session" /\ ~k.renew /\ Finish(t, "refused") /\ held' = held
  <2>1. "refused" \in Ends /\ (~k.reads => Undone(<<t, k.n>>))
    BY <1>0, <1>4 DEF Ends, Current
  <2>. QED
    BY <1>0, <1>1, <1>4, <2>1, FinishKeeps
<1>5. CASE k.answer = "denied" /\ Finish(t, "denied") /\ held' = held
  <2>1. "denied" \in Ends /\ (~k.reads => Undone(<<t, k.n>>))
    BY <1>0, <1>5 DEF Ends, Current
  <2>. QED
    BY <1>0, <1>1, <1>5, <2>1, FinishKeeps
<1>. QED
  BY <1>2, <1>3, <1>4, <1>5 DEF Receive

\* A request that is answered is on its way no more, and is carried out if it is accepted.
LEMMA AnswerKeeps ==
    ASSUME ClientInv, NEW m \in net, NEW answer \in {"ok", "session", "denied"}, Answer(m, answer),
           served' = IF answer = "ok" THEN [served EXCEPT ![<<m.from, m.n>>] = @ + 1] ELSE served,
           answer = "session" => m.agent,
           now' = now, clientOf' = clientOf, result' = result, held' = held
    PROVE  ClientInv'
<1>. PICK t : t = m.from
  OBVIOUS
<1>. PICK k : k = calls[t]
  OBVIOUS
<1>. PICK x : x = <<t, m.n>>
  OBVIOUS
<1>. DEFINE admitted == answer = "ok"
<1>0. ClientTyped /\ m \in Request /\ t \in Threads /\ m.n \in 1..MaxCalls
  BY DEF ClientInv, ClientTyped, Request
<1>1. /\ Current(t) /\ Renewed(t) /\ \A n \in 1..MaxCalls : Told(<<t, n>>)
      /\ k \in CallRecord /\ k.n \in 0..MaxCalls /\ (k.pc # "idle" => k.n \in 1..MaxCalls)
      /\ \A n \in 1..MaxCalls : <<t, n>> \in Numbers
      /\ k.answer \in {"none", "ok", "session", "denied"}
  BY <1>0, Fields DEF ClientInv, CallsInv, RenewedInv, Numbers
<1>2. /\ net' = net \ {m} /\ now' = now /\ clientOf' = clientOf /\ result' = result /\ held' = held
      /\ served' = IF admitted THEN [served EXCEPT ![x] = @ + 1] ELSE served
  BY DEF Answer
<1>. HIDE DEF admitted
<1>3. /\ served' \in [Numbers -> Nat]
      /\ \A y \in Numbers : y # x => served'[y] = served[y]
      /\ served'[x] = IF admitted THEN served[x] + 1 ELSE served[x]
      /\ served[x] \in Nat
  BY <1>0, <1>1, <1>2 DEF ClientTyped
<1>4. ~Quiet(x)
  BY DEF Quiet
\* What becomes of the call that is served, and of those that are not.
<1>5. Pending(x) => /\ served[x] = 0
                    /\ Quiet(x)'
                    /\ Pending(x)'
                    /\ admitted => Done(x)'
                    /\ ~admitted => Undone(x)'
  <2>. SUFFICES ASSUME Pending(x) PROVE served[x] = 0 /\ Quiet(x)' /\ Pending(x)'
                                        /\ (admitted => Done(x)') /\ (~admitted => Undone(x)')
    OBVIOUS
  <2>1. served[x] = 0 /\ Once(x)
    BY <1>4 DEF Pending
  <2>2. Quiet(x)'
    BY <1>2, <2>1 DEF Once, Quiet
  <2>. QED
    BY <1>3, <2>1, <2>2 DEF Pending, Done, Undone
<1>6. ASSUME NEW n \in 1..MaxCalls, n # m.n
      PROVE  /\ Undone(<<t, n>>)' <=> Undone(<<t, n>>)
             /\ Done(<<t, n>>)' <=> Done(<<t, n>>)
             /\ Pending(<<t, n>>)' <=> Pending(<<t, n>>)
             /\ served'[<<t, n>>] = served[<<t, n>>]
  <2>1. \A o : <<o.from, o.n>> = <<t, n>> => (o \in net' <=> o \in net)
    BY <1>2, <1>6
  <2>2. served'[<<t, n>>] = served[<<t, n>>]
    BY <1>1, <1>3, <1>6
  <2>3. (Quiet(<<t, n>>)' <=> Quiet(<<t, n>>)) /\ (Once(<<t, n>>)' <=> Once(<<t, n>>))
    BY <1>2, <2>1 DEF Quiet, Once
  <2>. QED
    BY <2>2, <2>3 DEF Undone, Done, Pending
<1>7. m.n <= k.n
  <2>. SUFFICES ASSUME m.n > k.n PROVE FALSE
    BY <1>0, <1>1
  <2>. QED
    BY <1>0, <1>1, <1>4 DEF Current, Undone
<1>8. \A n \in 1..MaxCalls : Told(<<t, n>>)'
  <2>1. ASSUME NEW n \in 1..MaxCalls PROVE Told(<<t, n>>)'
    <3>1. CASE n = m.n
      <4>1. Told(x)
        BY <1>1, <3>1
      <4>2. ~Undone(x) /\ ~Done(x)
        BY <1>4 DEF Undone, Done
      <4>3. served[x] >= 1 => served'[x] >= 1
        BY <1>3
      <4>. QED
        BY <1>2, <1>5, <3>1, <4>1, <4>2, <4>3 DEF Told
    <3>2. CASE n # m.n
      BY <1>1, <1>2, <1>6, <3>2 DEF Told
    <3>. QED
      BY <3>1, <3>2
  <2>. QED
    BY <2>1
<1>9. \A n \in 1..MaxCalls : n > k.n => Undone(<<t, n>>)' /\ result'[<<t, n>>].how = "none"
  BY <1>0, <1>1, <1>2, <1>6, <1>7 DEF Current
<1>10. CASE calls' = calls
  <2>1. ClientTyped'
    BY <1>0, <1>2, <1>3, <1>10 DEF ClientTyped
  <2>2. Only(t)
    BY <1>0, <1>2, <1>3, <1>10 DEF Only, Numbers
  <2>3. Current(t)'
    <3>1. ASSUME k.pc # "idle"
          PROVE  /\ result'[<<t, k.n>>].how = "none"
                 /\ k.reads /\ k.pc = "answered" /\ k.answer = "ok" => served'[<<t, k.n>>] >= 1
                 /\ ~k.reads /\ k.pc \in {"request", "create", "renew", "send"} => Undone(<<t, k.n>>)'
                 /\ ~k.reads /\ k.pc = "sent" => Pending(<<t, k.n>>)'
                 /\ ~k.reads /\ k.pc = "answered" /\ k.answer = "ok" => Done(<<t, k.n>>)'
                 /\ ~k.reads /\ k.pc = "answered" /\ k.answer \in {"session", "denied"} => Undone(<<t, k.n>>)'
      <4>1. CASE k.n = m.n
        <5>1. ~Undone(x) /\ ~Done(x)
          BY <1>4 DEF Undone, Done
        <5>2. served[x] >= 1 => served'[x] >= 1
          BY <1>3
        <5>. QED
          BY <1>1, <1>2, <1>5, <3>1, <4>1, <5>1, <5>2 DEF Current
      <4>2. CASE k.n # m.n
        BY <1>1, <1>2, <1>6, <3>1, <4>2 DEF Current
      <4>. QED
        BY <4>1, <4>2
    <3>. QED
      BY <1>9, <1>10, <3>1 DEF Current
  <2>4. Renewed(t)'
    <3>1. (Alone(t)' <=> Alone(t)) /\ Session(t)' = Session(t)
      BY <1>2 DEF Alone, Session
    <3>2. \A o \in net' : o \in net
      BY <1>2
    <3>. QED
      BY <1>1, <1>10, <3>1, <3>2 DEF Renewed
  <2>. QED
    BY <1>0, <1>8, <2>1, <2>2, <2>3, <2>4, OneKeeps
<1>11. CASE Awaited(m) /\ calls' = [calls EXCEPT ![t].pc = "answered", ![t].answer = answer]
  <2>. DEFINE c == [k EXCEPT !.pc = "answered", !.answer = answer]
  <2>1. k.pc = "sent" /\ k.n = m.n /\ x = <<t, k.n>>
    BY <1>11 DEF Awaited
  <2>2. calls' = [calls EXCEPT ![t] = c] /\ (answer = "ok" <=> admitted)
    BY <1>11 DEF admitted
  <2>3. /\ c \in CallRecord /\ c.pc = "answered" /\ c.n = k.n /\ c.reads = k.reads /\ c.agent = k.agent
        /\ c.refused = k.refused /\ c.renew = k.renew /\ c.answer = answer
    BY <1>1, <2>2 DEF CallRecord, Phases
  <2>. HIDE DEF c
  <2>4. /\ calls' \in [Threads -> CallRecord] /\ calls'[t] = c
        /\ \A u \in Threads \ {t} : calls'[u] = calls[u]
    BY <1>0, <2>2, <2>3, Moves
  <2>5. ClientTyped'
    <3>1. \A u \in Threads : calls'[u].pc # "idle" => calls'[u].n \in 1..MaxCalls
      BY <1>0, <2>1, <2>3, <2>4 DEF ClientTyped
    <3>. QED
      BY <1>0, <1>2, <1>3, <2>4, <3>1 DEF ClientTyped
  <2>6. Only(t)
    BY <1>0, <1>2, <1>3, <2>4 DEF Only, Numbers
  <2>7. Current(t)'
    <3>1. result'[x].how = "none"
      BY <1>1, <1>2, <2>1 DEF Current
    <3>2. ~k.reads => Pending(x)
      BY <1>1, <2>1 DEF Current
    <3>3. admitted => served'[x] >= 1
      BY <1>3
    <3>. QED
      BY <1>5, <1>9, <2>1, <2>2, <2>3, <2>4, <3>1, <3>2, <3>3 DEF Current
  <2>8. Renewed(t)'
    <3>1. (Alone(t)' <=> Alone(t)) /\ Session(t)' = Session(t)
      BY <1>2 DEF Alone, Session
    <3>2. \A o \in net' : o \in net
      BY <1>2
    <3>3. answer = "session" => k.agent
      BY <1>1, <2>1 DEF Renewed
    <3>. QED
      BY <1>1, <2>1, <2>3, <2>4, <3>1, <3>2, <3>3 DEF Renewed
  <2>. QED
    BY <1>0, <1>8, <2>5, <2>6, <2>7, <2>8, OneKeeps
<1>. QED
  BY <1>10, <1>11 DEF Answer

\* The middleware refuses the sessions of agents only, and nothing else yet happens.
LEMMA AuthenticateKeeps ==
    ASSUME ClientInv, NEW m \in net, Authenticate(m)
    PROVE  ClientInv'
<1>1. /\ now' = now /\ clientOf' = clientOf /\ result' = result /\ held' = held /\ served' = served
  BY DEF Authenticate
<1>2. CASE Answer(m, "session") /\ ~Accepted(m)
  BY <1>1, <1>2, AnswerKeeps DEF Accepted
<1>3. CASE net' = net /\ calls' = calls
  BY <1>1, <1>3 DEF ClientInv, ClientTyped, CallsInv, Current, Told,
     Undone, Done, Pending, Quiet, Once, RenewedInv, Renewed, Alone, Session
<1>. QED
  BY <1>2, <1>3 DEF Authenticate

\* The route denies or acts.
LEMMA HandleKeeps ==
    ASSUME ClientInv, NEW m \in net, Handle(m)
    PROVE  ClientInv'
  BY AnswerKeeps DEF Handle

\* Sessions come and go on the server, requests are lost, and time passes.
LEMMA ServerKeeps ==
    ASSUME ClientInv, (\E id \in 1..MaxSessions : Revoke(id)) \/ RestartServer \/ Tick
    PROVE  ClientInv'
<1>1. /\ calls' = calls /\ clientOf' = clientOf /\ held' = held /\ result' = result
      /\ served' = served /\ net' \subseteq net /\ (now' = now \/ now' = now + 1)
  BY DEF Revoke, RestartServer, Tick, threads, server
<1>2. ClientTyped'
  BY <1>1 DEF ClientInv, ClientTyped
<1>3. ASSUME NEW x
      PROVE  /\ Undone(x) => Undone(x)'
             /\ Done(x) => Done(x)'
             /\ Pending(x) => Pending(x)'
  BY <1>1 DEF Undone, Done, Pending, Quiet, Once
<1>4. CallsInv'
  <2>1. ASSUME NEW t \in Threads PROVE Current(t)'
    <3>1. Current(t)
      BY DEF ClientInv, CallsInv
    <3>. QED
      BY <1>1, <1>3, <3>1 DEF Current
  <2>2. ASSUME NEW x \in Numbers PROVE Told(x)'
    <3>1. Told(x)
      BY DEF ClientInv, CallsInv
    <3>. QED
      BY <1>1, <1>3, <3>1 DEF Told
  <2>. QED
    BY <2>1, <2>2 DEF CallsInv
<1>5. RenewedInv'
  <2>1. ASSUME NEW t \in Threads PROVE Renewed(t)'
    <3>1. Renewed(t) /\ (Alone(t)' <=> Alone(t)) /\ Session(t)' = Session(t)
      BY <1>1 DEF ClientInv, RenewedInv, Alone, Session
    <3>. QED
      BY <1>1, <3>1 DEF Renewed
  <2>. QED
    BY <2>1 DEF RenewedInv
<1>. QED
  BY <1>2, <1>4, <1>5 DEF ClientInv

\* What the clients know of their calls stays true, for any number of threads and clients.
THEOREM ClientInvariance == Spec => []ClientInv
<1>1. ASSUME ClientInv, [Next]_vars PROVE ClientInv'
  <2>1. CASE Next
    BY <1>1, <2>1, BeginKeeps, CheckKeeps, CreateKeeps, SendKeeps, NetworkErrorKeeps, ReceiveKeeps,
       AuthenticateKeeps, HandleKeeps, ServerKeeps DEF Next, Step
  <2>2. CASE UNCHANGED vars
    BY <1>1, <2>2 DEF vars, threads, server, ClientInv, ClientTyped, CallsInv, Current, Told,
       Undone, Done, Pending, Quiet, Once, RenewedInv, Renewed, Alone, Session
  <2>. QED
    BY <1>1, <2>1, <2>2
<1>. QED
  BY <1>1, ClientInit, PTL DEF Spec

\* What a call reports is true, now and later (request() in client.py): no call that
\* writes acts twice, and none acts that was refused, however late its requests arrive.
THEOREM AnswersAreTrue == Spec => []AnswerIsTrue
<1>1. ClientInv => AnswerIsTrue
  <2>. SUFFICES ASSUME ClientInv, NEW x \in DOMAIN result
                PROVE  LET k == result[x]
                       IN  CASE k.how = "none" -> TRUE
                             [] k.how = "ok"   -> IF k.reads THEN served[x] >= 1 ELSE served[x] = 1
                             [] k.how \in {"refused", "denied", "limited"} -> k.reads \/ served[x] = 0
                             [] OTHER          -> k.reads \/ served[x] <= 1
    BY DEF AnswerIsTrue
  <2>1. x \in Numbers /\ result[x].how \in Ends /\ Told(x) /\ result[x].reads \in BOOLEAN
    BY DEF ClientInv, ClientTyped, CallsInv
  <2>2. Pending(x) => served[x] <= 1
    BY <2>1 DEF Pending, ClientInv, ClientTyped
  <2>. QED
    BY <2>1, <2>2 DEF Ends, Told, Done, Undone
<1>. QED
  BY <1>1, ClientInvariance, PTL

\* A call that the middleware did not accept is repeated with another session (request()
\* and create_agent_session() in client.py), if its client is not shared.
THEOREM SessionsAreRenewed == Spec => []SessionIsRenewed
<1>1. ClientInv => SessionIsRenewed
  <2>. SUFFICES ASSUME ClientInv, NEW m \in net, ~m.renew, Awaited(m), Alone(m.from)
                PROVE  m.session \notin {0, calls[m.from].refused}
    BY DEF SessionIsRenewed
  <2>1. m.from \in Threads
    BY DEF ClientInv, ClientTyped, Request
  <2>. QED
    BY <2>1 DEF ClientInv, RenewedInv, Renewed, Awaited
<1>. QED
  BY <1>1, ClientInvariance, PTL
=============================================================================
