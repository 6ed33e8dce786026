------------------------------ MODULE ApiClient ------------------------------
(***************************************************************************)
(* DaemonClient (client.py) and the HTTP server (server.py) over a network *)
(* that loses and delays.  A call is one request, repeated after a network *)
(* failure if it only reads, and repeated once with a new session if an    *)
(* agent's session is not accepted.  AsyncKernelyraClient runs the calls   *)
(* of one DaemonClient in several threads, which share its session without *)
(* a lock.  The server keeps sessions and rate windows in memory and loses *)
(* them when it restarts.                                                  *)
(*                                                                         *)
(* A request that its client has given up may be served later; one that is *)
(* lost is one that is never served.  Time is a bounded counter that       *)
(* clients and server share: they run on one machine.  Session numbers are *)
(* used again when nobody knows them any more.                             *)
(***************************************************************************)
EXTENDS Integers, FiniteSets, Sequences

CONSTANTS
    Threads,        \* each makes calls through one DaemonClient
    DaemonClients,
    Retries,        \* of a request that only reads
    Ttl, Margin,    \* lifetime of a session, and when the client renews it
    Window, Maximum,\* the rate limit of sessions
    MaxCalls, MaxTime, MaxSessions, MaxFaults   \* bounds

ASSUME LimitsAssumption ==
    /\ Retries \in 0..5
    /\ Ttl \in Nat /\ Margin \in 0..(Ttl - 1) /\ Window \in Nat \ {0} /\ Maximum \in Nat \ {0}
    /\ MaxCalls \in Nat /\ MaxTime \in Nat /\ MaxSessions \in Nat /\ MaxFaults \in Nat

VARIABLES
    now,
    live,       \* agent_sessions: number of the session |-> when it expires
    window,     \* rate_windows: when the last sessions were admitted
    faults,     \* restarts and revocations so far, at most MaxFaults
    clientOf,   \* the DaemonClient of each thread
    held,       \* the session each DaemonClient holds
    calls,      \* what each thread is doing
    net,        \* requests on their way
    inside,     \* those of them that the middleware has let through
    served,     \* history: how often each call was carried out
    result      \* history: how each call ended

server  == <<live, window, faults>>
threads == <<clientOf, held, calls, result>>
vars == <<now, server, threads, net, inside, served>>

Times == 0..(MaxTime + Ttl)
NoSession == [id |-> 0, expires |-> 0]
Idle(n) == [pc |-> "idle", n |-> n, attempt |-> 0, renew |-> FALSE, reads |-> FALSE,
            agent |-> FALSE, answer |-> "none", refused |-> 0]
NoResult == [how |-> "none", reads |-> FALSE]

Init ==
    /\ now = 0
    /\ live = <<>> /\ window = <<>>
    /\ faults = 0
    /\ clientOf \in [Threads -> DaemonClients]
    /\ held = [k \in DaemonClients |-> NoSession]
    /\ calls = [t \in Threads |-> Idle(0)]
    /\ net = {} /\ inside = {}
    /\ served = [x \in Threads \X (1..MaxCalls) |-> 0]
    /\ result = [x \in Threads \X (1..MaxCalls) |-> NoResult]

-----------------------------------------------------------------------------
(* The server                                                               *)

IsLive(id) == id \in DOMAIN live /\ live[id] > now

\* limited(): the admissions that are not too old.
LiveWindow == SelectSeq(window, LAMBDA at : at > now - Window)
Limited == Len(LiveWindow) >= Maximum

\* issue_agent_session(): what has expired is forgotten, and a session is added.
GrantSession(id) ==
    /\ window' = Append(LiveWindow, now)
    /\ live' = [s \in {s \in DOMAIN live : live[s] > now} \cup {id} |->
                    IF s = id THEN now + Ttl ELSE live[s]]
    /\ UNCHANGED faults

Known == DOMAIN live \cup {held[k].id : k \in DaemonClients} \cup {m.session : m \in net}
            \cup {calls[t].refused : t \in Threads}
Unknown == (1..MaxSessions) \ Known

\* revoke_agent_session(): a user ends a session.
Revoke(id) ==
    /\ id \in DOMAIN live /\ faults < MaxFaults
    /\ live' = [s \in DOMAIN live \ {id} |-> live[s]]
    /\ faults' = faults + 1
    /\ UNCHANGED <<now, window, threads, net, inside, served>>

\* A restart forgets sessions and windows and breaks every connection.
RestartServer ==
    /\ faults < MaxFaults
    /\ live' = <<>> /\ window' = <<>> /\ net' = {} /\ inside' = {}
    /\ faults' = faults + 1
    /\ UNCHANGED <<now, threads, served>>

Tick ==
    /\ now < MaxTime
    /\ now' = now + 1
    /\ UNCHANGED <<server, threads, net, inside, served>>

-----------------------------------------------------------------------------
(* A call: request() and create_agent_session()                             *)

Session(t) == held[clientOf[t]]

Finish(t, how) ==
    /\ result' = [result EXCEPT ![<<t, calls[t].n>>] = [how |-> how, reads |-> calls[t].reads]]
    /\ calls' = [calls EXCEPT ![t] = Idle(calls[t].n)]

Begin(t) ==
    /\ calls[t].pc = "idle" /\ calls[t].n < MaxCalls
    /\ \E reads, agent \in BOOLEAN :
        calls' = [calls EXCEPT ![t] = [Idle(@.n + 1) EXCEPT !.pc = "request", !.renew = TRUE,
                                                          !.reads = reads, !.agent = agent]]
    /\ UNCHANGED <<now, server, clientOf, held, result, net, inside, served>>

\* An agent's call first looks at the session the client holds.
Check(t) ==
    /\ calls[t].pc = "request"
    /\ LET stale == Session(t).id = 0 \/ Session(t).expires <= now + Margin
       IN  calls' = [calls EXCEPT ![t].pc = IF calls[t].agent /\ stale THEN "create" ELSE "send"]
    /\ UNCHANGED <<now, server, clientOf, held, result, net, inside, served>>

\* The request for a session is never repeated: it, or its answer, may be lost.
\* A renewed call starts again, and looks at the session again.
CreateSession(t) ==
    /\ calls[t].pc \in {"create", "renew"}
    /\ \/ Limited /\ Finish(t, "limited") /\ UNCHANGED <<server, held>>
       \/ \E id \in {x \in Unknown : \A y \in Unknown : x <= y} :
            /\ ~Limited /\ GrantSession(id)
            /\ \/ /\ held' = [held EXCEPT ![clientOf[t]] = [id |-> id, expires |-> now + Ttl]]
                  /\ calls' = [calls EXCEPT ![t].pc = IF @ = "renew" THEN "request" ELSE "send"]
                  /\ UNCHANGED result
               \/ Finish(t, "unavailable") /\ UNCHANGED held
       \/ Finish(t, "unavailable") /\ UNCHANGED <<server, held>>
    /\ UNCHANGED <<now, clientOf, net, inside, served>>

\* The header carries the session the client holds by now, if any.
Send(t) ==
    /\ calls[t].pc = "send"
    /\ LET id == IF calls[t].agent THEN Session(t).id ELSE 0
       IN  /\ net' = net \cup {[from |-> t, n |-> calls[t].n, attempt |-> calls[t].attempt,
                                renew |-> calls[t].renew, agent |-> calls[t].agent, session |-> id]}
           /\ calls' = [calls EXCEPT ![t].pc = "sent",
                                   ![t].refused = IF calls[t].renew THEN id ELSE @]
    /\ UNCHANGED <<now, server, clientOf, held, result, inside, served>>

\* The thread still waits for the answer to this very request.
Awaited(m) ==
    LET k == calls[m.from]
    IN  k.pc = "sent" /\ k.n = m.n /\ k.attempt = m.attempt /\ k.renew = m.renew

\* A request is answered.  The answer reaches the client or is lost.
Answer(m, answer) ==
    /\ net' = net \ {m}
    /\ \/ Awaited(m) /\ calls' = [calls EXCEPT ![m.from].pc = "answered", ![m.from].answer = answer]
       \/ UNCHANGED calls

Accepted(m) == m.agent => IsLive(m.session)

\* The middleware lets an agent's request through on a live session only.
Authenticate(m) ==
    /\ m \notin inside
    /\ IF Accepted(m)
       THEN inside' = inside \cup {m} /\ UNCHANGED <<net, calls>>
       ELSE Answer(m, "session") /\ UNCHANGED inside
    /\ UNCHANGED <<now, server, clientOf, held, result, served>>

\* The route runs later, in a thread of its own, and looks at the session again
\* (require_agent_action) before it acts.  Its refusal has another type.
Handle(m) ==
    /\ m \in inside
    /\ inside' = inside \ {m}
    /\ IF Accepted(m)
       THEN Answer(m, "ok") /\ served' = [served EXCEPT ![<<m.from, m.n>>] = @ + 1]
       ELSE Answer(m, "denied") /\ UNCHANGED served
    /\ UNCHANGED <<now, server, clientOf, held, result>>

Repeats_Mutation(t) == calls[t].attempt < Retries

\* Only GET and HEAD are repeated.
Repeats(t) == calls[t].reads /\ calls[t].attempt < Retries

\* A timeout or a connection that breaks; the request itself may still be on its way.
NetworkError(t) ==
    /\ calls[t].pc = "sent"
    /\ IF Repeats(t)
       THEN /\ calls' = [calls EXCEPT ![t].pc = "request", ![t].attempt = @ + 1]
            /\ UNCHANGED result
       ELSE Finish(t, "unavailable")
    /\ UNCHANGED <<now, server, clientOf, held, net, inside, served>>

Renew_Mutation(t) ==
    /\ calls' = [calls EXCEPT ![t].pc = "request", ![t].renew = FALSE, ![t].answer = "none"]
    /\ UNCHANGED held

\* The session is dropped, a new one is created, and the request is made once more.
Renew(t) ==
    /\ calls' = [calls EXCEPT ![t].pc = "renew", ![t].renew = FALSE, ![t].answer = "none"]
    /\ held' = [held EXCEPT ![clientOf[t]] = NoSession]

\* Only the refusal of the middleware is answered with a new session.
Receive(t) ==
    /\ calls[t].pc = "answered"
    /\ \/ calls[t].answer = "ok" /\ Finish(t, "ok") /\ UNCHANGED held
       \/ calls[t].answer = "session" /\ calls[t].renew /\ Renew(t) /\ UNCHANGED result
       \/ calls[t].answer = "session" /\ ~calls[t].renew /\ Finish(t, "refused") /\ UNCHANGED held
       \/ calls[t].answer = "denied" /\ Finish(t, "denied") /\ UNCHANGED held
    /\ UNCHANGED <<now, server, clientOf, net, inside, served>>

-----------------------------------------------------------------------------
Step(t) == Check(t) \/ CreateSession(t) \/ Send(t) \/ NetworkError(t) \/ Receive(t)

Next ==
    \/ \E t \in Threads : Begin(t) \/ Step(t)
    \/ \E m \in net : Authenticate(m) \/ Handle(m)
    \/ \E id \in 1..MaxSessions : Revoke(id)
    \/ RestartServer \/ Tick

Spec == Init /\ [][Next]_vars

-----------------------------------------------------------------------------
(* Properties                                                               *)

\* Every variable keeps its type.
Phases == {"idle", "request", "create", "renew", "send", "sent", "answered"}
SessionOK == [id : 0..MaxSessions, expires : Times]
ClientTypeOK ==
    /\ now \in 0..MaxTime
    /\ DOMAIN live \subseteq 1..MaxSessions /\ \A id \in DOMAIN live : live[id] \in Times
    /\ window \in Seq(0..MaxTime) /\ Len(window) <= Maximum
    /\ clientOf \in [Threads -> DaemonClients]
    /\ held \in [DaemonClients -> SessionOK]
    /\ calls \in [Threads -> [pc : Phases, n : 0..MaxCalls, attempt : 0..Retries, renew : BOOLEAN,
                             reads : BOOLEAN, agent : BOOLEAN, answer : {"none", "ok", "session", "denied"},
                             refused : 0..MaxSessions]]
    /\ inside \subseteq net
    /\ \A m \in net : m.from \in Threads /\ m.n \in 1..MaxCalls /\ m.session \in 0..MaxSessions

\* What a call reports about a change is true, now and later: one that is
\* answered was carried out once, one that was refused, denied or limited was not and
\* never will be, and one that is reported unavailable was carried out at most
\* once, however late its request arrives (client.py:118).
AnswerIsTrue ==
    \A x \in DOMAIN result :
        LET k == result[x]
        IN  CASE k.how = "none" -> TRUE
              [] k.how = "ok"   -> IF k.reads THEN served[x] >= 1 ELSE served[x] = 1
              [] k.how \in {"refused", "denied", "limited"} -> k.reads \/ served[x] = 0
              [] OTHER          -> k.reads \/ served[x] <= 1

\* A call that the middleware refuses for its session is made once more with
\* another session, if no other thread uses the same client (client.py:100): its
\* second request carries neither none nor the one that was not accepted.
Alone(t) == \A u \in Threads \ {t} : clientOf[u] # clientOf[t]
SessionIsRenewed ==
    \A m \in net : ~m.renew /\ Awaited(m) /\ Alone(m.from) =>
        m.session \notin {0, calls[m.from].refused}

\* A refusal of the session is final only when the call has been renewed.  It is
\* not so, and no run checks it: a session that expires or is revoked between the
\* two looks of the server is denied by the route (server.py:200), with a type
\* the client does not renew for (client.py:100).
EveryRefusalIsRenewed ==
    \A t \in Threads : calls[t].pc = "answered" /\ calls[t].answer = "denied" => ~calls[t].renew
=============================================================================
