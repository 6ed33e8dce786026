------------------------------ MODULE AgentAccess ------------------------------
(***************************************************************************)
(* How an agent (an MCP client) acts on runs: mcp_run_command and          *)
(* mcp_export_run (server.py) with the sessions of the server and the      *)
(* one-time approvals of SQLiteStorage.  Requests are served by a pool of  *)
(* threads, so the calls of several agents, the user who issues and        *)
(* revokes approvals, and the runtime interleave; what the runtime itself  *)
(* does to a run is that of RunProtocol.  Sessions live in the memory of   *)
(* the server, approvals and the action log in the database; one call      *)
(* writes the approval and its log entry in two transactions.              *)
(*                                                                         *)
(* Time is abstracted: a session ends and an approval expires at any       *)
(* moment.  Calls that are refused without writing anything are stuttering *)
(* steps, and so are the entries of the log no property is about.          *)
(***************************************************************************)
EXTENDS Naturals, RunProtocol

CONSTANTS
    Calls,      \* threads that serve agents
    Sessions,   \* scoped agent sessions
    Tokens,     \* approvals the user may issue
    Actions,    \* what agents may ask for
    Policies    \* what allowed_actions may say in kernelyra.toml

\* The actions that consume an approval.
Gated == {"run.start", "run.resume", "run.export"}

ASSUME ActionAssumption == /\ Actions \subseteq Gated \cup {"run.pause", "run.stop"}
                           /\ Policies \subseteq SUBSET Actions

VARIABLES
    granted,    \* granted[s]: what a live session allows, {} if there is none
    approval,   \* approval_tokens in the database
    known,      \* the approvals whose token the user has handed out
    call,       \* what the threads are doing
    consumes,   \* the approvals with an approval.consume entry in the action log
    spent       \* history: the actions carried out for an approval

access == <<granted, approval, known, call, consumes, spent>>
avars  == <<access, pvars>>

NoApproval == [state |-> "none"]
NoCall     == [pc |-> "idle"]

AInit ==
    /\ PInit
    /\ granted = [s \in Sessions |-> {}]
    /\ approval = [t \in Tokens |-> NoApproval]
    /\ known = {}
    /\ call = [c \in Calls |-> NoCall]
    /\ consumes = {}
    /\ spent = [t \in Tokens |-> 0]

-----------------------------------------------------------------------------
(* Sessions and approvals.                                                 *)

\* The policy file is read, and unknown actions refused, when the session is issued.
IssueSession(s) ==
    /\ granted[s] = {}
    /\ \E policy \in Policies : granted' = [granted EXCEPT ![s] = policy]
    /\ UNCHANGED <<approval, known, call, consumes, spent, pvars>>

\* Revoked by the user, or found to be expired.
EndSession(s) ==
    /\ granted[s] # {}
    /\ granted' = [granted EXCEPT ![s] = {}]
    /\ UNCHANGED <<approval, known, call, consumes, spent, pvars>>

\* The run must exist.  The token is returned after the entry in the log is written.
IssueApproval(t, action, r) ==
    /\ approval[t] = NoApproval
    /\ state[r] # "absent"
    /\ approval' = [approval EXCEPT ![t] = [state |-> "open", action |-> action, run |-> r]]
    /\ UNCHANGED <<granted, known, call, consumes, spent, pvars>>

HandOut(t) ==
    /\ approval[t] # NoApproval
    /\ known' = known \cup {t}
    /\ UNCHANGED <<granted, approval, call, consumes, spent, pvars>>

Expire(t) ==
    /\ approval[t].state = "open"
    /\ approval' = [approval EXCEPT ![t].state = "expired"]
    /\ UNCHANGED <<granted, known, call, consumes, spent, pvars>>

Revocable_Always(t) == approval[t].state \in {"open", "expired", "used"}

\* used_at IS NULL; a revoked approval has used_at set like a used one.
Revocable(t) == approval[t].state \in {"open", "expired"}

RevokeApproval(t) ==
    /\ t \in known
    /\ Revocable(t)
    /\ approval' = [approval EXCEPT ![t].state = "revoked"]
    /\ UNCHANGED <<granted, known, call, consumes, spent, pvars>>

-----------------------------------------------------------------------------
(* A call of an agent.                                                     *)

Goto(c, pc) == call' = [call EXCEPT ![c].pc = pc]
Return(c)   == call' = [call EXCEPT ![c] = NoCall]

\* The session is live and allows the action; the token is one the agent was given.
Admit(c, s, action, r, t) ==
    /\ call[c] = NoCall
    /\ action \in granted[s]
    /\ action \in Gated => t \in known
    /\ call' = [call EXCEPT ![c] =
                   [pc |-> IF action \in Gated THEN "approve" ELSE "act",
                    action |-> action, run |-> r, token |-> t]]
    /\ UNCHANGED <<granted, approval, known, consumes, spent, pvars>>

Redeemable_AnyAction(c) ==
    LET a == approval[call[c].token] IN a.state = "open" /\ a.run = call[c].run

Redeemable_AnyState(c) ==
    LET a == approval[call[c].token] IN
    a.state \in {"open", "used"} /\ a.action = call[c].action /\ a.run = call[c].run

\* One UPDATE checks the approval and sets used_at.
Redeemable(c) ==
    LET a == approval[call[c].token] IN
    a.state = "open" /\ a.action = call[c].action /\ a.run = call[c].run

Consume_Unlogged(c) ==
    /\ call[c].pc = "approve"
    /\ Redeemable(c)
    /\ approval' = [approval EXCEPT ![call[c].token].state = "used"]
    /\ Goto(c, "act")
    /\ UNCHANGED <<granted, known, consumes, spent, pvars>>

Consume(c) ==
    /\ call[c].pc = "approve"
    /\ Redeemable(c)
    /\ approval' = [approval EXCEPT ![call[c].token].state = "used"]
    /\ Goto(c, "log")
    /\ UNCHANGED <<granted, known, consumes, spent, pvars>>

Refuse(c) ==
    /\ call[c].pc = "approve"
    /\ ~Redeemable(c)
    /\ Return(c)
    /\ UNCHANGED <<granted, approval, known, consumes, spent, pvars>>

LogConsume(c) ==
    /\ call[c].pc = "log"
    /\ consumes' = consumes \cup {call[c].token}
    /\ Goto(c, "act")
    /\ UNCHANGED <<granted, approval, known, spent, pvars>>

\* The states in which TrainingRuntime.command() changes the run; in the others it
\* returns the run as it is or raises.
Accepts(action) ==
    CASE action = "run.start"  -> {"draft"}
      [] action = "run.resume" -> Resumable
      [] action = "run.pause"  -> {"queued", "training"}
      [] action = "run.stop"   -> Stoppable
      [] OTHER -> {}

Carries(action, r) ==
    \/ action \in {"run.start", "run.resume"} /\ \E recovering \in BOOLEAN : Queue(r, recovering)
    \/ action = "run.pause" /\ RequestPause(r)
    \/ action = "run.stop" /\ RequestStop(r)

Act(c) ==
    /\ call[c].pc = "act"
    /\ LET action == call[c].action
           r == call[c].run
       IN  /\ IF state[r] \in Accepts(action) THEN Carries(action, r) ELSE UNCHANGED pvars
           /\ spent' = IF action \in Gated THEN [spent EXCEPT ![call[c].token] = @ + 1] ELSE spent
    /\ Return(c)
    /\ UNCHANGED <<granted, approval, known, consumes>>

-----------------------------------------------------------------------------
\* What the user and the runtime do to the runs meanwhile.
Meanwhile ==
    /\ \/ \E r \in Runs : Register(r) \/ RequestPause(r) \/ RequestStop(r) \/ Launch(r) \/ Settle(r)
       \/ \E r \in Runs, recovering \in BOOLEAN : Queue(r, recovering)
    /\ UNCHANGED access

\* The server stops or dies, and starts again: lifespan() recovers the runs.
Restart ==
    /\ granted' = [s \in Sessions |-> {}]
    /\ call' = [c \in Calls |-> NoCall]
    /\ busy' = {}
    /\ state' = Recovered(TRUE)
    /\ UNCHANGED <<approval, known, consumes, spent>>

Serve(c) == \/ \E s \in Sessions, action \in Actions, r \in Runs, t \in Tokens : Admit(c, s, action, r, t)
            \/ Consume(c) \/ Refuse(c) \/ LogConsume(c) \/ Act(c)

User == \/ \E s \in Sessions : IssueSession(s) \/ EndSession(s)
        \/ \E t \in Tokens, action \in Gated \cap Actions, r \in Runs : IssueApproval(t, action, r)
        \/ \E t \in Tokens : HandOut(t) \/ Expire(t) \/ RevokeApproval(t)

ANext == (\E c \in Calls : Serve(c)) \/ User \/ Meanwhile \/ Restart

ASpec == AInit /\ [][ANext]_avars

-----------------------------------------------------------------------------
Approval == {NoApproval} \cup
            [state : {"open", "expired", "used", "revoked"}, action : Gated, run : Runs]

Call == {NoCall} \cup
        [pc : {"approve", "log", "act"}, action : Actions, run : Runs, token : Tokens]

TypeOK ==
    /\ granted \in [Sessions -> SUBSET Actions]
    /\ approval \in [Tokens -> Approval]
    /\ known \subseteq Tokens
    /\ call \in [Calls -> Call]
    /\ consumes \subseteq Tokens
    /\ spent \in [Tokens -> Nat]
    /\ state \in [Runs -> RunStatus]
    /\ busy \subseteq Runs

\* An approval pays for one action at most, however many calls present it at the
\* same time and across restarts ("consume a user-issued ... approval exactly once",
\* SECURITY.md).
PaysOnce == \A t \in Tokens : spent[t] <= 1

\* An approval that was revoked (revoke_approval() said so) has not been and will not be
\* used: neither by a finished call nor by one that is still on its way.
RevokedIsVoid ==
    \A t \in Tokens : approval[t].state = "revoked" =>
        /\ spent[t] = 0
        /\ \A c \in Calls : call[c].pc \in {"log", "act"} /\ call[c].action \in Gated
                                => call[c].token # t

\* Whatever an agent did on an approval can be found in the action log, although the
\* entry is written in a transaction of its own and the server may die in between.
SpentIsLogged == \A t \in Tokens : spent[t] > 0 => t \in consumes

\* A call that is about to act holds an approval for exactly this action on exactly
\* this run, also if the user has issued several.
ActsAsApproved ==
    \A c \in Calls : call[c].pc = "act" /\ call[c].action \in Gated =>
        LET a == approval[call[c].token]
        IN  a.state = "used" /\ a.action = call[c].action /\ a.run = call[c].run
=============================================================================
