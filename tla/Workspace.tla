------------------------------ MODULE Workspace ------------------------------
(***************************************************************************)
(* The processes that meet in the state directory of one workspace: the    *)
(* daemon (daemon.py, server.py), the commands that start and stop it, the *)
(* repair of the workspace (maintenance.py), and programs that open a      *)
(* runtime of their own (runtime.py).  What they share is files: the user  *)
(* secret, daemon.lock, daemon.pid and scheduler.lock.  A file lock is on  *)
(* an inode: whoever unlinks the name takes nothing from its holder, and   *)
(* who opens the name next gets another inode.                             *)
(*                                                                         *)
(* The names of processes are pids, which the system gives out again.  One *)
(* step of a process is one system call on a shared file.  daemon.json,    *)
(* which nothing reads, and agent.secret, which is made the same way, are  *)
(* left out, and so are the orphaned files, which are DatasetStore's.      *)
(***************************************************************************)
EXTENDS Naturals, FiniteSets

CONSTANTS
    Procs,      \* pids
    MaxStarts   \* bound on the processes that are ever started

VARIABLES
    pc,         \* where each process stands, "off" if there is none
    role,       \* what the process was started for
    target,     \* the child a starter waits for, the pid a stopper or a repair read
    known,      \* the user secret the process works with
    secret,     \* content of daemon.secret
    lockFile,   \* the inode daemon.lock names
    handle,     \* the inode each process has opened as daemon.lock
    flocked,    \* the processes that hold the lock on their inode
    pidFile,    \* content of daemon.pid
    scheduler,  \* the process that holds scheduler.lock
    raced,      \* history: a repair removed files while the lock file was open
    early,      \* history: the processes that were started before the secret was written
    starts

vars == <<pc, role, target, known, secret, lockFile, handle, flocked, pidFile, scheduler,
          raced, early, starts>>

None    == "none"       \* no file, no process, no value
Empty   == "empty"      \* a file that is created but not written yet
Inodes  == 1..Cardinality(Procs) + 1
NoInode == 0

ASSUME ProcsAssumption == IsFiniteSet(Procs) /\ None \notin Procs /\ Empty \notin Procs

Roles == {"daemon", "starter", "stopper", "repair", "runtime"}
Steps == {"off", "ensure", "creating", "writing", "opening", "locking", "marking", "registering",
          "app", "startup", "serving", "leaving", "unlinking", "unlocking",
          "asking", "polling", "killing", "waiting", "inspecting", "removing", "clearing", "running"}

Alive(p)   == pc[p] # "off"
Serving    == {p \in Procs : pc[p] = "serving"}    \* who answers a health request
Goes(p, s) == pc' = [pc EXCEPT ![p] = s]

Init ==
    /\ pc = [p \in Procs |-> "off"] /\ role = [p \in Procs |-> "daemon"]
    /\ target = [p \in Procs |-> None] /\ known = [p \in Procs |-> None]
    /\ secret = None
    /\ lockFile = NoInode /\ handle = [p \in Procs |-> NoInode] /\ flocked = {}
    /\ pidFile = None
    /\ scheduler = None
    /\ raced = FALSE /\ early = {} /\ starts = 0

FirstStep(r) == CASE r = "stopper" -> "asking" [] r = "repair" -> "inspecting"
                  [] r = "runtime" -> "startup" [] OTHER -> "ensure"

NoteStart(p) ==
    early' = IF secret \in {None, Empty} THEN early \cup {p} ELSE early \ {p}

Started(p, r) ==
    /\ NoteStart(p)
    /\ ~Alive(p) /\ starts < MaxStarts /\ starts' = starts + 1
    /\ role' = [role EXCEPT ![p] = r]
    /\ known' = [known EXCEPT ![p] = None]
    /\ target' = [target EXCEPT ![p] = None]

Begin(p, r) ==
    /\ Started(p, r)
    /\ Goes(p, FirstStep(r))
    /\ UNCHANGED <<secret, lockFile, handle, flocked, pidFile, scheduler, raced>>

\* What the system does when a process ends: its handles are closed.
Ended(p) ==
    /\ Goes(p, "off")
    /\ handle' = [handle EXCEPT ![p] = NoInode]
    /\ flocked' = flocked \ {p}
    /\ scheduler' = IF scheduler = p THEN None ELSE scheduler
    /\ UNCHANGED <<role, target, known, secret, lockFile, pidFile, raced, early, starts>>

Crash(p) == Alive(p) /\ Ended(p)

files == <<lockFile, handle, flocked, pidFile, scheduler, raced, early, starts>>

-----------------------------------------------------------------------------
(* _ensure_secret(): the file is read if it is there; else it is created    *)
(* exclusively, and written a step later.                                   *)

AfterSecret(p) == IF role[p] = "daemon" THEN "opening" ELSE "asking"

ReadSecret(p) ==
    /\ pc[p] = "ensure"
    /\ IF secret = None THEN Goes(p, "creating") /\ UNCHANGED known
       ELSE /\ known' = [known EXCEPT ![p] = secret]
            /\ Goes(p, AfterSecret(p))
    /\ UNCHANGED <<role, target, secret, files>>

CreateSecret_Mutation(p) ==
    /\ pc[p] = "creating"
    /\ secret' = Empty /\ Goes(p, "writing")
    /\ UNCHANGED <<role, target, known, files>>

CreateSecret(p) ==
    /\ pc[p] = "creating"
    /\ IF secret = None THEN secret' = Empty /\ Goes(p, "writing") /\ UNCHANGED known
       ELSE /\ known' = [known EXCEPT ![p] = secret]
            /\ Goes(p, AfterSecret(p)) /\ UNCHANGED secret
    /\ UNCHANGED <<role, target, files>>

\* The value is random: that of p is called p.
WriteSecret(p) ==
    /\ pc[p] = "writing"
    /\ secret' = p /\ known' = [known EXCEPT ![p] = p]
    /\ Goes(p, AfterSecret(p))
    /\ UNCHANGED <<role, target, files>>

-----------------------------------------------------------------------------
(* The daemon: DaemonLock around the server.                                *)

OpenLock(p) ==
    /\ pc[p] = "opening"
    /\ LET fresh == CHOOSE i \in Inodes : \A q \in Procs : handle[q] # i
           inode == IF lockFile = NoInode THEN fresh ELSE lockFile
       IN  lockFile' = inode /\ handle' = [handle EXCEPT ![p] = inode]
    /\ Goes(p, "locking")
    /\ UNCHANGED <<role, target, known, secret, flocked, pidFile, scheduler, raced,
                   early, starts>>

LockTaken_Mutation(p) == FALSE
LockTaken(p) == \E q \in flocked : handle[q] = handle[p]

\* Without waiting: a daemon that is refused the lock ends.
TakeLock(p) ==
    /\ pc[p] = "locking"
    /\ IF LockTaken(p) THEN Ended(p)
       ELSE /\ flocked' = flocked \cup {p}
            /\ Goes(p, "marking")
            /\ UNCHANGED <<role, target, known, secret, lockFile, handle, pidFile, scheduler,
                           raced, early, starts>>

\* daemon.pid is truncated, then written.
MarkPid(p) ==
    /\ \/ pc[p] = "marking" /\ pidFile' = Empty /\ Goes(p, "registering")
       \/ pc[p] = "registering" /\ pidFile' = p /\ Goes(p, "app")
    /\ UNCHANGED <<role, target, known, secret, lockFile, handle, flocked, scheduler, raced,
                   early, starts>>

\* create_app() reads the secret once more, and keeps what it reads.
CreateApp(p) ==
    /\ pc[p] = "app"
    /\ known' = [known EXCEPT ![p] = secret]
    /\ Goes(p, "startup")
    /\ UNCHANGED <<role, target, secret, files>>

SchedulerFree_Mutation(p) == pidFile \in {p, None}
SchedulerFree(p) == scheduler = None

\* TrainingRuntime.start(): the daemon at start-up, a program at its first command.
\* Who does not get scheduler.lock ends in an error.
StartRuntime(p) ==
    /\ pc[p] = "startup"
    /\ IF SchedulerFree(p)
       THEN /\ scheduler' = p
            /\ Goes(p, IF role[p] = "daemon" THEN "serving" ELSE "running")
       ELSE /\ UNCHANGED scheduler
            /\ Goes(p, IF role[p] = "daemon" THEN "leaving" ELSE "off")
    /\ UNCHANGED <<role, target, known, secret, lockFile, handle, flocked, pidFile, raced,
                   early, starts>>

\* close(): scheduler.lock is kept, until the process ends, if a worker does not drain.
CloseRuntime(p) ==
    /\ pc[p] \in {"serving", "running"}
    /\ scheduler' \in IF role[p] = "daemon" THEN {p, None} ELSE {None}
    /\ Goes(p, IF role[p] = "daemon" THEN "leaving" ELSE "off")
    /\ UNCHANGED <<role, target, known, secret, lockFile, handle, flocked, pidFile, raced,
                   early, starts>>

\* __exit__(): the pid file is removed if it is one's own, then the lock is given up.
Leave(p) ==
    /\ \/ pc[p] = "leaving" /\ UNCHANGED pidFile
          /\ Goes(p, IF pidFile = p THEN "unlinking" ELSE "unlocking")
       \/ pc[p] = "unlinking" /\ pidFile' = None /\ Goes(p, "unlocking")
    /\ UNCHANGED <<role, target, known, secret, lockFile, handle, flocked, scheduler, raced,
                   early, starts>>

Unlock(p) == pc[p] = "unlocking" /\ Ended(p)

-----------------------------------------------------------------------------
(* start_daemon() and stop_daemon()                                         *)

\* A daemon that answers ends the start: it runs already, or, if it does not name the
\* workspace, is taken for another's.  Else a child is started as a daemon.
StartDaemon(p) ==
    /\ role[p] = "starter" /\ pc[p] = "asking"
    /\ \/ /\ Serving # {} /\ Goes(p, "off")
          /\ UNCHANGED <<role, target, known, early, starts>>
       \/ \E child \in Procs :
            /\ Serving = {} /\ ~Alive(child) /\ starts < MaxStarts /\ starts' = starts + 1
            /\ NoteStart(child)
            /\ role' = [role EXCEPT ![child] = "daemon"]
            /\ known' = [known EXCEPT ![child] = None]
            /\ target' = [target EXCEPT ![p] = child, ![child] = None]
            /\ pc' = [pc EXCEPT ![p] = "polling", ![child] = "ensure"]
    /\ UNCHANGED <<secret, lockFile, handle, flocked, pidFile, scheduler, raced>>

\* The child has ended, or some daemon answers.
StartEnds(p) ==
    /\ pc[p] = "polling"
    /\ ~Alive(target[p]) \/ Serving # {}
    /\ Goes(p, "off")
    /\ UNCHANGED <<role, target, known, secret, files>>

\* SIGTERM: a server that runs shuts down; everything else ends at once.
Terminated(q, p) ==
    IF pc[q] = "serving"
    THEN /\ pc' = [pc EXCEPT ![q] = "leaving", ![p] = "waiting"]
         /\ scheduler' \in {q, None}
         /\ UNCHANGED <<handle, flocked>>
    ELSE IF pc[q] \in {"off", "leaving", "unlinking", "unlocking"}
    THEN Goes(p, "waiting") /\ UNCHANGED <<handle, flocked, scheduler>>
    ELSE /\ pc' = [pc EXCEPT ![q] = "off", ![p] = "waiting"]
         /\ handle' = [handle EXCEPT ![q] = NoInode] /\ flocked' = flocked \ {q}
         /\ scheduler' = IF scheduler = q THEN None ELSE scheduler

\* A starter whose time is up, and a stopper, which asked a daemon for its pid.
Terminate(p) ==
    /\ pc[p] \in {"polling", "killing"} /\ target[p] # p
    /\ Terminated(target[p], p)
    /\ UNCHANGED <<role, target, known, secret, lockFile, pidFile, raced, early, starts>>

\* load_user_secret() refuses a secret that is missing or empty, and a daemon tells its
\* pid and its workspace only to those who know the secret it works with.
StopDaemon(p) ==
    /\ role[p] = "stopper" /\ pc[p] = "asking"
    /\ LET told == {q \in Serving : known[q] = secret} IN
       IF secret \in {None, Empty} \/ told = {}
       THEN Goes(p, "off") /\ UNCHANGED <<known, target>>
       ELSE /\ known' = [known EXCEPT ![p] = secret]
            /\ \E q \in told : target' = [target EXCEPT ![p] = q]
            /\ Goes(p, "killing")
    /\ UNCHANGED <<role, secret, files>>

\* Until no daemon answers, or the time is up; a starter raises at once.
StopEnds(p) ==
    /\ pc[p] = "waiting" /\ Goes(p, "off")
    /\ UNCHANGED <<role, target, known, secret, files>>

-----------------------------------------------------------------------------
(* repair_workspace(apply=True)                                             *)

Dead(pid) == pid \in Procs /\ ~Alive(pid)

\* A pid that cannot be read, or that nobody has, may be removed.
Inspect(p) ==
    /\ pc[p] = "inspecting"
    /\ Goes(p, IF pidFile = Empty \/ Dead(pidFile) THEN "removing" ELSE "off")
    /\ UNCHANGED <<role, target, known, secret, files>>

LockIsOpen == \E q \in Procs : handle[q] = lockFile /\ handle[q] # NoInode

\* The pid file, whatever it holds by now, and then the lock file.
Remove(p) ==
    /\ \/ /\ pc[p] = "removing"
          /\ IF pidFile = None THEN Goes(p, "off") /\ UNCHANGED <<pidFile, raced>>
             ELSE /\ pidFile' = None /\ Goes(p, "clearing")
                  /\ raced' = (raced \/ LockIsOpen)
          /\ UNCHANGED lockFile
       \/ /\ pc[p] = "clearing"
          /\ lockFile' = NoInode /\ Goes(p, "off")
          /\ raced' = (raced \/ LockIsOpen)
          /\ UNCHANGED pidFile
    /\ UNCHANGED <<role, target, known, secret, handle, flocked, scheduler, early, starts>>

-----------------------------------------------------------------------------

Acts(p) ==
    \/ \E r \in Roles : Begin(p, r)
    \/ Crash(p)
    \/ ReadSecret(p) \/ CreateSecret(p) \/ WriteSecret(p)
    \/ OpenLock(p) \/ TakeLock(p) \/ MarkPid(p) \/ CreateApp(p) \/ StartRuntime(p)
    \/ CloseRuntime(p) \/ Leave(p) \/ Unlock(p)
    \/ StartDaemon(p) \/ StartEnds(p) \/ Terminate(p) \/ StopDaemon(p) \/ StopEnds(p)
    \/ Inspect(p) \/ Remove(p)

Next == \E p \in Procs : Acts(p)

Spec == Init /\ [][Next]_vars

TypeOK ==
    /\ pc \in [Procs -> Steps] /\ role \in [Procs -> Roles]
    /\ target \in [Procs -> Procs \cup {None}]
    /\ known \in [Procs -> Procs \cup {None, Empty}]
    /\ secret \in Procs \cup {None, Empty} /\ pidFile \in Procs \cup {None, Empty}
    /\ lockFile \in Inodes \cup {NoInode} /\ handle \in [Procs -> Inodes \cup {NoInode}]
    /\ flocked \subseteq {p \in Procs : handle[p] # NoInode}
    /\ scheduler \in Procs \cup {None}
    /\ raced \in BOOLEAN /\ early \subseteq Procs /\ starts \in 0..MaxStarts

\* One process at most runs a scheduler over the database of the workspace, whether
\* it is a daemon or a program: daemons that were started twice, crashed, were
\* stopped or lost their lock file to a repair included.
OneRuntime ==
    \A p, q \in Procs :
        pc[p] \in {"serving", "running"} /\ pc[q] \in {"serving", "running"} => p = q

\* As long as no repair removed files under a daemon that had opened them, the lock is
\* exclusive, and a daemon that answers is the one daemon.pid names: stale files of a
\* crash, a start that is refused and a daemon that leaves late never hide it.
DaemonIsRegistered ==
    raced \/ /\ \A p, q \in flocked : p = q
             /\ \A p \in Serving : p \in flocked /\ pidFile = p

\* Whoever works with a secret works with what the file holds, also when two processes
\* create it together: no secret is overwritten, by a late creator or after a crash.  The
\* exception is a process that was started before the secret was written: it may have
\* read the file in the moment between its creation and the writing, and then works with
\* the empty secret.  (So does everybody, for ever, if the creator died in that moment.)
SecretIsShared ==
    \A p \in Procs :
        known[p] # None => \/ known[p] = secret
                           \/ known[p] = Empty /\ p \in early

\* ensure_user_secret(): "Create/read the credential for trusted local user clients."
\* A daemon that works with an empty secret refuses every such client.
ClientsAreKnown == \A p \in Serving : known[p] # Empty

\* DaemonLock: "Exclusive workspace lock held for the complete daemon lifetime."
LockIsExclusive == \A p, q \in flocked : p = q
=============================================================================
