-------------------------- MODULE Workspace_proofs --------------------------
(***************************************************************************)
(* One scheduler and one secret per workspace, for any number of processes *)
(* and starts.  Neither needs the daemon's lock: the first rests on        *)
(* scheduler.lock alone, the second on the exclusive creation of the file  *)
(* and on nobody starting, once it is written, with the empty secret.      *)
(* The third argument is the daemon's lock itself: who has daemon.lock     *)
(* open has the inode it names, so that two locks are on one inode, as     *)
(* long as no repair unlinks the name under a daemon that opened it.       *)
(***************************************************************************)
EXTENDS Workspace, FiniteSetTheorems, TLAPS

\* What the three arguments use of the types.
Typed ==
    /\ pc \in [Procs -> Steps] /\ role \in [Procs -> Roles]
    /\ target \in [Procs -> Procs \cup {None}]
    /\ known \in [Procs -> Procs \cup {None, Empty}]
    /\ secret \in Procs \cup {None, Empty}
    /\ scheduler \in Procs \cup {None}

\* Who terminates a process has a pid to do so.
TargetIsKnown == \A p \in Procs : pc[p] \in {"polling", "killing"} => target[p] \in Procs

\* A runtime that serves holds scheduler.lock; others may hold it without serving.
RuntimeHoldsLock == \A p \in Procs : pc[p] \in {"serving", "running"} => scheduler = p

\* A process that is about to write the secret is the only one, and found no secret.
WriterIsAlone ==
    \A p \in Procs : pc[p] = "writing" =>
        secret = Empty /\ \A q \in Procs : pc[q] = "writing" => q = p

\* While the secret is not written, everybody alive has been started before it is, and
\* only who was started before it can have read the empty secret.
EmptyIsEarly ==
    /\ secret \in {None, Empty} => \A p \in Procs : Alive(p) => p \in early
    /\ \A p \in Procs : known[p] = Empty => p \in early

RuntimeInv == Typed /\ TargetIsKnown /\ RuntimeHoldsLock
SecretInv  == Typed /\ WriterIsAlone /\ EmptyIsEarly /\ SecretIsShared

\* Who holds the lock on an inode of daemon.lock, who has one open, and who is in daemon.pid.
InLock(q)     == \/ pc[q] \in {"marking", "registering", "app", "serving", "leaving", "unlinking",
                                "unlocking"}
                 \/ (pc[q] = "startup" /\ role[q] = "daemon")
Opened(q)     == pc[q] = "locking" \/ InLock(q)
Registered(q) == pc[q] \in {"app", "serving"} \/ (pc[q] = "startup" /\ role[q] = "daemon")

\* Only daemons go through the lock, and only programs run without it.
RolesFit ==
    \A q \in Procs :
        /\ pc[q] \in {"opening", "locking", "marking", "registering", "app", "serving", "leaving",
                      "unlinking", "unlocking"} => role[q] = "daemon"
        /\ pc[q] = "running" => role[q] # "daemon"

\* As long as no repair interfered, all who have the lock file open have the inode it
\* names, one of them holds the lock, and it is that one daemon.pid names.
LockInv ==
    /\ raced \in BOOLEAN
    /\ RolesFit
    /\ raced \/ /\ lockFile \in Inodes \cup {NoInode} /\ handle \in [Procs -> Inodes \cup {NoInode}]
                /\ \A q \in Procs : handle[q] # NoInode <=> Opened(q)
                /\ \A q \in Procs : Opened(q) => handle[q] = lockFile
                /\ flocked = {q \in Procs : InLock(q)}
                /\ \A q, r \in flocked : q = r
                /\ \A q \in Procs : Registered(q) => pidFile = q

LEMMA InitTyped == Init => RuntimeInv /\ SecretInv
  BY ProcsAssumption DEF Init, RuntimeInv, SecretInv, Typed, TargetIsKnown, RuntimeHoldsLock,
     WriterIsAlone, EmptyIsEarly, Alive, SecretIsShared, Steps, Roles, None, Empty

\* No step leaves the types.
LEMMA StepTyped ==
    ASSUME Typed, TargetIsKnown, NEW p \in Procs, Acts(p)
    PROVE  Typed'
<1> USE DEF Typed, Goes
<1>1. ASSUME NEW r \in Roles, Begin(p, r)  PROVE Typed'
  <2>1. FirstStep(r) \in Steps
    BY DEF FirstStep, Steps
  <2> QED  BY <1>1, <2>1 DEF Begin, Started
<1>2. CASE Crash(p) \/ Unlock(p)
  BY <1>2 DEF Crash, Unlock, Ended, Steps
<1>3. CASE ReadSecret(p) \/ CreateSecret(p) \/ WriteSecret(p)
  <2>1. AfterSecret(p) \in Steps
    BY DEF AfterSecret, Steps
  <2>2. "creating" \in Steps /\ "writing" \in Steps
    BY DEF Steps
  <2>3. CASE ReadSecret(p)
    BY <2>3, <2>1, <2>2 DEF ReadSecret, files
  <2>4. CASE CreateSecret(p)
    BY <2>4, <2>1, <2>2 DEF CreateSecret, files
  <2>5. CASE WriteSecret(p)
    BY <2>5, <2>1 DEF WriteSecret, files
  <2> QED  BY <1>3, <2>3, <2>4, <2>5
<1>4. CASE OpenLock(p)
  <2>1. "locking" \in Steps
    BY DEF Steps
  <2> QED  BY <1>4, <2>1 DEF OpenLock
<1>5. CASE TakeLock(p)
  BY <1>5 DEF TakeLock, Ended, Steps
<1>6. CASE MarkPid(p)
  BY <1>6 DEF MarkPid, Steps
<1>7. CASE CreateApp(p)
  BY <1>7 DEF CreateApp, files, Steps
<1>8. CASE StartRuntime(p)
  BY <1>8 DEF StartRuntime, Steps
<1>9. CASE CloseRuntime(p)
  BY <1>9 DEF CloseRuntime, Steps
<1>10. CASE Leave(p)
  BY <1>10 DEF Leave, Steps
<1>11. CASE StartDaemon(p)
  BY <1>11 DEF StartDaemon, Steps, Roles
<1>12. CASE StartEnds(p)
  BY <1>12 DEF StartEnds, files, Steps
<1>13. CASE Terminate(p)
  BY <1>13 DEF Terminate, Terminated, TargetIsKnown, Steps
<1>14. CASE StopDaemon(p)
  BY <1>14 DEF StopDaemon, files, Steps, Serving
<1>15. CASE StopEnds(p)
  BY <1>15 DEF StopEnds, files, Steps
<1>16. CASE Inspect(p)
  BY <1>16 DEF Inspect, files, Steps
<1>17. CASE Remove(p)
  BY <1>17 DEF Remove, Steps
<1> QED  BY <1>1, <1>2, <1>3, <1>4, <1>5, <1>6, <1>7, <1>8, <1>9, <1>10, <1>11, <1>12,
            <1>13, <1>14, <1>15, <1>16, <1>17 DEF Acts

\* No step lets a process serve without the lock: who starts took a free one, and
\* who stops serving is the only one that gives it up.
LEMMA StepRuntime ==
    ASSUME RuntimeInv, NEW p \in Procs, Acts(p)
    PROVE  TargetIsKnown' /\ RuntimeHoldsLock'
<1> USE ProcsAssumption DEF RuntimeInv, Typed, TargetIsKnown, RuntimeHoldsLock, Goes
<1>1. ASSUME NEW r \in Roles, Begin(p, r)  PROVE TargetIsKnown' /\ RuntimeHoldsLock'
  <2>1. FirstStep(r) \notin {"serving", "running", "polling", "killing"}
    BY DEF FirstStep
  <2> QED  BY <1>1, <2>1 DEF Begin, Started
<1>2. CASE Crash(p) \/ Unlock(p)
  BY <1>2 DEF Crash, Unlock, Ended
<1>3. CASE ReadSecret(p) \/ CreateSecret(p) \/ WriteSecret(p)
  <2>1. AfterSecret(p) \notin {"serving", "running", "polling", "killing"}
    BY DEF AfterSecret
  <2>3. CASE ReadSecret(p)
    BY <2>3, <2>1 DEF ReadSecret, files
  <2>4. CASE CreateSecret(p)
    BY <2>4, <2>1 DEF CreateSecret, files
  <2>5. CASE WriteSecret(p)
    BY <2>5, <2>1 DEF WriteSecret, files
  <2> QED  BY <1>3, <2>3, <2>4, <2>5
<1>4. CASE OpenLock(p)
  BY <1>4 DEF OpenLock
<1>5. CASE TakeLock(p)
  BY <1>5 DEF TakeLock, Ended
<1>6. CASE MarkPid(p)
  BY <1>6 DEF MarkPid
<1>7. CASE CreateApp(p)
  BY <1>7 DEF CreateApp, files
<1>8. CASE StartRuntime(p)
  BY <1>8 DEF StartRuntime, SchedulerFree
<1>9. CASE CloseRuntime(p)
  BY <1>9 DEF CloseRuntime
<1>10. CASE Leave(p)
  BY <1>10 DEF Leave
<1>11. CASE StartDaemon(p)
  BY <1>11 DEF StartDaemon, Alive
<1>12. CASE StartEnds(p)
  BY <1>12 DEF StartEnds, files
<1>13. CASE Terminate(p)
  BY <1>13 DEF Terminate, Terminated
<1>14. CASE StopDaemon(p)
  BY <1>14 DEF StopDaemon, files, Serving
<1>15. CASE StopEnds(p)
  BY <1>15 DEF StopEnds, files
<1>16. CASE Inspect(p)
  BY <1>16 DEF Inspect, files
<1>17. CASE Remove(p)
  BY <1>17 DEF Remove
<1> QED  BY <1>1, <1>2, <1>3, <1>4, <1>5, <1>6, <1>7, <1>8, <1>9, <1>10, <1>11, <1>12,
            <1>13, <1>14, <1>15, <1>16, <1>17 DEF Acts

\* The steps on the secret keep one writer; every other step keeps who writes, and
\* gives a process no secret but the one in the file.
LEMMA StepSecret ==
    ASSUME SecretInv, TargetIsKnown, NEW p \in Procs, Acts(p)
    PROVE  WriterIsAlone' /\ SecretIsShared'
<1> USE ProcsAssumption DEF SecretInv, Typed, WriterIsAlone, SecretIsShared, Goes
<1>1. ASSUME NEW r \in Roles, Begin(p, r)  PROVE WriterIsAlone' /\ SecretIsShared'
  <2>1. FirstStep(r) # "writing"
    BY DEF FirstStep
  <2> QED  BY <1>1, <2>1 DEF Begin, Started, NoteStart
<1>2. CASE Crash(p) \/ Unlock(p)
  BY <1>2 DEF Crash, Unlock, Ended
<1>3. CASE ReadSecret(p) \/ CreateSecret(p) \/ WriteSecret(p)
  <2>1. AfterSecret(p) # "writing"
    BY DEF AfterSecret
  <2>3. CASE ReadSecret(p)
    BY <2>3, <2>1 DEF ReadSecret, files
  <2>4. CASE CreateSecret(p)
    BY <2>4, <2>1 DEF CreateSecret, files, None, Empty
  <2>5. CASE WriteSecret(p)
    BY <2>5, <2>1 DEF WriteSecret, EmptyIsEarly, files
  <2> QED  BY <1>3, <2>3, <2>4, <2>5
<1>4. CASE OpenLock(p)
  BY <1>4 DEF OpenLock
<1>5. CASE TakeLock(p)
  BY <1>5 DEF TakeLock, Ended
<1>6. CASE MarkPid(p)
  BY <1>6 DEF MarkPid
<1>7. CASE CreateApp(p)
  BY <1>7 DEF CreateApp, files
<1>8. CASE StartRuntime(p)
  BY <1>8 DEF StartRuntime
<1>9. CASE CloseRuntime(p)
  BY <1>9 DEF CloseRuntime
<1>10. CASE Leave(p)
  BY <1>10 DEF Leave
<1>11. CASE StartDaemon(p)
  BY <1>11 DEF StartDaemon, NoteStart, Alive
<1>12. CASE StartEnds(p)
  BY <1>12 DEF StartEnds, files
<1>13. CASE Terminate(p)
  BY <1>13 DEF Terminate, Terminated, TargetIsKnown
<1>14. CASE StopDaemon(p)
  BY <1>14 DEF StopDaemon, files
<1>15. CASE StopEnds(p)
  BY <1>15 DEF StopEnds, files
<1>16. CASE Inspect(p)
  BY <1>16 DEF Inspect, files
<1>17. CASE Remove(p)
  BY <1>17 DEF Remove
<1> QED  BY <1>1, <1>2, <1>3, <1>4, <1>5, <1>6, <1>7, <1>8, <1>9, <1>10, <1>11, <1>12,
            <1>13, <1>14, <1>15, <1>16, <1>17 DEF Acts

\* Who starts before the secret is written is noted, and nobody else reads the file empty:
\* once written, it never is again.
LEMMA StepEarly ==
    ASSUME SecretInv, TargetIsKnown, NEW p \in Procs, Acts(p)
    PROVE  EmptyIsEarly'
<1> USE ProcsAssumption DEF SecretInv, Typed, EmptyIsEarly, Alive, Goes, None, Empty
<1>1. ASSUME NEW r \in Roles, Begin(p, r)  PROVE EmptyIsEarly'
  BY <1>1 DEF Begin, Started, NoteStart
<1>2. CASE Crash(p) \/ Unlock(p)
  BY <1>2 DEF Crash, Unlock, Ended
<1>3. CASE ReadSecret(p) \/ CreateSecret(p) \/ WriteSecret(p)
  <2>3. CASE ReadSecret(p)
    BY <2>3 DEF ReadSecret, files
  <2>4. CASE CreateSecret(p)
    BY <2>4 DEF CreateSecret, files
  <2>5. CASE WriteSecret(p)
    BY <2>5 DEF WriteSecret, files
  <2> QED  BY <1>3, <2>3, <2>4, <2>5
<1>4. CASE OpenLock(p)
  BY <1>4 DEF OpenLock
<1>5. CASE TakeLock(p)
  BY <1>5 DEF TakeLock, Ended
<1>6. CASE MarkPid(p)
  BY <1>6 DEF MarkPid
<1>7. CASE CreateApp(p)
  BY <1>7 DEF CreateApp, files
<1>8. CASE StartRuntime(p)
  BY <1>8 DEF StartRuntime
<1>9. CASE CloseRuntime(p)
  BY <1>9 DEF CloseRuntime
<1>10. CASE Leave(p)
  BY <1>10 DEF Leave
<1>11. CASE StartDaemon(p)
  BY <1>11 DEF StartDaemon, NoteStart
<1>12. CASE StartEnds(p)
  BY <1>12 DEF StartEnds, files
<1>13. CASE Terminate(p)
  BY <1>13 DEF Terminate, Terminated, TargetIsKnown
<1>14. CASE StopDaemon(p)
  BY <1>14 DEF StopDaemon, files
<1>15. CASE StopEnds(p)
  BY <1>15 DEF StopEnds, files
<1>16. CASE Inspect(p)
  BY <1>16 DEF Inspect, files
<1>17. CASE Remove(p)
  BY <1>17 DEF Remove
<1> QED  BY <1>1, <1>2, <1>3, <1>4, <1>5, <1>6, <1>7, <1>8, <1>9, <1>10, <1>11, <1>12,
            <1>13, <1>14, <1>15, <1>16, <1>17 DEF Acts

\* Where a process that is started begins, and where one goes that has the secret.
LEMMA FirstSteps ==
    ASSUME NEW r \in Roles
    PROVE  /\ FirstStep(r) \in {"ensure", "asking", "inspecting", "startup"}
           /\ FirstStep(r) = "startup" => r = "runtime"
  BY DEF FirstStep, Roles

LEMMA AfterSecretSteps ==
    ASSUME NEW p \in Procs
    PROVE  /\ AfterSecret(p) \in {"asking", "opening"}
           /\ AfterSecret(p) = "opening" => role[p] = "daemon"
  BY DEF AfterSecret

\* Without a repair, a daemon opens the inode the others have open, takes a free lock and
\* writes its pid before it answers; who leaves gives up the pid file before the lock.
LEMMA StepLock ==
    ASSUME Typed, TargetIsKnown, LockInv, NEW p \in Procs, Acts(p)
    PROVE  LockInv'
<1> USE DEF Typed, Goes, LockInv, RolesFit, Opened, InLock, Registered
<1>0. Cardinality(Procs) \in Nat
  BY ProcsAssumption, FS_CardinalityType
<1>1. ASSUME NEW r \in Roles, Begin(p, r)  PROVE LockInv'
  BY <1>1, FirstSteps DEF Begin, Started, Alive
<1>2. CASE Crash(p) \/ Unlock(p)
  BY <1>2 DEF Crash, Unlock, Ended
<1>3. CASE ReadSecret(p) \/ CreateSecret(p) \/ WriteSecret(p)
  <2>3. CASE ReadSecret(p)
    BY <2>3, AfterSecretSteps DEF ReadSecret, files
  <2>4. CASE CreateSecret(p)
    BY <2>4, AfterSecretSteps DEF CreateSecret, files
  <2>5. CASE WriteSecret(p)
    BY <2>5, AfterSecretSteps DEF WriteSecret, files
  <2> QED  BY <1>3, <2>3, <2>4, <2>5
<1>4. CASE OpenLock(p)
  <2> DEFINE fresh == CHOOSE i \in Inodes : \A q \in Procs : handle[q] # i
  <2>1. ~raced /\ lockFile = NoInode => fresh \in Inodes
    <3>1. 1 \in Inodes
      BY <1>0 DEF Inodes
    <3>2. ~raced /\ lockFile = NoInode => \A q \in Procs : handle[q] = NoInode
      OBVIOUS
    <3> QED  BY <3>1, <3>2 DEF NoInode
  <2>2. NoInode \notin Inodes
    BY <1>0 DEF Inodes, NoInode
  <2> HIDE DEF fresh
  <2> QED  BY <1>4, <2>1, <2>2 DEF OpenLock, fresh
<1>5. CASE TakeLock(p)
  BY <1>5 DEF TakeLock, LockTaken, Ended
<1>6. CASE MarkPid(p)
  BY <1>6 DEF MarkPid
<1>7. CASE CreateApp(p)
  BY <1>7 DEF CreateApp, files
<1>8. CASE StartRuntime(p)
  BY <1>8 DEF StartRuntime
<1>9. CASE CloseRuntime(p)
  BY <1>9 DEF CloseRuntime
<1>10. CASE Leave(p)
  BY <1>10 DEF Leave
<1>11. CASE StartDaemon(p)
  BY <1>11 DEF StartDaemon, Alive
<1>12. CASE StartEnds(p)
  BY <1>12 DEF StartEnds, files
<1>13. CASE Terminate(p)
  BY <1>13 DEF Terminate, Terminated, TargetIsKnown
<1>14. CASE StopDaemon(p)
  BY <1>14 DEF StopDaemon, files
<1>15. CASE StopEnds(p)
  BY <1>15 DEF StopEnds, files
<1>16. CASE Inspect(p)
  BY <1>16 DEF Inspect, files
<1>17. CASE Remove(p)
  <2>1. CASE raced'
    BY <1>17, <2>1 DEF Remove
  <2>2. CASE ~raced' /\ pidFile' = pidFile /\ lockFile' = lockFile /\ raced' = raced
    BY <1>17, <2>2 DEF Remove
  <2>3. CASE ~raced' /\ raced' = (raced \/ LockIsOpen)
    <3>1. ~raced /\ \A q \in Procs : ~Opened(q)
      BY <2>3 DEF LockIsOpen
    <3> QED  BY <1>17, <2>3, <3>1 DEF Remove
  <2>4. \/ pidFile' = pidFile /\ lockFile' = lockFile /\ raced' = raced
        \/ raced' = (raced \/ LockIsOpen)
    BY <1>17, Zenon DEF Remove
  <2> QED  BY <2>1, <2>2, <2>3, <2>4, Zenon
<1> QED  BY <1>1, <1>2, <1>3, <1>4, <1>5, <1>6, <1>7, <1>8, <1>9, <1>10, <1>11, <1>12,
            <1>13, <1>14, <1>15, <1>16, <1>17 DEF Acts

\* The inductive invariant of the three arguments.
THEOREM Invariance == Spec => [](RuntimeInv /\ SecretInv /\ LockInv)
<1>1. Init => RuntimeInv /\ SecretInv
  BY InitTyped
<1>2. Init => LockInv
  BY DEF Init, LockInv, RolesFit, Opened, InLock, Registered
<1>3. ASSUME RuntimeInv, SecretInv, LockInv, [Next]_vars
      PROVE  RuntimeInv' /\ SecretInv' /\ LockInv'
  <2>1. ASSUME NEW p \in Procs, Acts(p)  PROVE RuntimeInv' /\ SecretInv' /\ LockInv'
    <3>1. Typed'
      BY <1>3, <2>1, StepTyped DEF RuntimeInv
    <3>2. TargetIsKnown' /\ RuntimeHoldsLock'
      BY <1>3, <2>1, StepRuntime
    <3>3. WriterIsAlone' /\ SecretIsShared' /\ EmptyIsEarly'
      BY <1>3, <2>1, StepSecret, StepEarly DEF RuntimeInv
    <3>4. LockInv'
      BY <1>3, <2>1, StepLock DEF RuntimeInv
    <3> QED  BY <3>1, <3>2, <3>3, <3>4 DEF RuntimeInv, SecretInv
  <2>2. CASE UNCHANGED vars
    <3>1. RuntimeInv' /\ SecretInv'
      BY <1>3, <2>2 DEF vars, RuntimeInv, SecretInv, Typed, TargetIsKnown, RuntimeHoldsLock,
         WriterIsAlone, EmptyIsEarly, Alive, SecretIsShared
    <3>2. LockInv'
      BY <1>3, <2>2 DEF vars, LockInv, RolesFit, Opened, InLock, Registered
    <3> QED  BY <3>1, <3>2
  <2> QED  BY <1>3, <2>1, <2>2 DEF Next
<1> QED  BY <1>1, <1>2, <1>3, PTL DEF Spec

\* One process at most runs a scheduler over a workspace: scheduler.lock
\* (runtime.py, _acquire_scheduler_lock) is enough, whatever becomes of the other files.
THEOREM RuntimeIsAlone == Spec => []OneRuntime
<1>1. RuntimeInv => OneRuntime
  BY DEF RuntimeInv, RuntimeHoldsLock, OneRuntime
<1> QED  BY <1>1, Invariance, PTL

\* Whoever works with a secret works with what the file holds: _ensure_secret()
\* (security.py) creates it exclusively, and who comes second never overwrites it.  Only a
\* process that was started before the secret was written may work with the empty one
\* (server.py, create_app(), keeps what it reads); nobody who is started later does.
THEOREM SecretIsOne == Spec => []SecretIsShared
<1>1. SecretInv => SecretIsShared
  BY DEF SecretInv
<1> QED  BY <1>1, Invariance, PTL

\* DaemonLock (daemon.py) is exclusive, and a daemon that answers holds it and is the one
\* daemon.pid names, whatever crashed, was refused or leaves late, until a repair
\* (maintenance.py) removes the files under a daemon that has opened them.
THEOREM DaemonIsFound == Spec => []DaemonIsRegistered
<1>1. LockInv => DaemonIsRegistered
  BY DEF LockInv, DaemonIsRegistered, Serving, InLock, Registered
<1> QED  BY <1>1, Invariance, PTL
=============================================================================
