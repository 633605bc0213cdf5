---------------------------- MODULE RunLockProofs ---------------------------
(***************************************************************************)
(* Proofs about RunLock, for any runs in any processes.                    *)
(*                                                                         *)
(* Two facts carry everything.  A run that has created the lock and was    *)
(* not robbed of it still owns the file (OwnersKeepTheLock), and a run     *)
(* that is under way is one of a live process (ActiveRunsLive), so that    *)
(* the owner of a lock can only vanish together with its process.          *)
(***************************************************************************)
EXTENDS RunLock, TLAPS

OwnersKeepTheLock ==
  \A r \in Runs : pc[r] \in {"write", "running"} /\ r \notin robbed => lock.owner = r

ActiveRunsLive == \A r \in Runs : pc[r] \in Active => ProcOf[r] \in alive

IInv == TypeOK /\ ActiveRunsLive /\ LockIsAccountedFor /\ OwnersKeepTheLock

-----------------------------------------------------------------------------
LEMMA InitIInv == Init => IInv
BY RunsAssumption
DEF Init, IInv, TypeOK, PC, Active, Synchronous, Startup, Cleanup, Absent,
    ActiveRunsLive, LockIsAccountedFor, Exists, OwnersKeepTheLock

\* A run that is past the lock's creation, or not yet there.
Holding == Cleanup \cup {"write", "running"}

(***************************************************************************)
(* A step that leaves the file alone.                                      *)
(***************************************************************************)
LEMMA QuietStep ==
  ASSUME IInv, NEW r \in Runs, NEW p \in PC, TypeOK',
         pc' = [pc EXCEPT ![r] = p],
         p \in Active => ProcOf[r] \in alive,
         p \notin {"write", "running"},
         UNCHANGED <<lock, alive, robbed>>,
         Exists /\ pc[r] \in Holding => p \in Holding
  PROVE  IInv'
<1> USE DEF IInv
<1>1. \A s \in Runs : s # r => pc'[s] = pc[s]
  BY DEF TypeOK
<1>2. pc'[r] = p
  BY DEF TypeOK
<1>3. ActiveRunsLive'
  BY <1>1, <1>2 DEF ActiveRunsLive
<1>4. LockIsAccountedFor'
  <2> SUFFICES ASSUME Exists, ProcOf[lock.owner] \in alive
               PROVE  pc'[lock.owner] \in Holding
    BY DEF LockIsAccountedFor, Exists, Holding
  <2>1. lock.owner \in Runs /\ pc[lock.owner] \in Holding
    BY DEF LockIsAccountedFor, TypeOK, Exists, Holding
  <2> QED
    BY <1>1, <1>2, <2>1
<1>5. OwnersKeepTheLock'
  BY <1>1, <1>2 DEF OwnersKeepTheLock
<1> QED
  BY <1>3, <1>4, <1>5

(***************************************************************************)
(* A step that removes the file: its owner, unless it is the run itself or *)
(* is not under way, is robbed.                                            *)
(***************************************************************************)
LEMMA UnlinkStep ==
  ASSUME IInv, NEW r \in Runs, NEW removed \in PC, NEW missing \in PC, TypeOK',
         pc[r] \in Active, {removed, missing} \cap {"write", "running"} = {},
         Unlink(r, removed, missing)
  PROVE  IInv'
<1> USE DEF IInv
<1>1. CASE ~ Exists
  <2>1. pc' = [pc EXCEPT ![r] = missing] /\ UNCHANGED <<lock, alive, robbed>>
    BY <1>1 DEF Unlink, Goto
  <2>2. ProcOf[r] \in alive
    BY DEF ActiveRunsLive
  <2> QED
    BY <1>1, <2>1, <2>2, QuietStep
<1>2. CASE Exists
  <2>1. /\ pc' = [pc EXCEPT ![r] = removed]
        /\ lock' = Absent /\ alive' = alive
        /\ robbed' = IF lock.owner # r /\ pc[lock.owner] \in Active
                     THEN robbed \cup {lock.owner} ELSE robbed
    BY <1>2 DEF Unlink, Goto
  <2>2. /\ \A s \in Runs : s # r => pc'[s] = pc[s]
        /\ pc'[r] = removed
    BY <2>1 DEF TypeOK
  <2>3. ActiveRunsLive'
    BY <2>1, <2>2 DEF ActiveRunsLive
  <2>4. LockIsAccountedFor'
    BY <2>1 DEF LockIsAccountedFor, Exists
  <2>5. OwnersKeepTheLock'
    <3> SUFFICES ASSUME NEW s \in Runs, pc'[s] \in {"write", "running"}, s \notin robbed'
                 PROVE  FALSE
      BY DEF OwnersKeepTheLock
    <3>1. s # r /\ pc[s] = pc'[s]
      BY <2>2
    <3>2. lock.owner = s
      BY <2>1, <3>1 DEF OwnersKeepTheLock
    <3> QED
      BY <2>1, <3>1, <3>2 DEF Active, Synchronous, Startup
  <2> QED
    BY <2>3, <2>4, <2>5
<1> QED
  BY <1>1, <1>2

LEMMA TypeStep == IInv /\ [Next]_vars => TypeOK'
<1> SUFFICES ASSUME TypeOK, [Next]_vars PROVE TypeOK'
  BY DEF IInv
<1> USE DEF TypeOK, PC, Active, Synchronous, Startup, Cleanup, Goto, History
<1>1. ASSUME NEW r \in Runs, Start(r) PROVE TypeOK'
  BY <1>1 DEF Start
<1>2. ASSUME NEW r \in Runs, CheckExists(r) \/ CheckAlive(r) \/ SetupFails(r) PROVE TypeOK'
  BY <1>2 DEF CheckExists, CheckAlive, SetupFails
<1>3. ASSUME NEW r \in Runs, CheckRead(r) \/ HeldRead(r) PROVE TypeOK'
  <2>1. Readable => ProcOf[lock.owner] \in Processes
    BY RunsAssumption DEF Readable, Exists
  <2> QED
    BY <1>3, <2>1 DEF CheckRead, HeldRead
<1>4. ASSUME NEW r \in Runs, NEW removed \in PC, NEW missing \in PC,
             Unlink(r, removed, missing)
      PROVE  /\ lock' \in {Absent} \cup [owner : Runs, written : BOOLEAN]
             /\ pc' \in [Runs -> PC]
             /\ robbed' \in SUBSET Runs
             /\ UNCHANGED <<seen, alive, crowded>>
  <2>1. Exists => lock.owner \in Runs
    BY DEF Exists
  <2> QED
    BY <1>4, <2>1 DEF Unlink
<1>5. ASSUME NEW r \in Runs, CheckUnlink(r) PROVE TypeOK'
  BY <1>4, <1>5 DEF CheckUnlink
<1>6. ASSUME NEW r \in Runs, CheckUnlinkAgain(r) PROVE TypeOK'
  BY <1>4, <1>6 DEF CheckUnlinkAgain
<1>7. ASSUME NEW r \in Runs, Create(r) PROVE TypeOK'
  <2>1. [owner |-> r, written |-> FALSE] \in [owner : Runs, written : BOOLEAN]
    OBVIOUS
  <2>2. CASE Exists
    BY <1>7, <2>2 DEF Create
  <2>3. CASE ~ Exists
    BY <1>7, <2>1, <2>3 DEF Create
  <2> QED
    BY <2>2, <2>3
<1>8. ASSUME NEW r \in Runs, Write(r) PROVE TypeOK'
  <2>1. lock.owner = r => lock \in [owner : Runs, written : BOOLEAN]
    BY RunsAssumption DEF Absent
  <2>2. lock' \in {Absent} \cup [owner : Runs, written : BOOLEAN]
    BY <1>8, <2>1 DEF Write
  <2> QED
    BY <1>8, <2>2 DEF Write
<1>9. ASSUME NEW r \in Runs, HeldAlive(r) PROVE TypeOK'
  BY <1>9 DEF HeldAlive
<1>10. ASSUME NEW r \in Runs, HeldUnlink(r) PROVE TypeOK'
  BY <1>4, <1>10 DEF HeldUnlink
<1>11. ASSUME NEW r \in Runs, PipelineEnds(r) \/ ReleaseExists(r) PROVE TypeOK'
  BY <1>11 DEF PipelineEnds, ReleaseExists
<1>12. ASSUME NEW r \in Runs, ReleaseUnlink(r) PROVE TypeOK'
  BY <1>4, <1>12 DEF ReleaseUnlink
<1>13. ASSUME NEW p \in Processes, Crash(p) PROVE TypeOK'
  BY <1>13 DEF Crash
<1>14. CASE UNCHANGED vars
  BY <1>14 DEF vars
<1> QED
  BY <1>1, <1>2, <1>3, <1>5, <1>6, <1>7, <1>8, <1>9, <1>10, <1>11, <1>12, <1>13, <1>14
  DEF Next, Terminated

\* The actions that only read the file, and where they leave the run.
LEMMA QuietActions ==
  ASSUME IInv, TypeOK', NEW r \in Runs,
         \/ Start(r) \/ CheckExists(r) \/ CheckRead(r) \/ CheckAlive(r) \/ SetupFails(r)
         \/ HeldRead(r) \/ HeldAlive(r) \/ PipelineEnds(r) \/ ReleaseExists(r)
  PROVE  IInv'
<1>1. UNCHANGED <<lock, alive, robbed>>
  BY DEF Start, CheckExists, CheckRead, CheckAlive, SetupFails, HeldRead, HeldAlive,
         PipelineEnds, ReleaseExists, History
<1>2. ProcOf[r] \in alive
  BY DEF Start, CheckExists, CheckRead, CheckAlive, SetupFails, HeldRead, HeldAlive,
         PipelineEnds, ReleaseExists, IInv, ActiveRunsLive, Active, Synchronous, Startup, Cleanup
<1>3. PICK p \in PC \ {"write", "running"} :
        /\ pc' = [pc EXCEPT ![r] = p]
        /\ Exists /\ pc[r] \in Holding => p \in Holding
  <2> USE DEF Goto, PC, Active, Synchronous, Startup, Cleanup, Holding
  <2>1. CASE Start(r) BY <2>1 DEF Start
  <2>2. CASE CheckExists(r) BY <2>2 DEF CheckExists
  <2>3. CASE CheckRead(r) BY <2>3 DEF CheckRead
  <2>4. CASE CheckAlive(r) BY <2>4 DEF CheckAlive
  <2>5. CASE SetupFails(r) BY <2>5 DEF SetupFails
  <2>6. CASE HeldRead(r) BY <2>6 DEF HeldRead
  <2>7. CASE HeldAlive(r) BY <2>7 DEF HeldAlive
  <2>8. CASE PipelineEnds(r) BY <2>8 DEF PipelineEnds
  <2>9. CASE ReleaseExists(r) BY <2>9 DEF ReleaseExists
  <2> QED
    BY <2>1, <2>2, <2>3, <2>4, <2>5, <2>6, <2>7, <2>8, <2>9
<1> QED
  BY <1>1, <1>2, <1>3, QuietStep

LEMMA CreateKeepsIInv == ASSUME IInv, TypeOK', NEW r \in Runs, Create(r) PROVE IInv'
<1> USE DEF IInv
<1>1. ProcOf[r] \in alive
  BY DEF Create, ActiveRunsLive, Active, Synchronous, Startup
<1>2. CASE Exists
  <2>1. PICK p \in {"heldRead", "releaseExists"} : pc' = [pc EXCEPT ![r] = p]
    BY <1>2 DEF Create, Goto
  <2>2. pc[r] \notin Holding /\ p \in PC \ {"write", "running"}
    BY DEF Create, Holding, Cleanup, PC, Active, Synchronous, Startup
  <2>3. UNCHANGED <<lock, alive, robbed>>
    BY <1>2 DEF Create
  <2> QED
    BY <1>1, <2>1, <2>2, <2>3, QuietStep
<1>3. CASE ~ Exists
  <2>1. /\ pc' = [pc EXCEPT ![r] = "write"] /\ lock' = [owner |-> r, written |-> FALSE]
        /\ UNCHANGED <<alive, robbed>>
    BY <1>3 DEF Create, Goto
  <2>2. (\A s \in Runs : s # r => pc'[s] = pc[s]) /\ pc'[r] = "write"
    BY <2>1 DEF TypeOK
  <2>3. ActiveRunsLive' /\ LockIsAccountedFor'
    BY <1>1, <2>1, <2>2 DEF ActiveRunsLive, LockIsAccountedFor
  <2>4. OwnersKeepTheLock'
    <3> SUFFICES ASSUME NEW s \in Runs, s # r, pc[s] \in {"write", "running"}, s \notin robbed
                 PROVE  FALSE
      BY <2>1, <2>2 DEF OwnersKeepTheLock
    <3>1. lock.owner = s
      BY DEF OwnersKeepTheLock
    <3> QED
      BY <1>3, <3>1, RunsAssumption DEF Exists, Absent
  <2> QED
    BY <2>3, <2>4
<1> QED
  BY <1>2, <1>3

LEMMA WriteKeepsIInv == ASSUME IInv, TypeOK', NEW r \in Runs, Write(r) PROVE IInv'
<1> USE DEF IInv
<1>1. /\ pc[r] = "write" /\ pc' = [pc EXCEPT ![r] = "running"]
      /\ lock'.owner = lock.owner
      /\ Exists' => Exists
      /\ UNCHANGED <<alive, robbed>>
  <2>1. Write(r) => lock' = lock \/ lock' = [lock EXCEPT !.written = TRUE]
    BY DEF Write
  <2>2. lock = [owner |-> lock.owner, written |-> lock.written]
    BY DEF TypeOK, Absent
  <2>3. lock'.owner = lock.owner
    BY <2>1, <2>2
  <2>4. ~ Exists => lock' = lock
    BY RunsAssumption DEF Write, Exists, Absent
  <2> QED
    BY <2>3, <2>4 DEF Write, Goto, Exists
<1>2. (\A s \in Runs : s # r => pc'[s] = pc[s]) /\ pc'[r] = "running"
  BY <1>1 DEF TypeOK
<1>3. ActiveRunsLive'
  BY <1>1, <1>2 DEF ActiveRunsLive, Active, Synchronous, Startup
<1>4. LockIsAccountedFor'
  BY <1>1, <1>2 DEF LockIsAccountedFor, TypeOK, Exists
<1>5. OwnersKeepTheLock'
  BY <1>1, <1>2 DEF OwnersKeepTheLock
<1> QED
  BY <1>3, <1>4, <1>5

LEMMA CrashKeepsIInv == ASSUME IInv, TypeOK', NEW p \in Processes, Crash(p) PROVE IInv'
<1> USE DEF IInv
<1>1. /\ alive' = alive \ {p} /\ UNCHANGED <<lock, robbed>>
      /\ \A r \in Runs : pc'[r] = IF ProcOf[r] = p /\ pc[r] \in Active THEN "dead" ELSE pc[r]
  BY DEF Crash, History
<1>2. "dead" \notin Active \cup {"write", "running"}
  BY DEF Active, Synchronous, Startup, Cleanup
<1>3. ActiveRunsLive'
  BY <1>1, <1>2 DEF ActiveRunsLive
<1>4. LockIsAccountedFor'
  <2> SUFFICES ASSUME Exists, ProcOf[lock.owner] \in alive \ {p}
               PROVE  pc'[lock.owner] \in Holding
    BY <1>1 DEF LockIsAccountedFor, Exists, Holding
  <2>1. lock.owner \in Runs /\ pc[lock.owner] \in Holding
    BY DEF LockIsAccountedFor, TypeOK, Exists, Holding
  <2> QED
    BY <1>1, <2>1
<1>5. OwnersKeepTheLock'
  BY <1>1, <1>2 DEF OwnersKeepTheLock
<1> QED
  BY <1>3, <1>4, <1>5

LEMMA UnlinkActions ==
  ASSUME IInv, TypeOK', NEW r \in Runs,
         CheckUnlink(r) \/ CheckUnlinkAgain(r) \/ HeldUnlink(r) \/ ReleaseUnlink(r)
  PROVE  IInv'
<1> USE DEF PC, Active, Synchronous, Startup, Cleanup
<1>1. CASE CheckUnlink(r)
  BY <1>1, UnlinkStep DEF CheckUnlink
<1>2. CASE CheckUnlinkAgain(r)
  BY <1>2, UnlinkStep DEF CheckUnlinkAgain
<1>3. CASE HeldUnlink(r)
  BY <1>3, UnlinkStep DEF HeldUnlink
<1>4. CASE ReleaseUnlink(r)
  BY <1>4, UnlinkStep DEF ReleaseUnlink
<1> QED
  BY <1>1, <1>2, <1>3, <1>4

LEMMA StepIInv == IInv /\ [Next]_vars => IInv'
<1> SUFFICES ASSUME IInv, [Next]_vars PROVE IInv'
  OBVIOUS
<1>1. TypeOK'
  BY TypeStep
<1>2. CASE UNCHANGED vars
  BY <1>2 DEF vars, IInv, TypeOK, ActiveRunsLive, LockIsAccountedFor, OwnersKeepTheLock, Exists
<1> QED
  BY <1>1, <1>2, QuietActions, CreateKeepsIInv, WriteKeepsIInv, CrashKeepsIInv, UnlinkActions
  DEF Next, Terminated

-----------------------------------------------------------------------------
(***************************************************************************)
(* The invariant holds in every reachable state of acquireLock,            *)
(* checkStaleLock and releaseLock.                                         *)
(***************************************************************************)
THEOREM Invariance == Spec => []IInv
<1>1. Init => IInv
  BY InitIInv
<1>2. IInv /\ [Next]_vars => IInv'
  BY StepIInv
<1> QED
  BY <1>1, <1>2, PTL DEF Spec

(***************************************************************************)
(* Every variable keeps its type: a run that cannot read a pid from the    *)
(* lock never goes on to ask whether it lives.                             *)
(***************************************************************************)
THEOREM TypeCorrect == Spec => []TypeOK
<1>1. IInv => TypeOK
  BY DEF IInv
<1> QED
  BY <1>1, Invariance, PTL

(***************************************************************************)
(* A lock that is in the work directory is that of a run which will still  *)
(* release it or of a dead process: no path through the `finally` and no   *)
(* theft leaves a lock of a live process behind.                           *)
(***************************************************************************)
THEOREM Accounted == Spec => []LockIsAccountedFor
<1>1. IInv => LockIsAccountedFor
  BY DEF IInv
<1> QED
  BY <1>1, Invariance, PTL

(***************************************************************************)
(* writeFileSync with wx excludes: without a theft of the lock two         *)
(* pipelines never run at once, however many processes there are.          *)
(***************************************************************************)
THEOREM Exclusion == Spec => []ExclusiveUnlessRobbed
<1>1. IInv => ExclusiveUnlessRobbed
  BY DEF IInv, OwnersKeepTheLock, ExclusiveUnlessRobbed
<1> QED
  BY <1>1, Invariance, PTL
-----------------------------------------------------------------------------
(***************************************************************************)
(* A run that is alone finds a lock only where checkStaleLock looks for it,*)
(* and the pid in that lock is dead, for want of a run that could own it.  *)
(***************************************************************************)
OnItsWay(r) ==
  /\ outcome[r] \notin {"refused", "thrown"}
  /\ pc[r] \notin {"heldRead", "heldAlive", "heldUnlink", "createAgain"}
  /\ pc[r] \in {"checkRead", "checkAlive", "checkUnlink", "checkUnlinkAgain"} => Exists
  /\ pc[r] = "checkAlive" => seen[r] = ProcOf[lock.owner]
  /\ pc[r] = "create" => ~ Exists

Alone(r) == \A s \in Runs \ {r} : pc[s] \notin Active

LoneRuns == \A r \in Runs \ crowded : OnItsWay(r) /\ (pc[r] \in Active => Alone(r))

\* A step of a run under way: the others are crowded, or not under way.
LEMMA LoneStep ==
  ASSUME TypeOK, LoneRuns, NEW r \in Runs, NEW p, pc[r] \in Active,
         pc' = [pc EXCEPT ![r] = p], crowded' = crowded,
         \A s \in Runs \ {r} : outcome'[s] = outcome[s],
         OnItsWay(r) /\ Alone(r) => OnItsWay(r)'
  PROVE  LoneRuns'
<1>1. (\A s \in Runs : s # r => pc'[s] = pc[s]) /\ pc'[r] = p
  BY DEF TypeOK
<1> SUFFICES ASSUME NEW s \in Runs \ crowded
             PROVE  OnItsWay(s)' /\ (pc'[s] \in Active => Alone(s)')
  BY DEF LoneRuns
<1>2. OnItsWay(s) /\ (pc[s] \in Active => Alone(s))
  BY DEF LoneRuns
<1>3. CASE s = r
  <2>1. OnItsWay(r) /\ Alone(r)
    BY <1>2, <1>3
  <2>2. Alone(r)'
    BY <1>1, <2>1 DEF Alone
  <2> QED
    BY <1>3, <2>1, <2>2
<1>4. CASE s # r
  <2>1. pc'[s] = pc[s] /\ pc[s] \notin Active /\ outcome'[s] = outcome[s]
    BY <1>1, <1>2, <1>4 DEF Alone
  <2> QED
    BY <1>2, <2>1 DEF OnItsWay, Active, Synchronous, Startup
<1> QED
  BY <1>3, <1>4

LEMMA StartKeepsLone == ASSUME TypeOK, LoneRuns, NEW r \in Runs, Start(r) PROVE LoneRuns'
<1> DEFINE others == {s \in Runs \ {r} : pc[s] \in Active}
<1>1. /\ \A s \in Runs : s # r => pc'[s] = pc[s]
      /\ pc'[r] = "checkExists" /\ pc[r] = "idle"
      /\ crowded' = IF others = {} THEN crowded ELSE crowded \cup others \cup {r}
      /\ UNCHANGED <<lock, seen, outcome>>
  BY DEF Start, Goto, TypeOK
<1> SUFFICES ASSUME NEW s \in Runs \ crowded'
             PROVE  OnItsWay(s)' /\ (pc'[s] \in Active => Alone(s)')
  BY DEF LoneRuns
<1>2. OnItsWay(s) /\ (pc[s] \in Active => Alone(s))
  BY <1>1 DEF LoneRuns
<1>3. CASE s = r
  <2>1. others = {}
    BY <1>1, <1>3
  <2>2. Alone(r)'
    BY <1>1, <2>1 DEF Alone
  <2> QED
    BY <1>1, <1>2, <1>3, <2>2 DEF OnItsWay
<1>4. CASE s # r
  <2>1. s \notin others
    BY <1>1
  <2>2. pc'[s] = pc[s] /\ pc[s] \notin Active
    BY <1>1, <1>4, <2>1
  <2> QED
    BY <1>1, <1>2, <2>2 DEF OnItsWay, Exists
<1> QED
  BY <1>3, <1>4

\* A run that is alone and finds a lock knows its owner to be dead.
LEMMA AloneMeansDead ==
  ASSUME IInv, NEW r \in Runs, pc[r] = "checkAlive", OnItsWay(r), Alone(r)
  PROVE  ~ IsProcessAlive(seen[r])
<1>1. Exists /\ seen[r] = ProcOf[lock.owner] /\ lock.owner \in Runs
  BY DEF OnItsWay, IInv, TypeOK, Exists
<1>2. pc[lock.owner] \notin Cleanup \cup {"write", "running"}
  <2>1. CASE lock.owner = r
    BY <2>1 DEF Cleanup
  <2>2. CASE lock.owner # r
    BY <1>1, <2>2 DEF Alone, Active, Synchronous, Startup
  <2> QED
    BY <2>1, <2>2
<1> QED
  BY <1>1, <1>2 DEF IInv, LockIsAccountedFor, IsProcessAlive

\* Where an action leaves the run that takes it, if it is alone.
LEMMA UnlinkKeepsLone ==
  ASSUME IInv, LoneRuns, NEW r \in Runs,
         CheckUnlink(r) \/ CheckUnlinkAgain(r) \/ HeldUnlink(r) \/ ReleaseUnlink(r)
  PROVE  LoneRuns'
<1>1. pc[r] \in Active /\ TypeOK
  BY DEF CheckUnlink, CheckUnlinkAgain, HeldUnlink, ReleaseUnlink, IInv,
         Active, Synchronous, Startup, Cleanup
<1>2. crowded' = crowded /\ \A s \in Runs \ {r} : outcome'[s] = outcome[s]
  BY <1>1 DEF CheckUnlink, CheckUnlinkAgain, HeldUnlink, ReleaseUnlink, Unlink, TypeOK
<1>3. PICK p : pc' = [pc EXCEPT ![r] = p]
  BY DEF CheckUnlink, CheckUnlinkAgain, HeldUnlink, ReleaseUnlink, Unlink, Goto
<1>4. pc'[r] = p
  BY <1>1, <1>3 DEF TypeOK
<1>5. ASSUME OnItsWay(r) PROVE OnItsWay(r)'
  <2>1. CASE CheckUnlink(r) \/ CheckUnlinkAgain(r)
    <3>1. Exists /\ pc'[r] = "create" /\ lock' = Absent /\ outcome' = outcome
      BY <1>1, <1>5, <2>1
      DEF CheckUnlink, CheckUnlinkAgain, Unlink, OnItsWay, Goto, TypeOK
    <3> QED
      BY <1>5, <3>1 DEF OnItsWay, Exists
  <2>2. CASE ReleaseUnlink(r)
    <3>1. pc'[r] = "ended" /\ outcome' = outcome
      BY <1>1, <2>2 DEF ReleaseUnlink, Unlink, Goto, TypeOK
    <3> QED
      BY <1>5, <3>1 DEF OnItsWay
  <2>3. CASE HeldUnlink(r)
    BY <1>5, <2>3 DEF HeldUnlink, OnItsWay
  <2> QED
    BY <2>1, <2>2, <2>3
<1> QED
  BY <1>1, <1>2, <1>3, <1>5, LoneStep

LEMMA OtherStepsKeepLone ==
  ASSUME IInv, LoneRuns, NEW r \in Runs,
         \/ CheckExists(r) \/ CheckRead(r) \/ CheckAlive(r) \/ SetupFails(r) \/ Create(r)
         \/ Write(r) \/ HeldRead(r) \/ HeldAlive(r) \/ PipelineEnds(r) \/ ReleaseExists(r)
  PROVE  LoneRuns'
<1>1. pc[r] \in Active /\ TypeOK
  BY DEF CheckExists, CheckRead, CheckAlive, SetupFails, Create, Write, HeldRead, HeldAlive,
         PipelineEnds, ReleaseExists, IInv, Active, Synchronous, Startup, Cleanup
<1>2. crowded' = crowded /\ \A s \in Runs \ {r} : outcome'[s] = outcome[s]
  BY <1>1 DEF CheckExists, CheckRead, CheckAlive, SetupFails, Create, Write, HeldRead, HeldAlive,
         PipelineEnds, ReleaseExists, History, TypeOK
<1>3. PICK p : pc' = [pc EXCEPT ![r] = p]
  BY DEF CheckExists, CheckRead, CheckAlive, SetupFails, Create, Write, HeldRead, HeldAlive,
         PipelineEnds, ReleaseExists, Goto
<1>4. \A q : pc' = [pc EXCEPT ![r] = q] => pc'[r] = q
  BY <1>1 DEF TypeOK
<1>5. ASSUME OnItsWay(r), Alone(r) PROVE OnItsWay(r)'
  <2> USE <1>5 DEF Goto, History
  <2>1. CASE CheckExists(r)
    BY <1>4, <2>1 DEF CheckExists, OnItsWay, Exists
  <2>2. CASE CheckRead(r)
    <3>1. Readable => seen'[r] = ProcOf[lock.owner]
      BY <1>1, <2>2 DEF CheckRead, TypeOK
    <3> QED
      BY <1>4, <2>2, <3>1 DEF CheckRead, OnItsWay, Exists
  <2>3. CASE CheckAlive(r)
    <3>1. ~ IsProcessAlive(seen[r])
      BY <2>3, AloneMeansDead DEF CheckAlive
    <3> QED
      BY <1>4, <2>3, <3>1 DEF CheckAlive, OnItsWay, Exists
  <2>4. CASE SetupFails(r)
    BY <1>4, <2>4 DEF SetupFails, OnItsWay
  <2>5. CASE Create(r)
    <3>1. ~ Exists
      BY <2>5 DEF Create, OnItsWay
    <3> QED
      BY <1>4, <2>5, <3>1 DEF Create, OnItsWay
  <2>6. CASE Write(r)
    <3>1. outcome'[r] = "acquired"
      BY <1>1, <2>6 DEF Write, TypeOK
    <3> QED
      BY <1>4, <2>6, <3>1 DEF Write, OnItsWay
  <2>7. CASE HeldRead(r) \/ HeldAlive(r)
    BY <2>7 DEF HeldRead, HeldAlive, OnItsWay
  <2>8. CASE PipelineEnds(r)
    BY <1>4, <2>8 DEF PipelineEnds, OnItsWay
  <2>9. CASE ReleaseExists(r)
    BY <1>4, <2>9 DEF ReleaseExists, OnItsWay
  <2> QED
    BY <2>1, <2>2, <2>3, <2>4, <2>5, <2>6, <2>7, <2>8, <2>9
<1> QED
  BY <1>1, <1>2, <1>3, <1>5, LoneStep

LEMMA CrashKeepsLone == ASSUME TypeOK, LoneRuns, NEW p \in Processes, Crash(p) PROVE LoneRuns'
<1>1. /\ UNCHANGED <<lock, seen, outcome, crowded>>
      /\ \A r \in Runs : pc'[r] = "dead" \/ pc'[r] = pc[r]
  BY DEF Crash, History
<1>2. "dead" \notin Active
  BY DEF Active, Synchronous, Startup, Cleanup
<1> SUFFICES ASSUME NEW r \in Runs \ crowded
             PROVE  OnItsWay(r)' /\ (pc'[r] \in Active => Alone(r)')
  BY <1>1 DEF LoneRuns
<1>3. OnItsWay(r) /\ (pc[r] \in Active => Alone(r))
  BY DEF LoneRuns
<1>4. OnItsWay(r)'
  BY <1>1, <1>3 DEF OnItsWay, Exists
<1>5. ASSUME pc'[r] \in Active PROVE Alone(r)'
  BY <1>1, <1>2, <1>3, <1>5 DEF Alone
<1> QED
  BY <1>4, <1>5

LEMMA StepLone == IInv /\ LoneRuns /\ [Next]_vars => LoneRuns'
<1> SUFFICES ASSUME IInv, LoneRuns, [Next]_vars PROVE LoneRuns'
  OBVIOUS
<1>1. TypeOK
  BY DEF IInv
<1>2. CASE UNCHANGED vars
  BY <1>2 DEF vars, LoneRuns, OnItsWay, Alone, Exists
<1> QED
  BY <1>1, <1>2, StartKeepsLone, UnlinkKeepsLone, OtherStepsKeepLone, CrashKeepsLone
  DEF Next, Terminated

(***************************************************************************)
(* Whatever lock a crash left behind, checkStaleLock clears it for a run   *)
(* that has the work directory to itself: acquireLock does not refuse it,  *)
(* and nothing is thrown.                                                  *)
(***************************************************************************)
THEOREM LoneRunIsNotRefused == Spec => []LoneRunGetsTheLock
<1>1. Init => LoneRuns
  BY DEF Init, LoneRuns, OnItsWay, Alone, Active, Synchronous, Startup, Cleanup
<1>2. IInv /\ LoneRuns /\ [Next]_vars => LoneRuns'
  BY StepLone
<1>3. LoneRuns => LoneRunGetsTheLock
  BY DEF LoneRuns, OnItsWay, LoneRunGetsTheLock
<1> QED
  BY <1>1, <1>2, <1>3, Invariance, PTL DEF Spec
=============================================================================
