------------------------------- MODULE RunLock ------------------------------
(***************************************************************************)
(* The lock file <workDir>/.dagclaw/lock (core/taskManager.ts) and how     *)
(* run() uses it (core/taskOrchestrator.ts): look for a stale lock, take   *)
(* the lock, run the pipeline, and in the `finally` release it.            *)
(*                                                                         *)
(* Runs of one process (the backend's tasks) interleave only where run()   *)
(* awaits, so while one of them is in the synchronous code around the lock *)
(* no other one is.  Runs of different processes (command lines, several   *)
(* backends) interleave at every system call, so each call is an action;   *)
(* creating the file and writing into it are two.                          *)
(***************************************************************************)
EXTENDS FiniteSets

CONSTANTS
  Runs,       \* runs, of depth 0, in one work directory
  Processes,
  ProcOf      \* the process of each run

ASSUME RunsAssumption ==
  /\ ProcOf \in [Runs -> Processes]
  /\ "nobody" \notin Runs

VARIABLES
  lock,       \* the file: Absent, or who created it and whether it was written
  pc,         \* where each run is
  seen,       \* the pid that a run last read from the file
  alive,      \* the processes that live
  outcome,    \* history: what became of the run's attempt to take the lock
  crowded,    \* history: runs that were not the only one for all their life
  robbed      \* history: active runs whose lock another run removed

vars == <<lock, pc, seen, alive, outcome, crowded, robbed>>

Absent == [owner |-> "nobody", written |-> FALSE]

\* The synchronous code before the pipeline and after it.
Startup == {"checkExists", "checkRead", "checkAlive", "checkUnlink", "checkUnlinkAgain",
            "create", "heldRead", "heldAlive", "heldUnlink", "createAgain", "write"}
Cleanup == {"releaseExists", "releaseUnlink"}
Synchronous == Startup \cup Cleanup
Active == Synchronous \cup {"running"}
PC == Active \cup {"idle", "ended", "dead"}

TypeOK ==
  /\ lock \in {Absent} \cup [owner : Runs, written : BOOLEAN]
  /\ pc \in [Runs -> PC]
  /\ seen \in [Runs -> Processes]
  /\ alive \in SUBSET Processes
  /\ outcome \in [Runs -> {"none", "acquired", "refused", "thrown"}]
  /\ crowded \in SUBSET Runs
  /\ robbed \in SUBSET Runs

Init ==
  /\ lock = Absent
  /\ pc = [r \in Runs |-> "idle"]
  /\ seen = ProcOf
  /\ alive = Processes
  /\ outcome = [r \in Runs |-> "none"]
  /\ crowded = {}
  /\ robbed = {}

-----------------------------------------------------------------------------
History == <<outcome, crowded, robbed>>

Exists == lock # Absent

Goto(r, where) == pc' = [pc EXCEPT ![r] = where]

\* The thread of r's process is r's, or is free.
HasThread(r) ==
  \A s \in Runs : s # r /\ ProcOf[s] = ProcOf[r] => pc[s] \notin Synchronous

\* Faulty variant: a missing process looks alive.
AliveAnyway(p) == TRUE

\* isProcessAlive
IsProcessAlive(p) == p \in alive

\* readFileSync and JSON.parse: fails when the file is absent or was not written.
Readable == Exists /\ lock.written

\* unlinkSync, which throws when the file is absent.
Unlink(r, removed, missing) ==
  /\ IF Exists
     THEN /\ lock' = Absent
          /\ Goto(r, removed)
          /\ robbed' = IF lock.owner # r /\ pc[lock.owner] \in Active
                       THEN robbed \cup {lock.owner} ELSE robbed
     ELSE /\ Goto(r, missing)
          /\ UNCHANGED <<lock, robbed>>
  /\ UNCHANGED <<seen, alive, crowded>>

-----------------------------------------------------------------------------
(***************************************************************************)
(* run() begins with checkStaleLock: a lock of a dead process, and one     *)
(* that cannot be read, is removed.  An error while removing it is thrown  *)
(* out of run(), which has no `finally` yet.                               *)
(***************************************************************************)
Start(r) ==
  /\ pc[r] = "idle"
  /\ ProcOf[r] \in alive
  /\ HasThread(r)
  /\ Goto(r, "checkExists")
  /\ LET others == {s \in Runs \ {r} : pc[s] \in Active}
     IN  crowded' = IF others = {} THEN crowded ELSE crowded \cup others \cup {r}
  /\ UNCHANGED <<lock, seen, alive, outcome, robbed>>

CheckExists(r) ==
  /\ pc[r] = "checkExists"
  /\ Goto(r, IF Exists THEN "checkRead" ELSE "create")
  /\ UNCHANGED <<lock, seen, alive, History>>

CheckRead(r) ==
  /\ pc[r] = "checkRead"
  /\ IF Readable
     THEN /\ seen' = [seen EXCEPT ![r] = ProcOf[lock.owner]]
          /\ Goto(r, "checkAlive")
     ELSE /\ Goto(r, "checkUnlinkAgain")
          /\ UNCHANGED seen
  /\ UNCHANGED <<lock, alive, History>>

CheckAlive(r) ==
  /\ pc[r] = "checkAlive"
  /\ Goto(r, IF IsProcessAlive(seen[r]) THEN "create" ELSE "checkUnlink")
  /\ UNCHANGED <<lock, seen, alive, History>>

CheckUnlink(r) ==
  /\ pc[r] = "checkUnlink"
  /\ Unlink(r, "create", "checkUnlinkAgain")
  /\ UNCHANGED outcome

CheckUnlinkAgain(r) ==
  /\ pc[r] = "checkUnlinkAgain"
  /\ Unlink(r, "create", "ended")
  /\ outcome' = IF Exists THEN outcome ELSE [outcome EXCEPT ![r] = "thrown"]

\* Between the two: the Claude CLI is missing, or the run cannot be set up.
SetupFails(r) ==
  /\ pc[r] = "create"
  /\ Goto(r, "ended")
  /\ UNCHANGED <<lock, seen, alive, History>>

(***************************************************************************)
(* acquireLock.  When it throws, run() goes to its `finally`.              *)
(***************************************************************************)
\* Faulty variant: without the flag wx, the file is overwritten.
CreateOverwriting(r) ==
  /\ pc[r] \in {"create", "createAgain"}
  /\ lock' = [owner |-> r, written |-> FALSE]
  /\ Goto(r, "write")
  /\ UNCHANGED <<seen, alive, History>>

\* writeFileSync with wx creates the file, or fails because there is one.
Create(r) ==
  /\ pc[r] \in {"create", "createAgain"}
  /\ IF ~ Exists
     THEN /\ lock' = [owner |-> r, written |-> FALSE]
          /\ Goto(r, "write")
          /\ UNCHANGED outcome
     ELSE /\ IF pc[r] = "create"
             THEN Goto(r, "heldRead") /\ UNCHANGED outcome
             ELSE /\ Goto(r, "releaseExists")
                  /\ outcome' = [outcome EXCEPT ![r] = "refused"]
          /\ UNCHANGED lock
  /\ UNCHANGED <<seen, alive, crowded, robbed>>

\* The data goes to the file r created, even when it is no longer the lock.
Write(r) ==
  /\ pc[r] = "write"
  /\ lock' = IF lock.owner = r THEN [lock EXCEPT !.written = TRUE] ELSE lock
  /\ Goto(r, "running")
  /\ outcome' = [outcome EXCEPT ![r] = "acquired"]
  /\ UNCHANGED <<seen, alive, crowded, robbed>>

HeldRead(r) ==
  /\ pc[r] = "heldRead"
  /\ IF Readable
     THEN /\ seen' = [seen EXCEPT ![r] = ProcOf[lock.owner]]
          /\ Goto(r, "heldAlive")
     ELSE /\ Goto(r, "heldUnlink")
          /\ UNCHANGED seen
  /\ UNCHANGED <<lock, alive, History>>

HeldAlive(r) ==
  /\ pc[r] = "heldAlive"
  /\ IF IsProcessAlive(seen[r])
     THEN /\ Goto(r, "releaseExists")
          /\ outcome' = [outcome EXCEPT ![r] = "refused"]
     ELSE /\ Goto(r, "heldUnlink")
          /\ UNCHANGED outcome
  /\ UNCHANGED <<lock, seen, alive, crowded, robbed>>

HeldUnlink(r) ==
  /\ pc[r] = "heldUnlink"
  /\ Unlink(r, "createAgain", "releaseExists")
  /\ outcome' = IF Exists THEN outcome ELSE [outcome EXCEPT ![r] = "refused"]

(***************************************************************************)
(* The pipeline ends, in whatever way, and the `finally` releases the      *)
(* lock: it removes the file, whoever created it.                          *)
(***************************************************************************)
\* Faulty variant: the run ends without its `finally`.
EndsWithoutRelease(r) ==
  /\ pc[r] = "running"
  /\ HasThread(r)
  /\ Goto(r, "ended")
  /\ UNCHANGED <<lock, seen, alive, History>>

PipelineEnds(r) ==
  /\ pc[r] = "running"
  /\ HasThread(r)
  /\ Goto(r, "releaseExists")
  /\ UNCHANGED <<lock, seen, alive, History>>

ReleaseExists(r) ==
  /\ pc[r] = "releaseExists"
  /\ Goto(r, IF Exists THEN "releaseUnlink" ELSE "ended")
  /\ UNCHANGED <<lock, seen, alive, History>>

ReleaseUnlink(r) ==
  /\ pc[r] = "releaseUnlink"
  /\ Unlink(r, "ended", "ended")
  /\ UNCHANGED outcome

\* A process is killed: its lock stays, written or not.
Crash(p) ==
  /\ p \in alive
  /\ alive' = alive \ {p}
  /\ pc' = [r \in Runs |-> IF ProcOf[r] = p /\ pc[r] \in Active THEN "dead" ELSE pc[r]]
  /\ UNCHANGED <<lock, seen, History>>

\* Every run that could start has ended, one way or the other.
Terminated ==
  /\ \A r \in Runs : pc[r] \notin Active /\ (pc[r] = "idle" => ProcOf[r] \notin alive)
  /\ UNCHANGED vars

Next ==
  \/ \E r \in Runs : Start(r)
  \/ \E r \in Runs : CheckExists(r)
  \/ \E r \in Runs : CheckRead(r)
  \/ \E r \in Runs : CheckAlive(r)
  \/ \E r \in Runs : CheckUnlink(r)
  \/ \E r \in Runs : CheckUnlinkAgain(r)
  \/ \E r \in Runs : SetupFails(r)
  \/ \E r \in Runs : Create(r)
  \/ \E r \in Runs : Write(r)
  \/ \E r \in Runs : HeldRead(r)
  \/ \E r \in Runs : HeldAlive(r)
  \/ \E r \in Runs : HeldUnlink(r)
  \/ \E r \in Runs : PipelineEnds(r)
  \/ \E r \in Runs : ReleaseExists(r)
  \/ \E r \in Runs : ReleaseUnlink(r)
  \/ \E p \in Processes : Crash(p)
  \/ Terminated

Spec == Init /\ [][Next]_vars
-----------------------------------------------------------------------------
(***************************************************************************)
(* The work directory is never wedged: a lock that is there belongs to a   *)
(* run that will still release it, or to a dead process, which the next    *)
(* run finds out; however runs are refused, rob each other and crash.      *)
(***************************************************************************)
LockIsAccountedFor ==
  Exists => \/ ProcOf[lock.owner] \notin alive
            \/ pc[lock.owner] \in Cleanup \cup {"write", "running"}

(***************************************************************************)
(* Whatever earlier runs left behind, a run that is the only one in the    *)
(* work directory for all its life gets the lock: a crash, even one in the *)
(* middle of creating the file, never costs more than its own run.         *)
(***************************************************************************)
LoneRunGetsTheLock ==
  \A r \in Runs : r \notin crowded => outcome[r] \notin {"refused", "thrown"}

(***************************************************************************)
(* Creating the file with wx does exclude: two runs are in their pipelines *)
(* at once only if another run removed the lock of one of them.            *)
(***************************************************************************)
ExclusiveUnlessRobbed ==
  \A r, s \in Runs : r # s /\ pc[r] = "running" /\ pc[s] = "running" => {r, s} \cap robbed # {}

(***************************************************************************)
(* The promise of acquireLock, which "Throws if another claw instance is   *)
(* running in this workdir": never two pipelines in one work directory.    *)
(***************************************************************************)
MutualExclusion ==
  \A r, s \in Runs : pc[r] = "running" /\ pc[s] = "running" => r = s
=============================================================================
