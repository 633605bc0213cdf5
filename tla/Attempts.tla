------------------------------ MODULE Attempts ------------------------------
(***************************************************************************)
(* The attempts at the subtasks of a run, and at those of the runs nested  *)
(* in it.                                                                  *)
(*                                                                         *)
(* An attempt (runOne) starts a Claude process and waits until it exits or *)
(* its time is up.  The process reports through a file in the tmp          *)
(* directory of the run, named after the subtask: all attempts at a        *)
(* subtask share it, and nobody removes it between them.  A process whose  *)
(* time is up gets a SIGTERM and is not waited for; until it dies it may   *)
(* still write.                                                            *)
(*                                                                         *)
(* A subtask marked for decomposition starts a child run instead           *)
(* (runRecursive) and waits for that.  It has a tmp directory of its own.  *)
(*                                                                         *)
(* The subtasks of a plan are independent of each other here and start     *)
(* together; their order is the matter of DagScheduler.  A Plan or Verify  *)
(* stage ends with any outcome; how it gets there is the matter of         *)
(* Pipeline.                                                               *)
(***************************************************************************)
EXTENDS Naturals, FiniteSets

CONSTANTS
  Subtasks,     \* the indices of subtasks
  Plans,        \* the sets of subtasks a plan may have, by depth of the run
  Complex,      \* the one subtask a planner may mark for decomposition
  MaxAttempts,  \* maxSubtaskRetries + 1
  MaxRetries,   \* maxRetries, the rounds of retryLoop
  MaxDepth,     \* maxDepth
  Runs,         \* the identifiers of runs, starting with 1
  MaxStrays     \* bound of the model: processes that outlive their time, at once

Root == 1

ASSUME AttemptsAssumption ==
  /\ Subtasks \subseteq Nat /\ Complex \in Subtasks
  /\ MaxAttempts \in Nat \ {0}
  /\ MaxRetries \in Nat /\ MaxDepth \in Nat
  /\ Plans \in [0 .. MaxDepth -> SUBSET SUBSET Subtasks]
  /\ Runs \subseteq Nat \ {0} /\ Root \in Runs

VARIABLES
  run,       \* the orchestrators
  job,       \* executeSubtask, or retryLoop's runOne, for every subtask
  file,      \* the files of the subtasks in the tmp directories
  shutdown   \* isShuttingDown of the root

vars == <<run, job, file, shutdown>>

Phase == {"unborn", "planning", "executing", "verifying", "retrying", "ended"}
Outcome == {"none", "success", "failure", "retryable", "final"}
State == {"pending", "process", "child", "done", "failed"}
\* What parseStageOutputFile makes of a file, "none" if it is missing or malformed.
Verdict == {"none", "success", "retryWorthy", "failure"}

\* A process, by its run and its number among the calls for the subtask; a
\* child run, if the number is 0.
Process == Runs \X Nat
Nobody == <<Root, 0>>

Run == [phase : Phase, outcome : Outcome, depth : 0 .. MaxDepth,
        plan : SUBSET Subtasks, marked : BOOLEAN,
        round : 0 .. MaxRetries, toRetry : SUBSET Subtasks,
        child : Runs \cup {0}]

\* alive are the processes that have not exited, cut those whose attempt ended
\* with a ClaudeRunError, before the number of calls before this round, source
\* who reported the success of a subtask.
Job == [state : State, attempt : 0 .. MaxAttempts,
        calls : 0 .. MaxAttempts + MaxRetries, before : Nat,
        alive : SUBSET Nat, cut : SUBSET Nat, source : Process]

NewRun(d) ==
  [phase |-> "planning", outcome |-> "none", depth |-> d, plan |-> {},
   marked |-> FALSE, round |-> 0, toRetry |-> {}, child |-> 0]

Idle == [state |-> "pending", attempt |-> 0, calls |-> 0, before |-> 0,
         alive |-> {}, cut |-> {}, source |-> Nobody]
NoFile == [by |-> Nobody, verdict |-> "none"]

Init ==
  /\ run = [r \in Runs |->
              IF r = Root THEN NewRun(0) ELSE [NewRun(0) EXCEPT !.phase = "unborn"]]
  /\ job = [r \in Runs |-> [s \in Subtasks |-> Idle]]
  /\ file = [r \in Runs |-> [s \in Subtasks |-> NoFile]]
  /\ shutdown = FALSE

\* A child is never told of a shutdown.
ShuttingDown(r) == r = Root /\ shutdown

\* RunLogger.tmpDir.  Faulty variant: a child shares the directory of the root.
TmpOfRoot(r) == Root

Tmp(r) == r

-----------------------------------------------------------------------------
(***************************************************************************)
(* The parts of an attempt.                                                *)
(***************************************************************************)

\* runOne: the job j with one more process.
Spawned(j) ==
  [j EXCEPT !.state = "process", !.calls = @ + 1, !.alive = @ \cup {j.calls + 1}]

\* run() of r settles, jobs and files being as given.  Nothing but processes
\* that are still alive is left of it: nobody reads its files any more.
Ends(r, outcome, jobs, files) ==
  /\ run' = [run EXCEPT ![r] = [NewRun(@.depth) EXCEPT !.phase = "ended",
                                                      !.outcome = outcome]]
  /\ job' = [jobs EXCEPT ![r] = [s \in Subtasks |->
               [Idle EXCEPT !.alive = jobs[r][s].alive,
                            !.cut = jobs[r][s].cut \cap jobs[r][s].alive]]]
  /\ file' = [files EXCEPT ![r] = [s \in Subtasks |-> NoFile]]

Least(S) == CHOOSE n \in S : \A k \in S : n <= k
Unborn == {r \in Runs : run[r].phase = "unborn"}

\* Faulty variant: the last attempt is not made.
AttemptsLeftOneShort(j) == j.attempt + 1 < MaxAttempts

AttemptsLeft(j) == j.attempt < MaxAttempts

\* The process of subtask s has ended, leaving the job j, and runOne throws: in
\* executeSubtask it is retried, or fails; in retryLoop it ends the whole run.
Throws(r, s, j, files, retryable) ==
  \/ /\ run[r].phase = "executing"
     /\ IF retryable /\ AttemptsLeft(j)
          THEN job' = [job EXCEPT ![r][s] = Spawned([j EXCEPT !.attempt = @ + 1])]
          ELSE job' = [job EXCEPT ![r][s] = [j EXCEPT !.state = "failed"]]
     /\ file' = files
     /\ UNCHANGED run
  \/ /\ run[r].phase = "retrying"
     /\ Ends(r, IF retryable THEN "retryable" ELSE "final",
             [job EXCEPT ![r][s] = j], files)

\* The process that the attempt at s waits for, and the job without it.
Latest(r, s) == job[r][s].calls
Exited(r, s) == [job[r][s] EXCEPT !.alive = @ \ {Latest(r, s)}]

Strays(r, s) == job[r][s].alive \cap job[r][s].cut
AllStrays == UNION {{<<r, s, c>> : c \in Strays(r, s)} : r \in Runs, s \in Subtasks}

-----------------------------------------------------------------------------
(***************************************************************************)
(* Processes.                                                              *)
(***************************************************************************)

\* A process writes its file, whether or not somebody still waits for it.
Write(r, s, c, v) ==
  /\ c \in job[r][s].alive
  /\ run[r].phase # "ended"       \* bound of the model: nobody reads it any more
  /\ file' = [file EXCEPT ![Tmp(r)][s] = [by |-> <<r, c>>, verdict |-> v]]
  /\ UNCHANGED <<run, job, shutdown>>

Die(r, s, c) ==
  /\ c \in Strays(r, s)
  /\ job' = [job EXCEPT ![r][s].alive = @ \ {c}]
  /\ UNCHANGED <<run, file, shutdown>>

\* It exits with code 0, or is killed by a signal, and the file reports
\* success, whoever wrote it.
Succeeds(r, s) ==
  LET f == file[Tmp(r)][s]
  IN  /\ job[r][s].state = "process"
      /\ f.verdict = "success"
      /\ job' = [job EXCEPT ![r][s] = [Exited(r, s) EXCEPT !.state = "done",
                                                           !.source = f.by]]
      /\ UNCHANGED <<run, file, shutdown>>

\* The file reports a failure.
Fails(r, s) ==
  LET f == file[Tmp(r)][s]
  IN  /\ job[r][s].state = "process"
      /\ f.verdict \in {"retryWorthy", "failure"}
      /\ Throws(r, s, Exited(r, s), file, f.verdict = "retryWorthy")
      /\ UNCHANGED shutdown

\* There is no valid file: a failure is made up from the output, and written to
\* the file unless there was no output either.
NoReport(r, s) ==
  /\ job[r][s].state = "process"
  /\ file[Tmp(r)][s].verdict = "none"
  /\ \E v \in {"retryWorthy", "failure"} :
       LET written == [file EXCEPT ![Tmp(r)][s] = [by |-> Nobody, verdict |-> v]]
       IN  \/ Throws(r, s, Exited(r, s), written, v = "retryWorthy")
           \/ v = "retryWorthy" /\ Throws(r, s, Exited(r, s), file, TRUE)
  /\ UNCHANGED shutdown

\* It exits with another code.
ExitsNonzero(r, s) ==
  /\ job[r][s].state = "process"
  /\ Throws(r, s, [Exited(r, s) EXCEPT !.cut = @ \cup {Latest(r, s)}], file, TRUE)
  /\ UNCHANGED shutdown

\* There never was a process: the error is no ClaudeRunError.
SpawnFails(r, s) ==
  /\ job[r][s].state = "process"
  /\ file[Tmp(r)][s].by # <<r, Latest(r, s)>>
  /\ Throws(r, s, Exited(r, s), file, FALSE)
  /\ UNCHANGED shutdown

\* Its time is up.  Faulty variant: it is killed, but nobody is told.
TimeoutWithoutReject(r, s) ==
  /\ job[r][s].state = "process"
  /\ job' = [job EXCEPT ![r][s].cut = @ \cup {Latest(r, s)}]
  /\ UNCHANGED <<run, file, shutdown>>

Timeout(r, s) ==
  /\ job[r][s].state = "process"
  /\ LET j == [job[r][s] EXCEPT !.cut = @ \cup {Latest(r, s)}]
     IN  \/ Cardinality(AllStrays) < MaxStrays /\ Throws(r, s, j, file, TRUE)
         \/ Throws(r, s, [j EXCEPT !.alive = @ \ {Latest(r, s)}], file, TRUE)
  /\ UNCHANGED shutdown

-----------------------------------------------------------------------------
(***************************************************************************)
(* Runs.                                                                   *)
(***************************************************************************)

\* runRecursive starts a child of run r, as the orchestrators are now.
WithChild(runs, r) ==
  LET c == Least(Unborn)
  IN  [runs EXCEPT ![r].child = c, ![c] = NewRun(runs[r].depth + 1)]

\* The first attempt at every subtask of the plan S of run r.  buildChildOptions
\* throws, for good, where the depth is exhausted.
Launched(r, S, marked) ==
  [s \in Subtasks |->
     LET first == [job[r][s] EXCEPT !.attempt = 1]
     IN  IF s \notin S THEN job[r][s]
         ELSE IF ~(marked /\ s = Complex) THEN Spawned(first)
         ELSE IF run[r].depth < MaxDepth THEN [first EXCEPT !.state = "child"]
         ELSE [first EXCEPT !.state = "failed"]]

\* The Plan stage ends and runDAG launches the subtasks.
PlanEnds(r) ==
  /\ run[r].phase = "planning"
  /\ ~ ShuttingDown(r)
  /\ \E S \in Plans[run[r].depth], marked \in BOOLEAN :
       LET nests == marked /\ run[r].depth < MaxDepth
           begun == [run EXCEPT ![r].phase = "executing", ![r].plan = S,
                                ![r].marked = marked]
       IN  /\ marked => Complex \in S
           /\ nests => Unborn # {}       \* bound of the model
           /\ job' = [job EXCEPT ![r] = Launched(r, S, marked)]
           /\ run' = IF nests THEN WithChild(begun, r) ELSE begun
  /\ UNCHANGED <<file, shutdown>>

\* run() leaves the loop over the stages, and reports success.
PlanStops(r) ==
  /\ run[r].phase = "planning"
  /\ ShuttingDown(r)
  /\ Ends(r, "success", job, file)
  /\ UNCHANGED shutdown

\* The process of a Plan or Verify stage fails, or its result is refused.
StageThrows(r) ==
  /\ run[r].phase \in {"planning", "verifying"}
  /\ \E outcome \in {"retryable", "final"} : Ends(r, outcome, job, file)
  /\ UNCHANGED shutdown

\* The child of r has ended, and with it the attempt at the subtask.
Resume(r) ==
  LET j == job[r][Complex]
      outcome == run[run[r].child].outcome
  IN  /\ j.state = "child"
      /\ \/ /\ outcome = "success"
            /\ job' = [job EXCEPT ![r][Complex].state = "done",
                                  ![r][Complex].source = <<run[r].child, 0>>]
            /\ UNCHANGED run
         \/ /\ outcome = "retryable" /\ AttemptsLeft(j)
            /\ Unborn # {}                \* bound of the model
            /\ job' = [job EXCEPT ![r][Complex].attempt = @ + 1]
            /\ run' = WithChild(run, r)
         \/ /\ \/ outcome \in {"failure", "final"}
               \/ outcome = "retryable" /\ ~ AttemptsLeft(j)
            /\ job' = [job EXCEPT ![r][Complex].state = "failed"]
            /\ UNCHANGED run
      /\ UNCHANGED <<file, shutdown>>

\* runDAG returns once nothing is running.  Faulty variant: as soon as
\* something has settled (one Promise.race).
DagCompleteAtTheFirst(r) ==
  /\ run[r].phase = "executing"
  /\ \E s \in run[r].plan : job[r][s].state \in {"done", "failed"}
  /\ IF ShuttingDown(r)
       THEN Ends(r, "success", job, file)
       ELSE run' = [run EXCEPT ![r].phase = "verifying"] /\ UNCHANGED <<job, file>>
  /\ UNCHANGED shutdown

DagComplete(r) ==
  /\ run[r].phase = "executing"
  /\ \A s \in run[r].plan : job[r][s].state \in {"done", "failed"}
  /\ IF ShuttingDown(r)
       THEN Ends(r, "success", job, file)
       ELSE run' = [run EXCEPT ![r].phase = "verifying"] /\ UNCHANGED <<job, file>>
  /\ UNCHANGED shutdown

\* The Verify stage ends: it passes, or retryLoop gives up, or it begins a round
\* for the subtasks that failed the check and those whose execution had failed.
VerifyEnds(r) ==
  /\ run[r].phase = "verifying"
  /\ \/ Ends(r, "success", job, file)
     \/ \E S \in SUBSET run[r].plan :
          LET again == S \cup {s \in run[r].plan : job[r][s].state = "failed"}
          IN  IF again = {} \/ run[r].round >= MaxRetries
                THEN Ends(r, "failure", job, file)
                ELSE /\ run' = [run EXCEPT ![r].phase = "retrying", ![r].round = @ + 1,
                                           ![r].toRetry = again]
                     /\ UNCHANGED <<job, file>>
  /\ UNCHANGED shutdown

\* retryLoop executes one after the other, itself and without a retry, also
\* where the plan wanted a decomposition.
RetryNext(r) ==
  /\ run[r].phase = "retrying"
  /\ \A s \in run[r].plan : job[r][s].state # "process"
  /\ \/ /\ run[r].toRetry = {}
        /\ run' = [run EXCEPT ![r].phase = "verifying"]
        /\ UNCHANGED <<job, file>>
     \/ /\ run[r].toRetry # {} /\ ShuttingDown(r)
        /\ Ends(r, "failure", job, file)
     \/ /\ run[r].toRetry # {} /\ ~ ShuttingDown(r)
        /\ LET s == Least(run[r].toRetry)
           IN  /\ job' = [job EXCEPT ![r][s] =
                            Spawned([job[r][s] EXCEPT !.before = job[r][s].calls])]
               /\ run' = [run EXCEPT ![r].toRetry = @ \ {s}]
        /\ UNCHANGED file
  /\ UNCHANGED shutdown

Shutdown ==
  /\ ~ shutdown /\ run[Root].phase # "ended"
  /\ shutdown' = TRUE
  /\ UNCHANGED <<run, job, file>>

-----------------------------------------------------------------------------
ProcessStep(r, s) ==
  \/ Succeeds(r, s) \/ Fails(r, s) \/ NoReport(r, s)
  \/ ExitsNonzero(r, s) \/ SpawnFails(r, s) \/ Timeout(r, s)
  \/ \E c \in job[r][s].alive :
       Die(r, s, c) \/ \E v \in Verdict : Write(r, s, c, v)

RunStep(r) ==
  \/ PlanEnds(r) \/ PlanStops(r) \/ StageThrows(r) \/ Resume(r)
  \/ DagComplete(r) \/ VerifyEnds(r) \/ RetryNext(r)

Next ==
  \/ \E r \in Runs : RunStep(r) \/ \E s \in Subtasks : ProcessStep(r, s)
  \/ Shutdown

\* A timer fires, or a promise of a run settles.
Progress == \E r \in Runs : RunStep(r) \/ \E s \in Subtasks : Timeout(r, s)

Fairness == WF_vars(Progress)

Spec == Init /\ [][Next]_vars

FairSpec == Spec /\ Fairness

-----------------------------------------------------------------------------
(***************************************************************************)
(* No subtask is given more than MaxAttempts + MaxRetries processes, nor a *)
(* run deeper than MaxDepth (executeSubtask, retryLoop, buildChildOptions).*)
(***************************************************************************)
TypeOK ==
  /\ run \in [Runs -> Run]
  /\ job \in [Runs -> [Subtasks -> Job]]
  /\ file \in [Runs -> [Subtasks -> [by : Process, verdict : Verdict]]]
  /\ shutdown \in BOOLEAN

(***************************************************************************)
(* Neither one attempt too few nor one too many: when a subtask is given   *)
(* up after a process that was cut off, which is always worth a retry, it  *)
(* has had exactly MaxAttempts processes, in whatever ways the earlier     *)
(* ones failed (the loop of executeSubtask).                               *)
(***************************************************************************)
AttemptsAreUsedUp ==
  \A r \in Runs, s \in Subtasks :
    LET j == job[r][s]
    IN  run[r].phase = "executing" /\ j.state = "failed" /\ j.calls \in j.cut
          => j.calls = MaxAttempts

(***************************************************************************)
(* The files are shared by attempts and outlive them, and yet a success is *)
(* one of this very subtask of this very run: of the last attempt, of one  *)
(* that was cut off and had finished its work after all, or of an earlier  *)
(* round, if retryLoop's process wrote nothing.                            *)
(***************************************************************************)
ReportedBySubtask(r, s) ==
  LET by == job[r][s].source
      n == by[2]
  IN  /\ by[1] = r /\ n # 0
      /\ (n = job[r][s].calls \/ n \in job[r][s].cut \/ n <= job[r][s].before)

ReportedByChild(r, s) ==
  LET c == job[r][s].source[1]
  IN  /\ s = Complex /\ run[r].marked /\ c # r
      /\ run[c].outcome = "success" /\ run[c].depth = run[r].depth + 1

SuccessIsTraceable ==
  \A r \in Runs, s \in Subtasks :
    job[r][s].state = "done" => ReportedBySubtask(r, s) \/ ReportedByChild(r, s)

(***************************************************************************)
(* Nothing works unattended: a process that is alive was sent SIGTERM, or  *)
(* is the one its run waits for; a run that has not ended is the root, or  *)
(* is waited for by its parent.  So a run that has ended leaves nothing    *)
(* behind but processes that are dying, however its attempts ended.        *)
(***************************************************************************)
Supervised ==
  \A r \in Runs :
    /\ \A s \in Subtasks : \A c \in job[r][s].alive \ job[r][s].cut :
         /\ run[r].phase \in {"executing", "retrying"}
         /\ job[r][s].state = "process" /\ c = Latest(r, s)
    /\ run[r].phase \notin {"unborn", "ended"} /\ r # Root =>
         \E q \in Runs : /\ run[q].phase = "executing" /\ run[q].child = r
                         /\ job[q][Complex].state = "child"

(***************************************************************************)
(* Whatever the processes do, also if they never exit, the run ends        *)
(* (the timer of runClaudeCli, the bounds of the retries and the depth).   *)
(***************************************************************************)
EventuallySettles == <>(run[Root].phase = "ended")
=============================================================================
