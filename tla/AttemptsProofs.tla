--------------------------- MODULE AttemptsProofs ---------------------------
(***************************************************************************)
(* Proofs about Attempts, for any number of attempts, rounds, levels and   *)
(* runs, and any processes that outlive their time.                        *)
(*                                                                         *)
(* What makes a shared file harmless is told per subtask (FileOK): a       *)
(* report of success in it is of the process that is waited for, or of one *)
(* that was cut off, or of an earlier round.  That must hold after every   *)
(* way in which an attempt ends, whoever goes on writing.                  *)
(***************************************************************************)
EXTENDS Attempts, WellFoundedInduction, TLAPS

File == [by : Process, verdict : Verdict]

\* What the record of a run says by itself.
RunOK(R) ==
  /\ R.outcome # "none" => R.phase = "ended"
  /\ R.phase \in {"unborn", "planning", "executing"} => R.round = 0 /\ R.toRetry = {}
  /\ R.toRetry \subseteq R.plan

\* How many processes subtask s has had in the run R.
BoundsOK(s, R, J) ==
  /\ J.before <= J.calls
  /\ J.calls <= MaxAttempts + R.round
  /\ s \in R.toRetry => J.calls < MaxAttempts + R.round
  /\ R.phase = "executing" => J.calls \in {0, J.attempt}

\* What goes on in which phase of the run.
StateOK(s, R, J) ==
  /\ R.phase \in {"unborn", "planning"} => J = Idle
  /\ J.state = "process" =>
       R.phase \in {"executing", "retrying"} /\ s \in R.plan /\ J.calls # 0 /\ J.calls \notin J.cut
  /\ J.state = "child" =>
       s = Complex /\ R.phase = "executing" /\ R.marked /\ s \in R.plan /\ J.calls = 0
  /\ R.phase = "executing" /\ J.state = "failed" /\ J.calls \in J.cut => J.calls = MaxAttempts

\* A process that is alive is the one that is waited for, or was cut off.
ProcessesOK(R, J) ==
  /\ \A c \in J.alive : c \in J.cut \/ (J.state = "process" /\ c = J.calls)
  /\ R.phase # "ended" => \A c \in J.cut : c \in 1 .. J.calls

\* Whose success the file of a subtask of run r may report.
FileOK(r, J, F) ==
  F.verdict = "success" =>
    /\ F.by[1] = r /\ F.by[2] \in 1 .. J.calls
    /\ \/ F.by[2] \in J.cut
       \/ F.by[2] <= J.before
       \/ F.by[2] = J.calls /\ J.state \in {"process", "done"}

JobOK(r, s, R, J, F) ==
  BoundsOK(s, R, J) /\ StateOK(s, R, J) /\ ProcessesOK(R, J) /\ FileOK(r, J, F)

\* retryLoop waits for one process at a time.
OneAtATime(R, jobs) ==
  R.phase = "retrying" =>
    \A s, t \in Subtasks : jobs[s].state = "process" /\ jobs[t].state = "process" => s = t

\* All that is said of one run: R, its subtasks' jobs and files.
LocalOK(r, R, jobs, files) ==
  /\ R \in Run /\ jobs \in [Subtasks -> Job] /\ files \in [Subtasks -> File]
  /\ RunOK(R) /\ OneAtATime(R, jobs)
  /\ \A s \in Subtasks : JobOK(r, s, R, jobs[s], files[s])

\* A run that waits for a child has one, one level deeper.
HasChild(r) ==
  job[r][Complex].state = "child" =>
    /\ run[r].child \in Runs \ {r}
    /\ run[run[r].child].phase # "unborn"
    /\ run[run[r].child].depth = run[r].depth + 1

HasParent(r) ==
  run[r].phase \notin {"unborn", "ended"} /\ r # Root =>
    \E q \in Runs : /\ run[q].phase = "executing" /\ run[q].child = r
                    /\ job[q][Complex].state = "child"

IInv ==
  /\ TypeOK
  /\ \A r \in Runs : LocalOK(r, run[r], job[r], file[r])
  /\ \A r \in Runs : HasChild(r) /\ HasParent(r)
  /\ SuccessIsTraceable

-----------------------------------------------------------------------------
(***************************************************************************)
(* Records that the actions build.                                         *)
(***************************************************************************)
LEMMA Constants ==
  /\ Complex \in Subtasks /\ Subtasks \subseteq Nat
  /\ MaxAttempts \in Nat /\ MaxAttempts # 0 /\ MaxRetries \in Nat /\ MaxDepth \in Nat
  /\ Runs \subseteq Nat /\ Root \in Runs /\ 0 \notin Runs
BY AttemptsAssumption

LEMMA IdleIsJob == Idle \in Job /\ NoFile \in File
<1>1. Nobody \in Process
  BY Constants DEF Nobody, Process
<1> QED
  BY <1>1, Constants DEF Idle, NoFile, Job, File, State, Verdict

LEMMA NewRunIsRun ==
  ASSUME NEW d \in 0 .. MaxDepth
  PROVE  NewRun(d) \in Run
BY Constants DEF NewRun, Run, Phase, Outcome

\* What is left of a job when its run has ended.
Remnant(j) == [Idle EXCEPT !.alive = j.alive, !.cut = j.cut \cap j.alive]

EndedRun(R, outcome) == [NewRun(R.depth) EXCEPT !.phase = "ended", !.outcome = outcome]

LEMMA EndedRunOK ==
  ASSUME NEW R \in Run, NEW outcome \in Outcome
  PROVE  /\ EndedRun(R, outcome) \in Run
         /\ EndedRun(R, outcome).depth = R.depth
         /\ EndedRun(R, outcome).phase = "ended"
         /\ EndedRun(R, outcome).round = 0
         /\ EndedRun(R, outcome).toRetry = {}
         /\ RunOK(EndedRun(R, outcome))
<1>1. R.depth \in 0 .. MaxDepth
  BY DEF Run
<1>2. NewRun(R.depth) \in Run
  BY <1>1, NewRunIsRun
<1> QED
  BY <1>1, <1>2, Constants DEF EndedRun, NewRun, Run, RunOK, Phase

LEMMA RemnantOK ==
  ASSUME NEW j \in Job, NEW R \in Run, NEW outcome \in Outcome,
         NEW r \in Runs, NEW s \in Subtasks, \A c \in j.alive : c \in j.cut
  PROVE  /\ Remnant(j) \in Job /\ Remnant(j).state = "pending"
         /\ JobOK(r, s, EndedRun(R, outcome), Remnant(j), NoFile)
<1>1. j.alive \in SUBSET Nat /\ j.cut \in SUBSET Nat
  BY DEF Job
<1>2. /\ Remnant(j) \in Job
      /\ Remnant(j).state = "pending" /\ Remnant(j).before = 0 /\ Remnant(j).calls = 0
      /\ Remnant(j).alive = j.alive /\ Remnant(j).cut = j.cut \cap j.alive
  BY <1>1, IdleIsJob DEF Remnant, Idle, Job
<1>3. NoFile.verdict # "success"
  BY DEF NoFile
<1> DEFINE E == EndedRun(R, outcome)
<1>4. E.phase = "ended" /\ E.round = 0 /\ E.toRetry = {}
  BY EndedRunOK
<1> HIDE DEF E
<1>5. BoundsOK(s, E, Remnant(j)) /\ StateOK(s, E, Remnant(j)) /\ ProcessesOK(E, Remnant(j))
  BY <1>2, <1>4, Constants DEF BoundsOK, StateOK, ProcessesOK
<1>6. FileOK(r, Remnant(j), NoFile)
  BY <1>3 DEF FileOK
<1> QED
  BY <1>2, <1>5, <1>6 DEF JobOK, E

LEMMA SpawnedIs ==
  ASSUME NEW j \in Job, j.calls < MaxAttempts + MaxRetries
  PROVE  /\ Spawned(j) \in Job
         /\ Spawned(j).state = "process"
         /\ Spawned(j).calls = j.calls + 1
         /\ Spawned(j).attempt = j.attempt
         /\ Spawned(j).before = j.before
         /\ Spawned(j).cut = j.cut
         /\ Spawned(j).alive = j.alive \cup {j.calls + 1}
<1>1. j.calls + 1 \in 0 .. MaxAttempts + MaxRetries /\ j.calls + 1 \in Nat
  BY Constants DEF Job
<1> QED
  BY <1>1 DEF Spawned, Job, State

-----------------------------------------------------------------------------
(***************************************************************************)
(* A step concerns one run r, and at most one that it gives birth to.  If  *)
(* it leaves r in order, and r neither abandons a child that has not ended *)
(* nor claims a success that is not one, then it preserves the invariant.  *)
(***************************************************************************)
FromSubtask(r, J) ==
  LET n == J.source[2]
  IN  J.source[1] = r /\ n # 0 /\ (n = J.calls \/ n \in J.cut \/ n <= J.before)

FromChild(r, s, R, J) ==
  LET c == J.source[1]
  IN  /\ s = Complex /\ R.marked /\ c \in Runs \ {r}
      /\ run[c].outcome = "success" /\ run[c].depth = R.depth + 1

Born(r, q) ==
  /\ run[q].phase = "unborn" /\ run'[q] = NewRun(run[r].depth + 1)
  /\ run'[r].child = q /\ run'[r].phase = "executing" /\ job'[r][Complex].state = "child"

Orderly(r) ==
  /\ TypeOK' /\ LocalOK(r, run'[r], job'[r], file'[r])
  /\ \A q \in Runs \ {r} : /\ job'[q] = job[q] /\ file'[q] = file[q]
                           /\ run'[q] = run[q] \/ Born(r, q)
  /\ run'[r].depth = run[r].depth
  /\ run'[r] = run[r] \/ (run[r].phase \notin {"unborn", "ended"} /\ run'[r].phase # "unborn")
  /\ \A s \in Subtasks : job'[r][s].state = "done" =>
       FromSubtask(r, job'[r][s]) \/ FromChild(r, s, run'[r], job'[r][s])
  /\ job'[r][Complex].state = "child" =>
       LET c == run'[r].child
       IN  c \in Runs \ {r} /\ run'[c].phase # "unborn" /\ run'[c].depth = run[r].depth + 1
  /\ job[r][Complex].state = "child" =>
       \/ /\ job'[r][Complex].state = "child"
          /\ run'[r].child = run[r].child /\ run'[r].phase = run[r].phase
       \/ run[run[r].child].phase = "ended"

LEMMA NewRunOK ==
  ASSUME NEW d \in 0 .. MaxDepth, NEW r \in Runs, NEW s \in Subtasks, NEW F \in File,
         F.verdict # "success"
  PROVE  RunOK(NewRun(d)) /\ JobOK(r, s, NewRun(d), Idle, F)
BY Constants DEF NewRun, RunOK, JobOK, BoundsOK, StateOK, ProcessesOK, FileOK, Idle

LEMMA UnbornIsIdle ==
  ASSUME IInv, NEW r \in Runs, run[r].phase \in {"unborn", "planning"}, NEW s \in Subtasks
  PROVE  job[r][s] = Idle /\ file[r][s] \in File /\ file[r][s].verdict # "success"
<1>1. JobOK(r, s, run[r], job[r][s], file[r][s]) /\ file[r][s] \in File
  BY DEF IInv, LocalOK
<1>2. job[r][s] = Idle
  BY <1>1 DEF JobOK, StateOK
<1>3. ~ \E n \in 1 .. Idle.calls : TRUE
  BY DEF Idle
<1> QED
  BY <1>1, <1>2, <1>3 DEF JobOK, FileOK

LEMMA StepPreserves ==
  ASSUME IInv, NEW r \in Runs, Orderly(r)
  PROVE  IInv'
<1>1. /\ \A q \in Runs : run[q] \in Run /\ run'[q] \in Run
      /\ \A q \in Runs, s \in Subtasks : job[q][s] \in Job /\ file[q][s] \in File
      /\ DOMAIN run = Runs /\ DOMAIN run' = Runs
  BY DEF IInv, TypeOK, Orderly, File
<1>2. ASSUME NEW q \in Runs \ {r}, run'[q] # run[q]
      PROVE  /\ Born(r, q) /\ run[r].depth + 1 \in 0 .. MaxDepth
             /\ run'[q].phase = "planning" /\ run'[q].depth = run[r].depth + 1
             /\ run'[q].outcome = "none"
  <2>1. Born(r, q)
    BY <1>2 DEF Orderly
  <2>2. run'[q].depth = run[r].depth + 1 /\ run'[q].phase = "planning" /\ run'[q].outcome = "none"
    BY <2>1 DEF Born, NewRun
  <2> QED
    BY <1>1, <2>1, <2>2 DEF Run
<1>3. ASSUME NEW q \in Runs, run[q].phase # "unborn"
      PROVE  run'[q].depth = run[q].depth /\ run'[q].phase # "unborn"
  <2>1. CASE q = r
    BY <2>1, <1>3 DEF Orderly
  <2>2. CASE q # r
    BY <2>2, <1>3 DEF Orderly, Born
  <2> QED
    BY <2>1, <2>2
<1>4. ASSUME NEW q \in Runs PROVE LocalOK(q, run'[q], job'[q], file'[q])
  <2>1. CASE q = r
    BY <2>1 DEF Orderly
  <2>2. CASE q # r /\ run'[q] = run[q]
    BY <2>2 DEF Orderly, IInv
  <2>3. CASE q # r /\ run'[q] # run[q]
    <3> DEFINE d == run[r].depth + 1
    <3>1. run[q].phase = "unborn" /\ run'[q] = NewRun(d) /\ d \in 0 .. MaxDepth
      BY <2>3, <1>2 DEF Born
    <3>2. job'[q] = job[q] /\ file'[q] = file[q]
      BY <2>3 DEF Orderly
    <3>3. \A s \in Subtasks : job[q][s] = Idle /\ JobOK(q, s, NewRun(d), job[q][s], file[q][s])
      BY <3>1, UnbornIsIdle, NewRunOK
    <3>4. RunOK(NewRun(d))
      BY <3>1 DEF NewRun, RunOK
    <3>5. OneAtATime(NewRun(d), job[q])
      BY DEF OneAtATime, NewRun
    <3>6. job[q] \in [Subtasks -> Job] /\ file[q] \in [Subtasks -> File]
      BY DEF IInv, LocalOK
    <3>7. NewRun(d) \in Run
      BY <3>1, NewRunIsRun
    <3> QED
      BY <3>1, <3>2, <3>3, <3>4, <3>5, <3>6, <3>7 DEF LocalOK
  <2> QED
    BY <2>1, <2>2, <2>3
<1>5. ASSUME NEW q \in Runs PROVE HasChild(q)'
  <2>1. CASE q = r
    BY <2>1 DEF Orderly, HasChild
  <2>2. CASE q # r
    <3>1. job'[q] = job[q]
      BY <2>2 DEF Orderly
    <3> SUFFICES ASSUME job[q][Complex].state = "child"
                 PROVE  /\ run'[q].child \in Runs \ {q}
                        /\ run'[run'[q].child].phase # "unborn"
                        /\ run'[run'[q].child].depth = run'[q].depth + 1
      BY <3>1 DEF HasChild
    <3>2. run[q].phase = "executing"
      BY Constants DEF IInv, LocalOK, JobOK, StateOK
    <3>3. run'[q] = run[q]
      BY <3>2, <2>2 DEF Orderly, Born
    <3>4. run[q].child \in Runs \ {q} /\ run[run[q].child].phase # "unborn"
          /\ run[run[q].child].depth = run[q].depth + 1
      BY DEF IInv, HasChild
    <3> QED
      BY <3>3, <3>4, <1>3
  <2> QED
    BY <2>1, <2>2
<1>6. ASSUME NEW q \in Runs PROVE HasParent(q)'
  <2> SUFFICES ASSUME run'[q].phase \notin {"unborn", "ended"}, q # Root
               PROVE  \E p \in Runs : /\ run'[p].phase = "executing" /\ run'[p].child = q
                                      /\ job'[p][Complex].state = "child"
    BY DEF HasParent
  <2>1. CASE q # r /\ run'[q] # run[q]
    BY <2>1, <1>2 DEF Born
  <2>2. CASE q = r \/ run'[q] = run[q]
    <3>1. run[q].phase \notin {"unborn", "ended"}
      BY <2>2 DEF Orderly
    <3>2. PICK p \in Runs : /\ run[p].phase = "executing" /\ run[p].child = q
                            /\ job[p][Complex].state = "child"
      BY <3>1 DEF IInv, HasParent
    <3>3. CASE p = r
      BY <3>1, <3>2, <3>3 DEF Orderly
    <3>4. CASE p # r
      BY <3>2, <3>4 DEF Orderly, Born
    <3> QED
      BY <3>3, <3>4
  <2> QED
    BY <2>1, <2>2
<1>7. SuccessIsTraceable'
  <2> SUFFICES ASSUME NEW q \in Runs, NEW s \in Subtasks, job'[q][s].state = "done"
               PROVE  ReportedBySubtask(q, s)' \/ ReportedByChild(q, s)'
    BY DEF SuccessIsTraceable
  <2>1. ASSUME NEW c \in Runs, run[c].outcome = "success"
        PROVE  run'[c] = run[c]
    <3>1. run[c].phase = "ended"
      BY <2>1 DEF IInv, LocalOK, RunOK
    <3> QED
      BY <3>1 DEF Orderly, Born
  <2>2. CASE q = r
    <3>1. CASE FromSubtask(r, job'[r][s])
      BY <2>2, <3>1 DEF FromSubtask, ReportedBySubtask
    <3>2. CASE FromChild(r, s, run'[r], job'[r][s])
      BY <2>2, <3>2, <2>1 DEF FromChild, ReportedByChild
    <3> QED
      BY <2>2, <3>1, <3>2 DEF Orderly
  <2>3. CASE q # r
    <3>1. job'[q] = job[q]
      BY <2>3 DEF Orderly
    <3>2. CASE ReportedBySubtask(q, s)
      BY <3>1, <3>2 DEF ReportedBySubtask
    <3>3. CASE ReportedByChild(q, s)
      <4>1. job[q][s].source[1] \in Runs
        BY <1>1 DEF Job, Process
      <4>2. run[q].phase # "unborn"
        BY <3>1, UnbornIsIdle DEF Idle
      <4>3. run'[q] = run[q]
        BY <4>2, <2>3 DEF Orderly, Born
      <4> QED
        BY <3>1, <3>3, <4>1, <4>3, <2>1 DEF ReportedByChild
    <3> QED
      BY <3>1, <3>2, <3>3 DEF IInv, SuccessIsTraceable
  <2> QED
    BY <2>2, <2>3
<1> QED
  BY <1>4, <1>5, <1>6, <1>7 DEF IInv, Orderly
-----------------------------------------------------------------------------
(***************************************************************************)
(* The ways in which a step changes a run: it replaces one job and its     *)
(* file, or moves the run to another phase, or ends it.                    *)
(***************************************************************************)
LEMMA Typed ==
  ASSUME IInv, NEW r \in Runs
  PROVE  /\ run[r] \in Run /\ run[r].depth \in 0 .. MaxDepth
         /\ \A s \in Subtasks : /\ job[r][s] \in Job /\ file[r][s] \in File
                                /\ JobOK(r, s, run[r], job[r][s], file[r][s])
         /\ RunOK(run[r]) /\ OneAtATime(run[r], job[r])
         /\ HasChild(r)
         /\ DOMAIN run = Runs /\ DOMAIN job = Runs /\ DOMAIN file = Runs
         /\ DOMAIN job[r] = Subtasks /\ DOMAIN file[r] = Subtasks
BY DEF IInv, LocalOK, TypeOK, File, Run

\* The job of one subtask of a run that waits for nothing else.
ChildKept(r, s, j) ==
  /\ j.state = "child" => job[r][s].state = "child"
  /\ job[r][s].state = "child" => j.state = "child" \/ run[run[r].child].phase = "ended"

LEMMA JobStep ==
  ASSUME IInv, NEW r \in Runs, NEW s \in Subtasks, NEW j \in Job, NEW f \in File,
         job' = [job EXCEPT ![r][s] = j], file' = [file EXCEPT ![r][s] = f],
         run' = run, shutdown' \in BOOLEAN,
         JobOK(r, s, run[r], j, f),
         j.state = "process" => run[r].phase = "executing" \/ job[r][s].state = "process",
         ChildKept(r, s, j),
         j.state = "done" => FromSubtask(r, j) \/ FromChild(r, s, run[r], j) \/ job[r][s] = j
  PROVE  IInv'
<1>1. /\ \A q \in Runs \ {r} : job'[q] = job[q] /\ file'[q] = file[q]
      /\ job'[r] = [job[r] EXCEPT ![s] = j] /\ file'[r] = [file[r] EXCEPT ![s] = f]
      /\ job'[r][s] = j /\ file'[r][s] = f
      /\ \A t \in Subtasks \ {s} : job'[r][t] = job[r][t] /\ file'[r][t] = file[r][t]
  BY Typed
<1>2. TypeOK'
  BY DEF IInv, TypeOK, File
<1>3. LocalOK(r, run'[r], job'[r], file'[r])
  <2>1. job'[r] \in [Subtasks -> Job] /\ file'[r] \in [Subtasks -> File]
    BY <1>1, <1>2, Typed DEF TypeOK, File
  <2>2. OneAtATime(run'[r], job'[r])
    <3> SUFFICES ASSUME run[r].phase = "retrying", NEW t \in Subtasks, NEW u \in Subtasks,
                        job'[r][t].state = "process", job'[r][u].state = "process"
                 PROVE  t = u
      BY DEF OneAtATime
    <3>1. job[r][t].state = "process" /\ job[r][u].state = "process"
      BY <1>1
    <3> QED
      BY <3>1, Typed DEF OneAtATime
  <2>3. \A t \in Subtasks : JobOK(r, t, run'[r], job'[r][t], file'[r][t])
    BY <1>1, Typed
  <2> QED
    BY <2>1, <2>2, <2>3, Typed DEF LocalOK
<1>4. ASSUME NEW t \in Subtasks, job'[r][t].state = "done"
      PROVE  FromSubtask(r, job'[r][t]) \/ FromChild(r, t, run'[r], job'[r][t])
  <2>1. CASE job[r][t] = job'[r][t]
    <3>1. ReportedBySubtask(r, t) \/ ReportedByChild(r, t)
      BY <2>1, <1>4 DEF IInv, SuccessIsTraceable
    <3>2. job[r][t].source[1] \in Runs
      BY Typed DEF Job, Process
    <3> QED
      BY <2>1, <3>1, <3>2 DEF FromSubtask, FromChild, ReportedBySubtask, ReportedByChild
  <2>2. CASE t = s /\ job[r][t] # j
    BY <2>2, <1>1, <1>4
  <2> QED
    BY <2>1, <2>2, <1>1
<1>5. job'[r][Complex].state = "child" => job[r][Complex].state = "child"
  BY <1>1, Constants DEF ChildKept
<1>6. job[r][Complex].state = "child" =>
        job'[r][Complex].state = "child" \/ run[run[r].child].phase = "ended"
  BY <1>1, Constants DEF ChildKept
<1>7. Orderly(r)
  BY <1>1, <1>2, <1>3, <1>4, <1>5, <1>6, Typed DEF Orderly, HasChild
<1> QED
  BY <1>7, StepPreserves

\* The run goes on in the phase and the round of R; no child is waited for.
LEMMA PhaseStep ==
  ASSUME IInv, NEW r \in Runs, NEW R \in Run, run' = [run EXCEPT ![r] = R],
         UNCHANGED <<job, file>>, shutdown' \in BOOLEAN,
         run[r].phase \notin {"unborn", "planning", "ended"}, R.phase \in {"verifying", "retrying"},
         R.depth = run[r].depth, R.marked = run[r].marked, R.plan = run[r].plan, RunOK(R),
         \/ R.round = run[r].round /\ R.toRetry = run[r].toRetry
         \/ R.round = run[r].round + 1 /\ R.toRetry \in SUBSET R.plan,
         \A s \in Subtasks : job[r][s].state \notin {"process", "child"}
  PROVE  IInv'
<1>1. /\ \A q \in Runs \ {r} : run'[q] = run[q]
      /\ run'[r] = R
  BY Typed
<1>2. TypeOK'
  BY DEF IInv, TypeOK
<1>3. ASSUME NEW s \in Subtasks PROVE JobOK(r, s, R, job[r][s], file[r][s])
  <2> DEFINE J == job[r][s]
  <2>1. JobOK(r, s, run[r], J, file[r][s]) /\ J \in Job
    BY Typed
  <2>2. J.calls \in Nat /\ R.round \in Nat /\ run[r].round \in Nat
    BY <2>1, Typed, Constants DEF Job, Run
  <2>3. BoundsOK(s, R, J)
    BY <2>1, <2>2, Constants DEF JobOK, BoundsOK
  <2>4. StateOK(s, R, J) /\ ProcessesOK(R, J)
    BY <2>1 DEF JobOK, StateOK, ProcessesOK
  <2> QED
    BY <2>1, <2>3, <2>4 DEF JobOK
<1>4. OneAtATime(R, job[r])
  BY DEF OneAtATime
<1>5. LocalOK(r, run'[r], job'[r], file'[r])
  BY <1>1, <1>3, <1>4 DEF LocalOK, IInv
<1>6. ASSUME NEW t \in Subtasks, job[r][t].state = "done"
      PROVE  FromSubtask(r, job[r][t]) \/ FromChild(r, t, R, job[r][t])
  <2>1. ReportedBySubtask(r, t) \/ ReportedByChild(r, t)
    BY <1>6 DEF IInv, SuccessIsTraceable
  <2>2. job[r][t].source[1] \in Runs
    BY Typed DEF Job, Process
  <2> QED
    BY <2>1, <2>2 DEF FromSubtask, FromChild, ReportedBySubtask, ReportedByChild
<1>7. Orderly(r)
  BY <1>1, <1>2, <1>5, <1>6, Constants DEF Orderly
<1> QED
  BY <1>7, StepPreserves

LEMMA EndStep ==
  ASSUME IInv, NEW r \in Runs, NEW outcome \in Outcome \ {"none"}, NEW jobs, NEW files,
         Ends(r, outcome, jobs, files), shutdown' \in BOOLEAN,
         run[r].phase \notin {"unborn", "ended"},
         jobs \in [Runs -> [Subtasks -> Job]], files \in [Runs -> [Subtasks -> File]],
         \A q \in Runs \ {r} : jobs[q] = job[q] /\ files[q] = file[q],
         \A s \in Subtasks : \A c \in jobs[r][s].alive : c \in jobs[r][s].cut,
         job[r][Complex].state # "child"
  PROVE  IInv'
<1> DEFINE R == EndedRun(run[r], outcome)
           J(s) == Remnant(jobs[r][s])
<1>1. /\ run' = [run EXCEPT ![r] = R]
      /\ job' = [jobs EXCEPT ![r] = [s \in Subtasks |-> J(s)]]
      /\ file' = [files EXCEPT ![r] = [s \in Subtasks |-> NoFile]]
  BY Typed DEF Ends, EndedRun, Remnant
<1>2. R \in Run /\ R.depth = run[r].depth /\ R.phase = "ended" /\ RunOK(R)
  BY Typed, EndedRunOK
<1>3. \A s \in Subtasks : /\ J(s) \in Job /\ J(s).state = "pending"
                          /\ JobOK(r, s, R, J(s), NoFile)
  BY Typed, RemnantOK
<1> HIDE DEF R, J
<1>4. /\ run'[r] = R /\ job'[r] = [s \in Subtasks |-> J(s)]
      /\ file'[r] = [s \in Subtasks |-> NoFile]
      /\ \A q \in Runs \ {r} : run'[q] = run[q] /\ job'[q] = job[q] /\ file'[q] = file[q]
  BY <1>1, Typed
<1>5. TypeOK'
  <2>1. run' \in [Runs -> Run]
    BY <1>1, <1>2 DEF IInv, TypeOK
  <2>2. job' \in [Runs -> [Subtasks -> Job]]
    BY <1>1, <1>3
  <2>3. file' \in [Runs -> [Subtasks -> File]]
    BY <1>1, IdleIsJob
  <2> QED
    BY <2>1, <2>2, <2>3 DEF TypeOK, File
<1>6. LocalOK(r, run'[r], job'[r], file'[r])
  <2>1. OneAtATime(R, job'[r])
    BY <1>2 DEF OneAtATime
  <2>2. job'[r] \in [Subtasks -> Job] /\ file'[r] \in [Subtasks -> File]
    BY <1>3, <1>4, IdleIsJob
  <2> QED
    BY <2>1, <2>2, <1>2, <1>3, <1>4 DEF LocalOK
<1>7. \A s \in Subtasks : job'[r][s].state = "pending"
  BY <1>3, <1>4
<1>8. Orderly(r)
  BY <1>2, <1>4, <1>5, <1>6, <1>7, Constants DEF Orderly
<1> QED
  BY <1>8, StepPreserves
-----------------------------------------------------------------------------
(***************************************************************************)
(* The end of an attempt that fails: j is the job without the process that *)
(* was waited for, f the file as it leaves it.                             *)
(***************************************************************************)
SameCount(j, i) ==
  j.calls = i.calls /\ j.attempt = i.attempt /\ j.before = i.before /\ j.state = i.state

LEMMA WaitedFor ==
  ASSUME IInv, NEW r \in Runs, NEW s \in Subtasks, job[r][s].state = "process"
  PROVE  LET J == job[r][s]
         IN  /\ run[r].phase \in {"executing", "retrying"} /\ s \in run[r].plan
             /\ J.calls \in 1 .. MaxAttempts + MaxRetries /\ J.before \in 0 .. J.calls
             /\ J.calls <= MaxAttempts + run[r].round
             /\ J.alive \in SUBSET Nat /\ J.cut \in SUBSET (1 .. J.calls)
             /\ \A c \in J.alive : c \in J.cut \/ c = J.calls
             /\ J.calls \notin J.cut
             /\ run[r].phase = "executing" => J.calls = J.attempt
<1> DEFINE J == job[r][s]
<1>1. JobOK(r, s, run[r], J, file[r][s]) /\ J \in Job
  BY Typed
<1>2. run[r].phase \in {"executing", "retrying"} /\ s \in run[r].plan
      /\ J.calls # 0 /\ J.calls \notin J.cut
  BY <1>1 DEF JobOK, StateOK
<1>3. J.calls \in 1 .. MaxAttempts + MaxRetries /\ J.before \in 0 .. J.calls
  BY <1>1, <1>2, Constants DEF Job, JobOK, BoundsOK
<1> QED
  BY <1>1, <1>2, <1>3 DEF JobOK, BoundsOK, ProcessesOK, Job

LEMMA ThrowsPreserves ==
  ASSUME IInv, NEW r \in Runs, NEW s \in Subtasks, job[r][s].state = "process",
         NEW j \in Job, SameCount(j, job[r][s]),
         \A c \in j.alive : c \in j.cut,
         j.cut \in SUBSET (1 .. j.calls),
         NEW f \in File, NEW files, files = [file EXCEPT ![r][s] = f],
         f.verdict = "success" =>
           f.by[1] = r /\ f.by[2] \in 1 .. j.calls /\ (f.by[2] \in j.cut \/ f.by[2] <= j.before),
         NEW retryable \in BOOLEAN, Throws(r, s, j, files, retryable), shutdown' = shutdown,
         retryable \/ j.calls \notin j.cut
  PROVE  IInv'
<1> DEFINE J == job[r][s]
<1>1. /\ run[r].phase \in {"executing", "retrying"} /\ s \in run[r].plan
      /\ J.calls \in 1 .. MaxAttempts + MaxRetries /\ J.before \in 0 .. J.calls
      /\ J.calls <= MaxAttempts + run[r].round
      /\ run[r].phase = "executing" => J.calls = J.attempt
  BY WaitedFor
<1>2. shutdown' \in BOOLEAN
  BY DEF IInv, TypeOK
<1>3. JobOK(r, s, run[r], J, file[r][s]) /\ J \in Job /\ J.attempt \in 0 .. MaxAttempts
      /\ RunOK(run[r]) /\ run[r] \in Run
  BY Typed DEF Job
<1>4. CASE run[r].phase = "executing" /\ retryable /\ AttemptsLeft(j)
  <2> DEFINE i == [j EXCEPT !.attempt = @ + 1]
             k == Spawned(i)
  <2>1. J.calls = J.attempt /\ J.attempt + 1 \in 0 .. MaxAttempts
    BY <1>1, <1>3, <1>4, Constants DEF JobOK, BoundsOK, AttemptsLeft, SameCount
  <2>2. i \in Job /\ i.calls = J.calls /\ i.attempt = J.attempt + 1 /\ i.before = J.before
        /\ i.cut = j.cut /\ i.alive = j.alive
    BY <2>1 DEF Job, SameCount
  <2>3. i.calls < MaxAttempts + MaxRetries
    BY <2>1, <2>2, <1>1, <1>3, Constants
  <2> HIDE DEF i
  <2>4. /\ k \in Job /\ k.state = "process" /\ k.calls = J.calls + 1
        /\ k.attempt = J.attempt + 1 /\ k.before = J.before /\ k.cut = j.cut
        /\ k.alive = j.alive \cup {J.calls + 1}
    BY <2>2, <2>3, SpawnedIs
  <2>5. run' = run /\ job' = [job EXCEPT ![r][s] = k] /\ file' = files
    BY <1>4 DEF Throws, i
  <2> HIDE DEF k
  <2>6. run[r].round = 0 /\ run[r].toRetry = {}
    BY <1>3, <1>4 DEF RunOK
  <2>7. BoundsOK(s, run[r], k)
    BY <2>4, <2>1, <2>6, <1>1, <1>3, <1>4, Constants DEF BoundsOK
  <2>8. StateOK(s, run[r], k)
    BY <2>4, <1>1, <1>4 DEF StateOK, SameCount
  <2>9. ProcessesOK(run[r], k)
    BY <2>4, <1>1, <1>4 DEF ProcessesOK, SameCount
  <2>10. FileOK(r, k, f)
    BY <2>4, <1>1 DEF FileOK, SameCount
  <2> QED
    BY <2>4, <2>5, <2>7, <2>8, <2>9, <2>10, <1>2, JobStep DEF JobOK, ChildKept
<1>5. CASE run[r].phase = "executing" /\ ~ (retryable /\ AttemptsLeft(j))
  <2> DEFINE k == [j EXCEPT !.state = "failed"]
  <2>1. /\ k \in Job /\ k.state = "failed" /\ k.calls = J.calls /\ k.attempt = J.attempt
        /\ k.before = J.before /\ k.cut = j.cut /\ k.alive = j.alive
    BY DEF Job, State, SameCount
  <2>2. run' = run /\ job' = [job EXCEPT ![r][s] = k] /\ file' = files
    BY <1>5 DEF Throws
  <2> HIDE DEF k
  <2>3. BoundsOK(s, run[r], k)
    BY <2>1, <1>3, <1>5 DEF JobOK, BoundsOK
  <2>4. J.calls \in j.cut => J.calls = MaxAttempts
    BY <1>1, <1>3, <1>5, Constants DEF AttemptsLeft, SameCount
  <2>5. StateOK(s, run[r], k) /\ ProcessesOK(run[r], k) /\ FileOK(r, k, f)
    BY <2>1, <2>4, <1>5 DEF StateOK, ProcessesOK, FileOK, SameCount
  <2> QED
    BY <2>1, <2>2, <2>3, <2>5, <1>2, JobStep DEF JobOK, ChildKept
<1>6. CASE run[r].phase = "retrying"
  <2> DEFINE outcome == IF retryable THEN "retryable" ELSE "final"
             jobs == [job EXCEPT ![r][s] = j]
  <2>1. Ends(r, outcome, jobs, files)
    BY <1>6 DEF Throws
  <2>2. outcome \in Outcome \ {"none"}
    BY DEF Outcome
  <2>3. /\ jobs \in [Runs -> [Subtasks -> Job]] /\ files \in [Runs -> [Subtasks -> File]]
        /\ \A q \in Runs \ {r} : jobs[q] = job[q] /\ files[q] = file[q]
        /\ jobs[r][s] = j /\ \A t \in Subtasks \ {s} : jobs[r][t] = job[r][t]
    BY DEF IInv, TypeOK, File
  <2>4. ASSUME NEW t \in Subtasks, NEW c \in jobs[r][t].alive PROVE c \in jobs[r][t].cut
    <3>1. CASE t = s
      BY <3>1, <2>3, <2>4
    <3>2. CASE t # s
      <4>1. job[r][t].state # "process"
        BY <3>2, <1>6, Typed DEF OneAtATime
      <4>2. ProcessesOK(run[r], job[r][t])
        BY Typed DEF JobOK
      <4> QED
        BY <4>1, <4>2, <3>2, <2>3, <2>4 DEF ProcessesOK
    <3> QED
      BY <3>1, <3>2
  <2>5. job[r][Complex].state # "child"
    BY <1>6, Typed, Constants DEF JobOK, StateOK
  <2> HIDE DEF jobs, outcome
  <2> QED
    BY <2>1, <2>2, <2>3, <2>4, <2>5, <1>2, <1>6, EndStep
<1> QED
  BY <1>1, <1>4, <1>5, <1>6

-----------------------------------------------------------------------------
(***************************************************************************)
(* The steps of processes.                                                 *)
(***************************************************************************)
LEMMA ExitedIs ==
  ASSUME IInv, NEW r \in Runs, NEW s \in Subtasks, job[r][s].state = "process"
  PROVE  LET j == Exited(r, s)
         IN  /\ j \in Job /\ SameCount(j, job[r][s]) /\ j.source = job[r][s].source
             /\ j.alive \subseteq job[r][s].alive
             /\ j.cut = job[r][s].cut /\ j.cut \in SUBSET (1 .. j.calls) /\ j.calls \notin j.cut
             /\ \A c \in j.alive : c \in j.cut
<1>1. job[r][s] \in Job
  BY Typed
<1>2. /\ Exited(r, s) \in Job /\ SameCount(Exited(r, s), job[r][s])
      /\ Exited(r, s).source = job[r][s].source
      /\ Exited(r, s).alive = job[r][s].alive \ {job[r][s].calls}
      /\ Exited(r, s).cut = job[r][s].cut
  BY <1>1 DEF Exited, Latest, SameCount, Job
<1> QED
  BY <1>2, WaitedFor DEF SameCount

LEMMA UnchangedFile ==
  ASSUME IInv, NEW r \in Runs, NEW s \in Subtasks
  PROVE  /\ file = [file EXCEPT ![r][s] = file[r][s]]
         /\ job = [job EXCEPT ![r][s] = job[r][s]]
BY DEF IInv, TypeOK

LEMMA FileThen ==
  ASSUME IInv, NEW r \in Runs, NEW s \in Subtasks, file[r][s].verdict = "success",
         job[r][s].state = "process"
  PROVE  LET J == job[r][s]
             by == file[r][s].by
         IN  /\ by \in Process /\ by[1] = r /\ by[2] \in 1 .. J.calls
             /\ by = <<r, by[2]>>
             /\ by[2] \in J.cut \/ by[2] <= J.before \/ by[2] = J.calls
<1>1. FileOK(r, job[r][s], file[r][s]) /\ file[r][s] \in File
  BY Typed DEF JobOK
<1> QED
  BY <1>1 DEF FileOK, File, Process

LEMMA SucceedsPreserves ==
  ASSUME IInv, NEW r \in Runs, NEW s \in Subtasks, Succeeds(r, s)
  PROVE  IInv'
<1> DEFINE J == job[r][s]
           f == file[r][s]
           E == Exited(r, s)
           k == [E EXCEPT !.state = "done", !.source = f.by]
<1>1. J.state = "process" /\ f.verdict = "success"
      /\ job' = [job EXCEPT ![r][s] = k] /\ run' = run /\ file' = file /\ shutdown' = shutdown
  BY DEF Succeeds, Tmp
<1>2. /\ f.by \in Process /\ f.by[1] = r /\ f.by[2] \in 1 .. J.calls
      /\ f.by[2] \in J.cut \/ f.by[2] <= J.before \/ f.by[2] = J.calls
  BY <1>1, FileThen
<1>3. /\ E \in Job /\ SameCount(E, J) /\ E.cut = J.cut /\ \A c \in E.alive : c \in E.cut
      /\ E.cut \in SUBSET (1 .. E.calls)
  BY <1>1, ExitedIs
<1> HIDE DEF E
<1>4. /\ k \in Job /\ k.state = "done" /\ k.calls = J.calls /\ k.attempt = J.attempt
      /\ k.before = J.before /\ k.cut = J.cut /\ k.alive = E.alive /\ k.source = f.by
  BY <1>2, <1>3 DEF Job, State, SameCount
<1> HIDE DEF k
<1>5. JobOK(r, s, run[r], J, f) /\ f \in File
  BY Typed
<1>6. run[r].phase \in {"executing", "retrying"}
  BY <1>1, WaitedFor
<1>7. BoundsOK(s, run[r], k) /\ StateOK(s, run[r], k) /\ ProcessesOK(run[r], k)
  BY <1>3, <1>4, <1>5, <1>6 DEF JobOK, BoundsOK, StateOK, ProcessesOK, SameCount
<1>8. FileOK(r, k, f)
  BY <1>2, <1>4 DEF FileOK
<1>9. FromSubtask(r, k)
  BY <1>2, <1>4 DEF FromSubtask
<1>10. file' = [file EXCEPT ![r][s] = f] /\ shutdown' \in BOOLEAN
  BY <1>1, UnchangedFile DEF IInv, TypeOK
<1> QED
  BY <1>1, <1>4, <1>5, <1>7, <1>8, <1>9, <1>10, JobStep DEF JobOK, ChildKept

LEMMA FailsPreserves ==
  ASSUME IInv, NEW r \in Runs, NEW s \in Subtasks,
         Fails(r, s) \/ NoReport(r, s) \/ SpawnFails(r, s)
  PROVE  IInv'
<1> DEFINE J == job[r][s]
           E == Exited(r, s)
<1>1. J.state = "process" /\ shutdown' = shutdown
  BY DEF Fails, NoReport, SpawnFails
<1>2. /\ E \in Job /\ SameCount(E, J) /\ E.cut = J.cut /\ \A c \in E.alive : c \in E.cut
      /\ E.cut \in SUBSET (1 .. E.calls) /\ E.calls \notin E.cut
  BY <1>1, ExitedIs
<1> HIDE DEF E
<1>3. file = [file EXCEPT ![r][s] = file[r][s]] /\ file[r][s] \in File
  BY UnchangedFile, Typed
<1>4. CASE Fails(r, s)
  <2>1. PICK retryable \in BOOLEAN : Throws(r, s, E, file, retryable)
    BY <1>4 DEF Fails, E
  <2>2. file[r][s].verdict # "success"
    BY <1>4 DEF Fails, Tmp
  <2> QED
    BY <1>1, <1>2, <1>3, <2>1, <2>2, ThrowsPreserves
<1>5. CASE NoReport(r, s)
  <2>1. PICK v \in {"retryWorthy", "failure"} :
          \/ Throws(r, s, E, [file EXCEPT ![r][s] = [by |-> Nobody, verdict |-> v]],
                    v = "retryWorthy")
          \/ Throws(r, s, E, file, TRUE)
    BY <1>5 DEF NoReport, Tmp, E
  <2> DEFINE f == [by |-> Nobody, verdict |-> v]
  <2>2. f \in File /\ f.verdict # "success"
    BY Constants DEF File, Process, Nobody, Verdict
  <2>3. file[r][s].verdict # "success"
    BY <1>5 DEF NoReport, Tmp
  <2>4. CASE Throws(r, s, E, [file EXCEPT ![r][s] = f], v = "retryWorthy")
    BY <1>1, <1>2, <2>2, <2>4, ThrowsPreserves
  <2>5. CASE Throws(r, s, E, file, TRUE)
    BY <1>1, <1>2, <1>3, <2>3, <2>5, ThrowsPreserves
  <2> QED
    BY <2>1, <2>4, <2>5
<1>6. CASE SpawnFails(r, s)
  <2>1. Throws(r, s, E, file, FALSE) /\ file[r][s].by # <<r, J.calls>>
    BY <1>6 DEF SpawnFails, Tmp, E, Latest
  <2>2. file[r][s].verdict = "success" =>
          /\ file[r][s].by[1] = r /\ file[r][s].by[2] \in 1 .. E.calls
          /\ file[r][s].by[2] \in E.cut \/ file[r][s].by[2] <= E.before
    BY <1>1, <1>2, <2>1, FileThen DEF SameCount
  <2> QED
    BY <1>1, <1>2, <1>3, <2>1, <2>2, ThrowsPreserves
<1> QED
  BY <1>4, <1>5, <1>6

LEMMA CutPreserves ==
  ASSUME IInv, NEW r \in Runs, NEW s \in Subtasks, ExitsNonzero(r, s) \/ Timeout(r, s)
  PROVE  IInv'
<1> DEFINE J == job[r][s]
           n == J.calls
<1>1. J.state = "process" /\ shutdown' = shutdown
  BY DEF ExitsNonzero, Timeout
<1>2. PICK j : /\ j \in {[Exited(r, s) EXCEPT !.cut = @ \cup {n}], [J EXCEPT !.cut = @ \cup {n}],
                        [[J EXCEPT !.cut = @ \cup {n}] EXCEPT !.alive = @ \ {n}]}
               /\ Throws(r, s, j, file, TRUE)
  BY DEF ExitsNonzero, Timeout, Latest
<1>3. J \in Job /\ n \in 1 .. MaxAttempts + MaxRetries
      /\ J.cut \in SUBSET (1 .. n) /\ \A c \in J.alive : c \in J.cut \/ c = n
  BY <1>1, Typed, WaitedFor
<1>4. j \in Job /\ SameCount(j, J) /\ j.cut = J.cut \cup {n} /\ j.alive \subseteq J.alive
  <2>1. CASE j = [Exited(r, s) EXCEPT !.cut = @ \cup {n}]
    BY <2>1, <1>1, <1>3, ExitedIs DEF Job, SameCount
  <2>2. n \in Nat /\ J.cut \cup {n} \in SUBSET Nat /\ J.alive \ {n} \in SUBSET Nat
    BY <1>3, Constants DEF Job
  <2>3. CASE j = [J EXCEPT !.cut = @ \cup {n}]
    BY <2>2, <2>3, <1>3 DEF Job, SameCount
  <2>4. CASE j = [[J EXCEPT !.cut = @ \cup {n}] EXCEPT !.alive = @ \ {n}]
    BY <2>2, <2>4, <1>3 DEF Job, SameCount
  <2> QED
    BY <2>1, <2>3, <2>4, <1>2
<1>5. (\A c \in j.alive : c \in j.cut) /\ j.cut \in SUBSET (1 .. j.calls)
  BY <1>3, <1>4 DEF SameCount
<1>6. file[r][s].verdict = "success" =>
        /\ file[r][s].by[1] = r /\ file[r][s].by[2] \in 1 .. j.calls
        /\ file[r][s].by[2] \in j.cut \/ file[r][s].by[2] <= j.before
  BY <1>1, <1>4, FileThen DEF SameCount
<1>7. file = [file EXCEPT ![r][s] = file[r][s]] /\ file[r][s] \in File
  BY UnchangedFile, Typed
<1> QED
  BY <1>1, <1>2, <1>4, <1>5, <1>6, <1>7, ThrowsPreserves

LEMMA DiePreserves ==
  ASSUME IInv, NEW r \in Runs, NEW s \in Subtasks, NEW c \in job[r][s].alive, Die(r, s, c)
  PROVE  IInv'
<1> DEFINE J == job[r][s]
           k == [J EXCEPT !.alive = @ \ {c}]
<1>1. job' = [job EXCEPT ![r][s] = k] /\ run' = run /\ file' = file /\ shutdown' = shutdown
  BY DEF Die
<1>2. J \in Job /\ JobOK(r, s, run[r], J, file[r][s]) /\ file[r][s] \in File
  BY Typed
<1>3. /\ k \in Job /\ k.state = J.state /\ k.calls = J.calls /\ k.attempt = J.attempt
      /\ k.before = J.before /\ k.cut = J.cut /\ k.alive \subseteq J.alive /\ k.source = J.source
  BY <1>2 DEF Job
<1>4. run[r].phase \notin {"unborn", "planning"}
  BY UnbornIsIdle DEF Idle
<1> HIDE DEF k
<1>5. BoundsOK(s, run[r], k) /\ StateOK(s, run[r], k) /\ ProcessesOK(run[r], k)
  BY <1>2, <1>3, <1>4 DEF JobOK, BoundsOK, StateOK, ProcessesOK
<1>6. FileOK(r, k, file[r][s])
  BY <1>2, <1>3 DEF JobOK, FileOK
<1>7. k.state = "done" => FromSubtask(r, k) \/ FromChild(r, s, run[r], k)
  <2>1. J.source[1] \in Runs
    BY <1>2 DEF Job, Process
  <2>2. J.state = "done" => ReportedBySubtask(r, s) \/ ReportedByChild(r, s)
    BY DEF IInv, SuccessIsTraceable
  <2>3. ReportedBySubtask(r, s) => FromSubtask(r, k)
    BY <1>3 DEF ReportedBySubtask, FromSubtask
  <2>4. ReportedByChild(r, s) => FromChild(r, s, run[r], k)
    BY <2>1, <1>3 DEF ReportedByChild, FromChild
  <2> QED
    BY <2>2, <2>3, <2>4, <1>3
<1>8. file' = [file EXCEPT ![r][s] = file[r][s]] /\ shutdown' \in BOOLEAN
  BY <1>1, UnchangedFile DEF IInv, TypeOK
<1> QED
  BY <1>1, <1>2, <1>3, <1>5, <1>6, <1>7, <1>8, JobStep DEF JobOK, ChildKept

LEMMA WritePreserves ==
  ASSUME IInv, NEW r \in Runs, NEW s \in Subtasks, NEW c \in job[r][s].alive, NEW v \in Verdict,
         Write(r, s, c, v)
  PROVE  IInv'
<1> DEFINE J == job[r][s]
           f == [by |-> <<r, c>>, verdict |-> v]
<1>1. /\ file' = [file EXCEPT ![r][s] = f] /\ run' = run /\ job' = job /\ shutdown' = shutdown
      /\ run[r].phase # "ended"
  BY DEF Write, Tmp
<1>2. J \in Job /\ JobOK(r, s, run[r], J, file[r][s])
  BY Typed
<1>3. c \in 1 .. J.calls /\ (c \in J.cut \/ (c = J.calls /\ J.state = "process"))
  BY <1>1, <1>2 DEF JobOK, ProcessesOK, StateOK, Job
<1>4. f \in File
  BY <1>2 DEF File, Process, Job
<1>5. f.by[1] = r /\ f.by[2] = c
  OBVIOUS
<1>6. FileOK(r, J, f)
  BY <1>3, <1>5 DEF FileOK
<1>7. job' = [job EXCEPT ![r][s] = J] /\ shutdown' \in BOOLEAN
  BY <1>1, UnchangedFile DEF IInv, TypeOK
<1> HIDE DEF f
<1> QED
  BY <1>1, <1>2, <1>4, <1>6, <1>7, JobStep DEF JobOK, ChildKept
-----------------------------------------------------------------------------
(***************************************************************************)
(* The steps of runs.                                                      *)
(***************************************************************************)
LEMMA LeastIsOne ==
  ASSUME NEW T \in SUBSET Nat, T # {}
  PROVE  Least(T) \in T
<1> DEFINE Less == {p \in Nat \X Nat : p[1] < p[2]}
<1>1. IsWellFoundedOn(Less, Nat)
  BY NatLessThanWellFounded DEF OpToRel
<1>2. PICK t \in T : \A u \in T : <<u, t>> \notin Less
  BY <1>1, WFMin
<1>3. ASSUME NEW u \in T PROVE t <= u
  <2>1. t \in Nat /\ u \in Nat /\ <<u, t>> \in Nat \X Nat
    OBVIOUS
  <2>2. ~ (u < t)
    BY <1>2, <2>1
  <2> QED
    BY <2>1, <2>2
<1> QED
  BY <1>3 DEF Least

LEMMA EndNow ==
  ASSUME IInv, NEW r \in Runs, NEW outcome \in Outcome \ {"none"},
         Ends(r, outcome, job, file), shutdown' \in BOOLEAN,
         run[r].phase \notin {"unborn", "ended"},
         \A s \in Subtasks : job[r][s].state \notin {"process", "child"}
  PROVE  IInv'
<1>1. \A s \in Subtasks : \A c \in job[r][s].alive : c \in job[r][s].cut
  BY Typed DEF JobOK, ProcessesOK
<1>2. job \in [Runs -> [Subtasks -> Job]] /\ file \in [Runs -> [Subtasks -> File]]
  BY DEF IInv, TypeOK, File
<1> QED
  BY <1>1, <1>2, EndStep, Constants

LEMMA NothingRuns ==
  ASSUME IInv, NEW r \in Runs, NEW s \in Subtasks,
         \/ run[r].phase \in {"planning", "verifying"}
         \/ run[r].phase = "executing" /\
              \A t \in run[r].plan : job[r][t].state \in {"done", "failed"}
         \/ run[r].phase = "retrying" /\ \A t \in run[r].plan : job[r][t].state # "process"
  PROVE  job[r][s].state \notin {"process", "child"}
BY Typed DEF JobOK, StateOK

LEMMA StopsPreserve ==
  ASSUME IInv, NEW r \in Runs, PlanStops(r) \/ StageThrows(r)
  PROVE  IInv'
<1>1. run[r].phase \in {"planning", "verifying"}
  BY DEF PlanStops, StageThrows
<1>2. PICK outcome \in {"success", "retryable", "final"} :
        Ends(r, outcome, job, file) /\ shutdown' = shutdown
  BY DEF PlanStops, StageThrows
<1>3. outcome \in Outcome \ {"none"} /\ shutdown' \in BOOLEAN
  BY <1>2 DEF Outcome, IInv, TypeOK
<1> QED
  BY <1>1, <1>2, <1>3, EndNow, NothingRuns

LEMMA DagCompletePreserves ==
  ASSUME IInv, NEW r \in Runs, DagComplete(r)
  PROVE  IInv'
<1>1. \A s \in Subtasks : job[r][s].state \notin {"process", "child"}
  BY NothingRuns DEF DagComplete
<1>2. shutdown' \in BOOLEAN /\ "success" \in Outcome \ {"none"}
  BY DEF DagComplete, IInv, TypeOK, Outcome
<1>3. CASE Ends(r, "success", job, file)
  BY <1>1, <1>2, <1>3, EndNow DEF DagComplete
<1>4. CASE run' = [run EXCEPT ![r].phase = "verifying"] /\ UNCHANGED <<job, file>>
  <2> DEFINE R == [run[r] EXCEPT !.phase = "verifying"]
  <2>1. /\ R \in Run /\ R.phase = "verifying" /\ R.depth = run[r].depth
        /\ R.marked = run[r].marked /\ R.plan = run[r].plan
        /\ R.round = run[r].round /\ R.toRetry = run[r].toRetry /\ R.outcome = run[r].outcome
    BY Typed DEF Run, Phase
  <2>2. run' = [run EXCEPT ![r] = R]
    BY <1>4
  <2> HIDE DEF R
  <2>3. RunOK(R)
    BY <2>1, Typed DEF RunOK, DagComplete
  <2>4. run[r].phase = "executing"
    BY DEF DagComplete
  <2> QED
    BY <2>1, <2>2, <2>3, <2>4, <1>1, <1>2, <1>4, PhaseStep
<1> QED
  BY <1>3, <1>4 DEF DagComplete

LEMMA VerifyEndsPreserves ==
  ASSUME IInv, NEW r \in Runs, VerifyEnds(r)
  PROVE  IInv'
<1>1. \A s \in Subtasks : job[r][s].state \notin {"process", "child"}
  BY NothingRuns DEF VerifyEnds
<1>2. shutdown' \in BOOLEAN /\ {"success", "failure"} \subseteq Outcome \ {"none"}
      /\ run[r].phase = "verifying"
  BY DEF VerifyEnds, IInv, TypeOK, Outcome
<1>3. CASE Ends(r, "success", job, file) \/ Ends(r, "failure", job, file)
  BY <1>1, <1>2, <1>3, EndNow
<1>4. ASSUME NEW S \in SUBSET run[r].plan, run[r].round < MaxRetries,
             run' = [run EXCEPT ![r].phase = "retrying", ![r].round = @ + 1, ![r].toRetry = S],
             UNCHANGED <<job, file>>
      PROVE  IInv'
  <2> DEFINE R == [run[r] EXCEPT !.phase = "retrying", !.round = @ + 1, !.toRetry = S]
  <2>1. run[r].round + 1 \in 0 .. MaxRetries /\ S \subseteq Subtasks
    BY <1>4, Typed, Constants DEF Run
  <2>2. /\ R \in Run /\ R.phase = "retrying" /\ R.depth = run[r].depth
        /\ R.marked = run[r].marked /\ R.plan = run[r].plan
        /\ R.round = run[r].round + 1 /\ R.toRetry = S /\ R.outcome = run[r].outcome
    BY <2>1, Typed DEF Run, Phase
  <2>3. run' = [run EXCEPT ![r] = R]
    BY <1>4
  <2> HIDE DEF R
  <2>4. RunOK(R)
    BY <2>2, <1>2, Typed DEF RunOK
  <2> QED
    BY <2>2, <2>3, <2>4, <1>1, <1>2, <1>4, PhaseStep
<1>5. CASE \E S \in SUBSET run[r].plan :
             LET again == S \cup {s \in run[r].plan : job[r][s].state = "failed"}
             IN  IF again = {} \/ run[r].round >= MaxRetries
                   THEN Ends(r, "failure", job, file)
                   ELSE /\ run' = [run EXCEPT ![r].phase = "retrying", ![r].round = @ + 1,
                                              ![r].toRetry = again]
                        /\ UNCHANGED <<job, file>>
  <2>1. PICK S \in SUBSET run[r].plan :
          LET again == S \cup {s \in run[r].plan : job[r][s].state = "failed"}
          IN  IF again = {} \/ run[r].round >= MaxRetries
                THEN Ends(r, "failure", job, file)
                ELSE /\ run' = [run EXCEPT ![r].phase = "retrying", ![r].round = @ + 1,
                                           ![r].toRetry = again]
                     /\ UNCHANGED <<job, file>>
    BY <1>5
  <2> DEFINE again == S \cup {s \in run[r].plan : job[r][s].state = "failed"}
  <2>2. again \in SUBSET run[r].plan
    OBVIOUS
  <2>3. CASE again = {} \/ run[r].round >= MaxRetries
    BY <2>1, <2>3, <1>3
  <2>4. CASE ~ (again = {} \/ run[r].round >= MaxRetries)
    <3>1. run[r].round < MaxRetries
      BY <2>4, Typed, Constants DEF Run
    <3>2. /\ run' = [run EXCEPT ![r].phase = "retrying", ![r].round = @ + 1, ![r].toRetry = again]
          /\ UNCHANGED <<job, file>>
      BY <2>1, <2>4
    <3> HIDE DEF again
    <3> QED
      BY <2>2, <3>1, <3>2, <1>4
  <2> QED
    BY <2>3, <2>4
<1> QED
  BY <1>3, <1>5 DEF VerifyEnds

LEMMA RetryNextPreserves ==
  ASSUME IInv, NEW r \in Runs, RetryNext(r)
  PROVE  IInv'
<1>1. \A s \in Subtasks : job[r][s].state \notin {"process", "child"}
  BY NothingRuns DEF RetryNext
<1>2. shutdown' \in BOOLEAN /\ "failure" \in Outcome \ {"none"} /\ run[r].phase = "retrying"
  BY DEF RetryNext, IInv, TypeOK, Outcome
<1>3. CASE Ends(r, "failure", job, file)
  BY <1>1, <1>2, <1>3, EndNow
<1>4. CASE /\ run[r].toRetry = {}
           /\ run' = [run EXCEPT ![r].phase = "verifying"]
           /\ UNCHANGED <<job, file>>
  <2> DEFINE R == [run[r] EXCEPT !.phase = "verifying"]
  <2>1. /\ R \in Run /\ R.phase = "verifying" /\ R.depth = run[r].depth
        /\ R.marked = run[r].marked /\ R.plan = run[r].plan
        /\ R.round = run[r].round /\ R.toRetry = run[r].toRetry /\ R.outcome = run[r].outcome
    BY Typed DEF Run, Phase
  <2>2. run' = [run EXCEPT ![r] = R]
    BY <1>4
  <2> HIDE DEF R
  <2>3. RunOK(R)
    BY <2>1, <1>2, Typed DEF RunOK
  <2> QED
    BY <2>1, <2>2, <2>3, <1>1, <1>2, <1>4, PhaseStep
<1>5. CASE /\ run[r].toRetry # {}
           /\ LET s == Least(run[r].toRetry)
              IN  /\ job' = [job EXCEPT ![r][s] =
                               Spawned([job[r][s] EXCEPT !.before = job[r][s].calls])]
                  /\ run' = [run EXCEPT ![r].toRetry = @ \ {s}]
           /\ UNCHANGED file
  <2> DEFINE s == Least(run[r].toRetry)
             J == job[r][s]
             i == [J EXCEPT !.before = J.calls]
             k == Spawned(i)
             R == [run[r] EXCEPT !.toRetry = @ \ {s}]
  <2>1. run[r].toRetry \in SUBSET Subtasks /\ run[r].toRetry \in SUBSET Nat
        /\ run[r].toRetry \subseteq run[r].plan /\ run[r].round \in 0 .. MaxRetries
    BY Typed, Constants DEF Run, RunOK
  <2>2. s \in run[r].toRetry
    BY <2>1, <1>5, LeastIsOne
  <2>3. s \in Subtasks /\ s \in run[r].plan
    BY <2>1, <2>2
  <2>4. /\ run' = [run EXCEPT ![r] = R]
        /\ job' = [job EXCEPT ![r][s] = k] /\ file' = file
    BY <1>5
  <2> HIDE DEF s
  <2>5. /\ J \in Job /\ JobOK(r, s, run[r], J, file[r][s])
        /\ J.calls \in Nat /\ J.calls < MaxAttempts + run[r].round
    BY <2>2, <2>3, Typed DEF JobOK, BoundsOK, Job
  <2>6. /\ i \in Job /\ i.calls = J.calls /\ i.before = J.calls /\ i.cut = J.cut
        /\ i.alive = J.alive /\ i.attempt = J.attempt
    BY <2>5 DEF Job
  <2> HIDE DEF i
  <2>7. i.calls < MaxAttempts + MaxRetries
    BY <2>1, <2>5, <2>6, Constants
  <2>8. /\ k \in Job /\ k.state = "process" /\ k.calls = J.calls + 1 /\ k.before = J.calls
        /\ k.cut = J.cut /\ k.alive = J.alive \cup {J.calls + 1}
    BY <2>6, <2>7, SpawnedIs
  <2> HIDE DEF k
  <2>9. /\ R \in Run /\ R.phase = "retrying" /\ R.depth = run[r].depth
        /\ R.marked = run[r].marked /\ R.plan = run[r].plan
        /\ R.round = run[r].round /\ R.toRetry = run[r].toRetry \ {s} /\ R.outcome = run[r].outcome
    BY Typed, <1>2 DEF Run
  <2> HIDE DEF R
  <2>10. RunOK(R)
    BY <2>9, Typed, <1>2 DEF RunOK
  <2>11. BoundsOK(s, R, k)
    BY <2>1, <2>5, <2>8, <2>9, Constants DEF BoundsOK
  <2>12. StateOK(s, R, k)
    <3>1. \A c \in J.cut : c \in 1 .. J.calls
      BY <1>2, <2>5 DEF JobOK, ProcessesOK
    <3>2. k.calls # 0 /\ k.calls \notin k.cut
      BY <3>1, <2>5, <2>8
    <3> QED
      BY <3>2, <2>3, <2>8, <2>9 DEF StateOK
  <2>13. ProcessesOK(R, k)
    <3>1. \A c \in J.alive : c \in J.cut
      BY <1>1, <2>3, <2>5 DEF JobOK, ProcessesOK
    <3>2. \A c \in J.cut : c \in 1 .. J.calls
      BY <1>2, <2>5 DEF JobOK, ProcessesOK
    <3> QED
      BY <3>1, <3>2, <2>5, <2>8 DEF ProcessesOK
  <2>14. FileOK(r, k, file[r][s])
    BY <2>5, <2>8 DEF JobOK, FileOK
  <2>15. /\ \A q \in Runs \ {r} : run'[q] = run[q] /\ job'[q] = job[q]
         /\ run'[r] = R /\ job'[r] = [job[r] EXCEPT ![s] = k] /\ job'[r][s] = k
         /\ \A t \in Subtasks \ {s} : job'[r][t] = job[r][t]
    BY <2>3, <2>4, Typed
  <2>16. TypeOK'
    BY <2>4, <2>8, <2>9, <1>2 DEF IInv, TypeOK
  <2>17. ASSUME NEW t \in Subtasks PROVE JobOK(r, t, R, job'[r][t], file'[r][t])
    <3>1. CASE t = s
      BY <3>1, <2>4, <2>11, <2>12, <2>13, <2>14, <2>15 DEF JobOK
    <3>2. CASE t # s
      <4>1. JobOK(r, t, run[r], job[r][t], file[r][t])
        BY Typed
      <4>2. BoundsOK(t, R, job[r][t]) /\ StateOK(t, R, job[r][t]) /\ ProcessesOK(R, job[r][t])
        BY <4>1, <2>9, <1>2 DEF JobOK, BoundsOK, StateOK, ProcessesOK
      <4> QED
        BY <3>2, <4>1, <4>2, <2>4, <2>15 DEF JobOK
    <3> QED
      BY <3>1, <3>2
  <2>18. OneAtATime(R, job'[r])
    BY <1>1, <2>15 DEF OneAtATime
  <2>19. LocalOK(r, run'[r], job'[r], file'[r])
    <3>1. job'[r] \in [Subtasks -> Job] /\ file'[r] \in [Subtasks -> File]
      BY <2>16 DEF TypeOK, File
    <3> QED
      BY <3>1, <2>9, <2>10, <2>15, <2>17, <2>18 DEF LocalOK
  <2>20. ASSUME NEW t \in Subtasks, job'[r][t].state = "done"
         PROVE  FromSubtask(r, job'[r][t]) \/ FromChild(r, t, R, job'[r][t])
    <3>1. t # s /\ job'[r][t] = job[r][t]
      BY <2>20, <2>8, <2>15
    <3>2. ReportedBySubtask(r, t) \/ ReportedByChild(r, t)
      BY <3>1, <2>20 DEF IInv, SuccessIsTraceable
    <3>3. job[r][t].source[1] \in Runs
      BY Typed DEF Job, Process
    <3> QED
      BY <3>1, <3>2, <3>3, <2>9 DEF FromSubtask, FromChild, ReportedBySubtask, ReportedByChild
  <2>21. job'[r][Complex].state # "child" /\ job[r][Complex].state # "child"
    BY <1>1, <2>8, <2>15, Constants
  <2>22. Orderly(r)
    BY <2>4, <2>9, <2>15, <2>16, <2>19, <2>20, <2>21, <1>2 DEF Orderly
  <2> QED
    BY <2>22, StepPreserves
<1> QED
  BY <1>3, <1>4, <1>5 DEF RetryNext
-----------------------------------------------------------------------------
(***************************************************************************)
(* The birth of a child.                                                   *)
(***************************************************************************)
LEMMA WithChildIs ==
  ASSUME NEW r \in Runs, NEW runs \in [Runs -> Run], Unborn # {}, r \notin Unborn,
         runs[r].depth < MaxDepth
  PROVE  \E c \in Unborn :
           /\ WithChild(runs, r) \in [Runs -> Run]
           /\ WithChild(runs, r)[r] = [runs[r] EXCEPT !.child = c]
           /\ WithChild(runs, r)[c] = NewRun(runs[r].depth + 1)
           /\ \A q \in Runs \ {r, c} : WithChild(runs, r)[q] = runs[q]
<1> DEFINE c == Least(Unborn)
<1>1. c \in Unborn /\ c \in Runs /\ c # r
  BY LeastIsOne, Constants DEF Unborn
<1>2. WithChild(runs, r) = [runs EXCEPT ![r].child = c, ![c] = NewRun(runs[r].depth + 1)]
  BY DEF WithChild
<1> HIDE DEF c
<1>3. runs[r].depth + 1 \in 0 .. MaxDepth
  BY Constants DEF Run
<1>4. NewRun(runs[r].depth + 1) \in Run
  BY <1>3, NewRunIsRun
<1>5. [runs[r] EXCEPT !.child = c] \in Run
  BY <1>1 DEF Run
<1> QED
  BY <1>1, <1>2, <1>4, <1>5

LEMMA LaunchedOK ==
  ASSUME IInv, NEW r \in Runs, run[r].phase = "planning", NEW S \in SUBSET Subtasks,
         NEW marked \in BOOLEAN, NEW s \in Subtasks,
         NEW R \in Run, R.phase = "executing", R.plan = S, R.marked = marked,
         R.round = 0, R.toRetry = {}
  PROVE  LET k == Launched(r, S, marked)[s]
         IN  /\ k \in Job /\ JobOK(r, s, R, k, file[r][s])
             /\ k.state \in {"pending", "process", "child", "failed"}
             /\ k.state = "child" <=> s \in S /\ marked /\ s = Complex /\ run[r].depth < MaxDepth
<1> DEFINE k == Launched(r, S, marked)[s]
           first == [Idle EXCEPT !.attempt = 1]
<1>1. job[r][s] = Idle /\ file[r][s] \in File /\ file[r][s].verdict # "success"
  BY UnbornIsIdle
<1>2. k = IF s \notin S THEN Idle
          ELSE IF ~(marked /\ s = Complex) THEN Spawned(first)
          ELSE IF run[r].depth < MaxDepth THEN [first EXCEPT !.state = "child"]
          ELSE [first EXCEPT !.state = "failed"]
  BY <1>1 DEF Launched
<1>3. /\ first \in Job /\ first.calls = 0 /\ first.attempt = 1 /\ first.before = 0
      /\ first.cut = {} /\ first.alive = {} /\ first.state = "pending"
  BY IdleIsJob, Constants DEF Idle, Job
<1>4. Idle \in Job /\ Idle.calls = 0 /\ Idle.before = 0 /\ Idle.cut = {} /\ Idle.alive = {}
      /\ Idle.state = "pending" /\ Idle.attempt = 0
  BY IdleIsJob DEF Idle
<1>5. FileOK(r, k, file[r][s])
  BY <1>1 DEF FileOK
<1> HIDE DEF first, k
<1>6. CASE s \notin S
  BY <1>2, <1>4, <1>5, <1>6, Constants DEF k, JobOK, BoundsOK, StateOK, ProcessesOK
<1>7. CASE s \in S /\ ~(marked /\ s = Complex)
  <2>1. first.calls < MaxAttempts + MaxRetries
    BY <1>3, Constants
  <2>2. /\ k \in Job /\ k.state = "process" /\ k.calls = 1 /\ k.attempt = 1 /\ k.before = 0
        /\ k.cut = {} /\ k.alive = {1}
    BY <1>2, <1>3, <1>7, <2>1, SpawnedIs
  <2>3. BoundsOK(s, R, k) /\ StateOK(s, R, k) /\ ProcessesOK(R, k)
    BY <2>2, <1>7, Constants DEF BoundsOK, StateOK, ProcessesOK
  <2> QED
    BY <2>2, <2>3, <1>5, <1>7 DEF JobOK, k
<1>8. CASE s \in S /\ marked /\ s = Complex
  <2>1. /\ k \in Job /\ k.state = (IF run[r].depth < MaxDepth THEN "child" ELSE "failed")
        /\ k.calls = 0 /\ k.attempt = 1 /\ k.before = 0 /\ k.cut = {} /\ k.alive = {}
    BY <1>2, <1>3, <1>8 DEF Job, State
  <2>2. BoundsOK(s, R, k) /\ StateOK(s, R, k) /\ ProcessesOK(R, k)
    BY <2>1, <1>8, Constants DEF BoundsOK, StateOK, ProcessesOK
  <2> QED
    BY <2>1, <2>2, <1>5, <1>8 DEF JobOK, k
<1> QED
  BY <1>6, <1>7, <1>8

LEMMA PlanEndsPreserves ==
  ASSUME IInv, NEW r \in Runs, PlanEnds(r)
  PROVE  IInv'
<1>1. PICK S \in Plans[run[r].depth], marked \in BOOLEAN :
        LET nests == marked /\ run[r].depth < MaxDepth
            begun == [run EXCEPT ![r].phase = "executing", ![r].plan = S, ![r].marked = marked]
        IN  /\ marked => Complex \in S
            /\ nests => Unborn # {}
            /\ job' = [job EXCEPT ![r] = Launched(r, S, marked)]
            /\ run' = IF nests THEN WithChild(begun, r) ELSE begun
  BY DEF PlanEnds
<1> DEFINE nests == marked /\ run[r].depth < MaxDepth
           B == [run[r] EXCEPT !.phase = "executing", !.plan = S, !.marked = marked]
           begun == [run EXCEPT ![r] = B]
           L == Launched(r, S, marked)
<1>2. S \in SUBSET Subtasks
  BY Typed, AttemptsAssumption
<1>3. run[r].phase = "planning" /\ UNCHANGED <<file, shutdown>>
  BY DEF PlanEnds
<1>4. /\ B \in Run /\ B.phase = "executing" /\ B.plan = S /\ B.marked = marked
      /\ B.round = 0 /\ B.toRetry = {} /\ B.depth = run[r].depth /\ B.outcome = "none"
  BY <1>2, <1>3, Typed DEF Run, Phase, RunOK
<1>5. /\ marked => Complex \in S
      /\ nests => Unborn # {}
      /\ job' = [job EXCEPT ![r] = L]
      /\ run' = IF nests THEN WithChild(begun, r) ELSE begun
  <2>1. [run EXCEPT ![r].phase = "executing", ![r].plan = S, ![r].marked = marked] = begun
    BY Typed
  <2> QED
    BY <1>1, <2>1
<1> HIDE DEF B
<1>6. begun \in [Runs -> Run] /\ begun[r] = B /\ \A q \in Runs \ {r} : begun[q] = run[q]
  BY <1>4, Typed DEF IInv, TypeOK
<1>7. \E R \in Run :
        /\ run' \in [Runs -> Run] /\ run'[r] = R
        /\ R.phase = "executing" /\ R.plan = S /\ R.marked = marked /\ R.round = 0
        /\ R.toRetry = {} /\ R.depth = run[r].depth /\ R.outcome = "none"
        /\ \/ ~ nests /\ \A q \in Runs \ {r} : run'[q] = run[q]
           \/ /\ nests /\ R.child \in Unborn /\ R.child # r
              /\ run'[R.child] = NewRun(run[r].depth + 1)
              /\ \A q \in Runs \ {r, R.child} : run'[q] = run[q]
  <2>1. CASE ~ nests
    BY <2>1, <1>4, <1>5, <1>6
  <2>2. CASE nests
    <3>1. r \notin Unborn /\ Unborn # {}
      BY <1>3, <1>5, <2>2 DEF Unborn
    <3>2. begun[r].depth < MaxDepth
      BY <1>4, <1>6, <2>2
    <3> HIDE DEF begun
    <3>3. PICK c \in Unborn :
            /\ WithChild(begun, r) \in [Runs -> Run]
            /\ WithChild(begun, r)[r] = [begun[r] EXCEPT !.child = c]
            /\ WithChild(begun, r)[c] = NewRun(begun[r].depth + 1)
            /\ \A q \in Runs \ {r, c} : WithChild(begun, r)[q] = begun[q]
      BY <3>1, <3>2, <1>6, WithChildIs
    <3> DEFINE R == [B EXCEPT !.child = c]
    <3>4. R \in Run /\ R.child = c /\ R.phase = B.phase /\ R.plan = B.plan
          /\ R.marked = B.marked /\ R.round = B.round /\ R.toRetry = B.toRetry
          /\ R.depth = B.depth /\ R.outcome = B.outcome
      BY <1>4 DEF Run, Unborn
    <3>5. run'[r] = R /\ run' \in [Runs -> Run] /\ run'[c] = NewRun(run[r].depth + 1)
          /\ \A q \in Runs \ {r, c} : run'[q] = run[q]
      BY <3>3, <1>4, <1>5, <1>6, <2>2
    <3>6. c # r
      BY <3>1
    <3> HIDE DEF R
    <3> QED
      BY <3>4, <3>5, <3>6, <1>4, <2>2
  <2> QED
    BY <2>1, <2>2
<1> HIDE DEF begun
<1>8. PICK R \in Run :
        /\ run' \in [Runs -> Run] /\ run'[r] = R
        /\ R.phase = "executing" /\ R.plan = S /\ R.marked = marked /\ R.round = 0
        /\ R.toRetry = {} /\ R.depth = run[r].depth /\ R.outcome = "none"
        /\ \/ ~ nests /\ \A q \in Runs \ {r} : run'[q] = run[q]
           \/ /\ nests /\ R.child \in Unborn /\ R.child # r
              /\ run'[R.child] = NewRun(run[r].depth + 1)
              /\ \A q \in Runs \ {r, R.child} : run'[q] = run[q]
  BY <1>7
<1>9. ASSUME NEW s \in Subtasks
      PROVE  /\ L[s] \in Job /\ JobOK(r, s, R, L[s], file[r][s]) /\ L[s].state # "done"
             /\ L[s].state = "child" <=> s \in S /\ s = Complex /\ nests
  BY <1>2, <1>3, <1>8, LaunchedOK
<1>10. L \in [Subtasks -> Job]
  <2>1. L = [s \in Subtasks |-> L[s]]
    BY DEF Launched
  <2> HIDE DEF L
  <2> QED
    BY <2>1, <1>9
<1> HIDE DEF L
<1>11. /\ \A q \in Runs \ {r} : job'[q] = job[q] /\ file'[q] = file[q]
       /\ job'[r] = L /\ file'[r] = file[r]
  BY <1>3, <1>5, Typed
<1>12. TypeOK'
  BY <1>3, <1>5, <1>8, <1>10 DEF IInv, TypeOK
<1>13. LocalOK(r, run'[r], job'[r], file'[r])
  <2>1. RunOK(R) /\ OneAtATime(R, L)
    BY <1>8 DEF RunOK, OneAtATime
  <2>2. file[r] \in [Subtasks -> File]
    BY DEF IInv, LocalOK
  <2> QED
    BY <2>1, <2>2, <1>8, <1>9, <1>10, <1>11 DEF LocalOK
<1>14. job'[r][Complex].state = "child" <=> nests
  BY <1>5, <1>9, <1>11, Constants
<1>15. job[r][Complex].state # "child"
  BY <1>3, UnbornIsIdle, Constants DEF Idle
<1>16. nests => /\ R.child \in Runs \ {r} /\ run'[R.child].phase = "planning"
                /\ run'[R.child].depth = run[r].depth + 1
  BY <1>8 DEF Unborn, NewRun
<1>17. \A q \in Runs \ {r} : run'[q] = run[q] \/ Born(r, q)
  <2>1. CASE ~ nests
    BY <2>1, <1>8
  <2>2. CASE nests
    BY <2>2, <1>8, <1>14 DEF Born, Unborn
  <2> QED
    BY <2>1, <2>2
<1>18. Orderly(r)
  BY <1>3, <1>8, <1>9, <1>11, <1>12, <1>13, <1>14, <1>15, <1>16, <1>17 DEF Orderly
<1> QED
  BY <1>18, StepPreserves

LEMMA ResumePreserves ==
  ASSUME IInv, NEW r \in Runs, Resume(r)
  PROVE  IInv'
<1> DEFINE J == job[r][Complex]
           c == run[r].child
           F == file[r][Complex]
<1>1. /\ J.state = "child" /\ UNCHANGED <<file, shutdown>> /\ run[c].outcome # "none"
      /\ J \in Job /\ JobOK(r, Complex, run[r], J, F) /\ F \in File /\ shutdown \in BOOLEAN
  BY Typed, Constants DEF Resume, IInv, TypeOK
<1>2. /\ run[r].phase = "executing" /\ run[r].marked
      /\ c \in Runs \ {r} /\ run[c].depth = run[r].depth + 1
  BY <1>1, Typed DEF JobOK, StateOK, HasChild
<1>3. run[c].phase = "ended"
  BY <1>1, <1>2, Typed DEF RunOK
<1>4. file' = [file EXCEPT ![r][Complex] = F]
  BY <1>1, UnchangedFile, Constants
<1>5. J.source \in Process /\ J.attempt \in 0 .. MaxAttempts
  BY <1>1 DEF Job
<1>6. CASE /\ run[c].outcome = "success"
           /\ job' = [job EXCEPT ![r][Complex].state = "done",
                                 ![r][Complex].source = <<run[r].child, 0>>]
           /\ run' = run
  <2> DEFINE k == [J EXCEPT !.state = "done", !.source = <<c, 0>>]
  <2>1. job' = [job EXCEPT ![r][Complex] = k]
    BY <1>6, Typed, Constants
  <2>2. /\ k \in Job /\ k.state = "done" /\ k.calls = J.calls /\ k.attempt = J.attempt
        /\ k.before = J.before /\ k.cut = J.cut /\ k.alive = J.alive /\ k.source[1] = c
    BY <1>1, <1>2 DEF Job, State, Process
  <2> HIDE DEF k
  <2>3. JobOK(r, Complex, run[r], k, F)
    BY <2>2, <1>1, <1>2 DEF JobOK, BoundsOK, StateOK, ProcessesOK, FileOK
  <2>4. FromChild(r, Complex, run[r], k)
    BY <2>2, <1>2, <1>6 DEF FromChild
  <2>5. ChildKept(r, Complex, k) /\ run' = run /\ shutdown' \in BOOLEAN
    BY <2>2, <1>1, <1>3, <1>6 DEF ChildKept
  <2> QED
    BY <2>1, <2>2, <2>3, <2>4, <2>5, <1>1, <1>4, JobStep, Constants
<1>7. CASE job' = [job EXCEPT ![r][Complex].state = "failed"] /\ run' = run
  <2> DEFINE k == [J EXCEPT !.state = "failed"]
  <2>1. job' = [job EXCEPT ![r][Complex] = k]
    BY <1>7
  <2>2. /\ k \in Job /\ k.state = "failed" /\ k.calls = J.calls /\ k.attempt = J.attempt
        /\ k.before = J.before /\ k.cut = J.cut /\ k.alive = J.alive
    BY <1>1 DEF Job, State
  <2> HIDE DEF k
  <2>3. JobOK(r, Complex, run[r], k, F)
    BY <2>2, <1>1, <1>2 DEF JobOK, BoundsOK, StateOK, ProcessesOK, FileOK
  <2> QED
    BY <2>1, <2>2, <2>3, <1>1, <1>3, <1>4, <1>7, JobStep, Constants DEF ChildKept
<1>8. CASE /\ AttemptsLeft(J) /\ Unborn # {}
           /\ job' = [job EXCEPT ![r][Complex].attempt = @ + 1]
           /\ run' = WithChild(run, r)
  <2> DEFINE k == [J EXCEPT !.attempt = @ + 1]
  <2>1. job' = [job EXCEPT ![r][Complex] = k]
    BY <1>8
  <2>2. J.attempt + 1 \in 0 .. MaxAttempts
    BY <1>5, <1>8, Constants DEF AttemptsLeft
  <2>3. /\ k \in Job /\ k.state = "child" /\ k.calls = J.calls /\ k.attempt = J.attempt + 1
        /\ k.before = J.before /\ k.cut = J.cut /\ k.alive = J.alive /\ k.source = J.source
    BY <1>1, <2>2 DEF Job
  <2> HIDE DEF k
  <2>4. run[r].depth < MaxDepth
    <3>1. run[c].depth \in 0 .. MaxDepth /\ run[r].depth \in 0 .. MaxDepth
      BY <1>2, Typed
    <3> QED
      BY <3>1, <1>2, Constants
  <2>5. r \notin Unborn /\ run \in [Runs -> Run]
    BY <1>2 DEF Unborn, IInv, TypeOK
  <2>6. PICK d \in Unborn :
          /\ WithChild(run, r) \in [Runs -> Run]
          /\ WithChild(run, r)[r] = [run[r] EXCEPT !.child = d]
          /\ WithChild(run, r)[d] = NewRun(run[r].depth + 1)
          /\ \A q \in Runs \ {r, d} : WithChild(run, r)[q] = run[q]
    BY <2>4, <2>5, <1>8, WithChildIs
  <2> DEFINE R == [run[r] EXCEPT !.child = d]
  <2>7. /\ R \in Run /\ R.child = d /\ R.phase = "executing" /\ R.plan = run[r].plan
        /\ R.marked = run[r].marked /\ R.round = run[r].round /\ R.toRetry = run[r].toRetry
        /\ R.depth = run[r].depth /\ R.outcome = run[r].outcome
    BY <1>2, Typed DEF Run, Unborn
  <2>8. /\ run'[r] = R /\ run' \in [Runs -> Run] /\ run'[d] = NewRun(run[r].depth + 1)
        /\ \A q \in Runs \ {r, d} : run'[q] = run[q]
    BY <2>6, <1>8
  <2>9. d \in Runs /\ d # r /\ run[d].phase = "unborn"
    BY <2>5 DEF Unborn
  <2> HIDE DEF R
  <2>10. /\ \A q \in Runs \ {r} : job'[q] = job[q] /\ file'[q] = file[q]
         /\ job'[r] = [job[r] EXCEPT ![Complex] = k] /\ job'[r][Complex] = k
         /\ \A t \in Subtasks \ {Complex} : job'[r][t] = job[r][t]
         /\ file'[r] = file[r]
    BY <1>1, <2>1, Typed, Constants
  <2>11. TypeOK'
    BY <1>1, <2>1, <2>3, <2>8 DEF IInv, TypeOK
  <2>12. ASSUME NEW t \in Subtasks PROVE JobOK(r, t, R, job'[r][t], file[r][t])
    <3>1. CASE t = Complex
      BY <3>1, <2>3, <2>7, <2>10, <1>1, <1>2, <1>5, Constants
        DEF JobOK, BoundsOK, StateOK, ProcessesOK, FileOK, Job
    <3>2. CASE t # Complex
      <4>1. JobOK(r, t, run[r], job[r][t], file[r][t])
        BY Typed
      <4> QED
        BY <3>2, <4>1, <2>7, <2>10, <1>2 DEF JobOK, BoundsOK, StateOK, ProcessesOK
    <3> QED
      BY <3>1, <3>2
  <2>13. LocalOK(r, run'[r], job'[r], file'[r])
    <3>1. RunOK(R) /\ OneAtATime(R, job'[r])
      BY <2>7, <1>2, Typed DEF RunOK, OneAtATime
    <3>2. job'[r] \in [Subtasks -> Job] /\ file[r] \in [Subtasks -> File]
      BY <2>11 DEF TypeOK, IInv, LocalOK
    <3> QED
      BY <3>1, <3>2, <2>7, <2>8, <2>10, <2>12 DEF LocalOK
  <2>14. ASSUME NEW t \in Subtasks, job'[r][t].state = "done"
         PROVE  FromSubtask(r, job'[r][t]) \/ FromChild(r, t, R, job'[r][t])
    <3>1. t # Complex /\ job'[r][t] = job[r][t]
      BY <2>14, <2>3, <2>10
    <3>2. ReportedBySubtask(r, t)
      BY <3>1, <2>14 DEF IInv, SuccessIsTraceable, ReportedByChild
    <3> QED
      BY <3>1, <3>2 DEF FromSubtask, ReportedBySubtask
  <2>15. Born(r, d) /\ run'[d].phase = "planning" /\ run'[d].depth = run[r].depth + 1
    BY <2>3, <2>7, <2>8, <2>9, <2>10 DEF Born, NewRun
  <2>16. Orderly(r)
    BY <1>2, <1>3, <2>3, <2>7, <2>8, <2>9, <2>10, <2>11, <2>13, <2>14, <2>15 DEF Orderly
  <2> QED
    BY <2>16, StepPreserves
<1> QED
  BY <1>1, <1>6, <1>7, <1>8 DEF Resume

-----------------------------------------------------------------------------
(***************************************************************************)
(* The invariant, and what follows from it.                                *)
(***************************************************************************)
LEMMA InitIInv == Init => IInv
<1> SUFFICES ASSUME Init PROVE IInv
  OBVIOUS
<1>1. Idle \in Job /\ NoFile \in File /\ NewRun(0) \in Run /\ 0 \in 0 .. MaxDepth
  BY IdleIsJob, NewRunIsRun, Constants
<1>2. /\ run[Root] = NewRun(0)
      /\ \A r \in Runs \ {Root} : run[r] = [NewRun(0) EXCEPT !.phase = "unborn"]
      /\ \A r \in Runs, s \in Subtasks : job[r][s] = Idle /\ file[r][s] = NoFile
  BY Constants DEF Init
<1>3. [NewRun(0) EXCEPT !.phase = "unborn"] \in Run
  BY <1>1 DEF Run, Phase
<1>4. ASSUME NEW r \in Runs
      PROVE  /\ run[r] \in Run /\ run[r].phase \in {"unborn", "planning"} /\ run[r].outcome = "none"
             /\ run[r].round = 0 /\ run[r].toRetry = {}
             /\ r # Root => run[r].phase = "unborn"
  BY <1>1, <1>2, <1>3 DEF NewRun
<1>5. TypeOK
  BY <1>1, <1>3 DEF Init, TypeOK, File
<1>6. /\ Idle.state = "pending" /\ Idle.calls = 0 /\ Idle.before = 0 /\ Idle.alive = {}
      /\ Idle.cut = {} /\ NoFile.verdict = "none"
  BY DEF Idle, NoFile
<1>7. ASSUME NEW r \in Runs PROVE LocalOK(r, run[r], job[r], file[r])
  <2>1. RunOK(run[r]) /\ OneAtATime(run[r], job[r])
    BY <1>4 DEF RunOK, OneAtATime
  <2>2. \A s \in Subtasks : JobOK(r, s, run[r], job[r][s], file[r][s])
    BY <1>2, <1>4, <1>6, Constants DEF JobOK, BoundsOK, StateOK, ProcessesOK, FileOK
  <2> QED
    BY <2>1, <2>2, <1>4, <1>5 DEF LocalOK, TypeOK, File
<1>8. \A r \in Runs : HasChild(r) /\ HasParent(r)
  BY <1>2, <1>4, <1>6, Constants DEF HasChild, HasParent
<1>9. SuccessIsTraceable
  BY <1>2, <1>6 DEF SuccessIsTraceable
<1> QED
  BY <1>5, <1>7, <1>8, <1>9 DEF IInv

LEMMA StutterIInv ==
  ASSUME IInv, UNCHANGED <<run, job, file>>, shutdown' \in BOOLEAN
  PROVE  IInv'
<1>1. TypeOK'
  BY DEF IInv, TypeOK
<1>2. \A r \in Runs : LocalOK(r, run'[r], job'[r], file'[r])
  BY DEF IInv
<1>3. \A r \in Runs : HasChild(r)' /\ HasParent(r)'
  BY DEF IInv, HasChild, HasParent
<1>4. SuccessIsTraceable'
  BY DEF IInv, SuccessIsTraceable, ReportedBySubtask, ReportedByChild
<1> QED
  BY <1>1, <1>2, <1>3, <1>4 DEF IInv

LEMMA NextIInv == IInv /\ [Next]_vars => IInv'
<1> SUFFICES ASSUME IInv, [Next]_vars PROVE IInv'
  OBVIOUS
<1>1. CASE UNCHANGED vars
  BY <1>1, StutterIInv DEF vars, IInv, TypeOK
<1>2. CASE Shutdown
  BY <1>2, StutterIInv DEF Shutdown
<1>3. ASSUME NEW r \in Runs, RunStep(r) PROVE IInv'
  BY <1>3, PlanEndsPreserves, StopsPreserve, ResumePreserves, DagCompletePreserves,
     VerifyEndsPreserves, RetryNextPreserves DEF RunStep
<1>4. ASSUME NEW r \in Runs, NEW s \in Subtasks, ProcessStep(r, s) PROVE IInv'
  BY <1>4, SucceedsPreserves, FailsPreserves, CutPreserves, DiePreserves, WritePreserves
     DEF ProcessStep
<1> QED
  BY <1>1, <1>2, <1>3, <1>4 DEF Next

LEMMA Invariance == Spec => []IInv
BY InitIInv, NextIInv, PTL DEF Spec

(***************************************************************************)
(* However many retries, levels and stray processes there are, no subtask  *)
(* is given more processes than its attempts and the rounds of retryLoop   *)
(* allow, and no run is nested deeper than maxDepth.                       *)
(***************************************************************************)
THEOREM AttemptsAreBounded == Spec => []TypeOK
<1>1. IInv => TypeOK
  BY DEF IInv
<1> QED
  BY <1>1, Invariance, PTL

(***************************************************************************)
(* No attempt is withheld, however the earlier ones failed: a subtask that *)
(* is given up after a process that was cut off has had them all.          *)
(***************************************************************************)
THEOREM AttemptsAreMade == Spec => []AttemptsAreUsedUp
<1>1. IInv => AttemptsAreUsedUp
  BY DEF IInv, LocalOK, JobOK, StateOK, AttemptsAreUsedUp
<1> QED
  BY <1>1, Invariance, PTL

(***************************************************************************)
(* Although all attempts at a subtask share a file that nobody removes, a  *)
(* subtask counts as done only on the word of one of its own processes, or *)
(* of a child run that succeeded.                                          *)
(***************************************************************************)
THEOREM SuccessIsEarned == Spec => []SuccessIsTraceable
<1>1. IInv => SuccessIsTraceable
  BY DEF IInv
<1> QED
  BY <1>1, Invariance, PTL

(***************************************************************************)
(* No process and no child run is left that nobody waits for, except       *)
(* processes that were sent SIGTERM.                                       *)
(***************************************************************************)
THEOREM NothingIsAbandoned == Spec => []Supervised
<1>1. IInv => Supervised
  <2> SUFFICES ASSUME IInv, NEW r \in Runs
               PROVE  /\ \A s \in Subtasks : \A c \in job[r][s].alive \ job[r][s].cut :
                           /\ run[r].phase \in {"executing", "retrying"}
                           /\ job[r][s].state = "process" /\ c = Latest(r, s)
                      /\ HasParent(r)
    BY DEF Supervised, HasParent
  <2>1. ASSUME NEW s \in Subtasks, NEW c \in job[r][s].alive \ job[r][s].cut
        PROVE  job[r][s].state = "process" /\ c = Latest(r, s)
    BY <2>1, Typed DEF JobOK, ProcessesOK, Latest
  <2> QED
    BY <2>1, WaitedFor DEF IInv
<1> QED
  BY <1>1, Invariance, PTL
=============================================================================
