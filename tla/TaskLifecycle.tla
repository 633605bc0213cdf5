---------------------------- MODULE TaskLifecycle ---------------------------
(***************************************************************************)
(* The life of the backend's tasks: TaskStore (the API's operations),      *)
(* TaskScheduler (a FIFO queue in front of CLAW_MAX_TASKS slots) and       *)
(* OrchestratorManager (what the end of a run does to its task).           *)
(*                                                                         *)
(* The status of a task is written from two sides that do not wait for     *)
(* each other: by the user (create, execute, approve, reject, cancel,      *)
(* retry, each one synchronous call) and by the run of the task (asks for  *)
(* approval, ends).  A cancellation frees the slot and raises the run's    *)
(* shutdown flag, but the run goes on until its pipeline looks at it.      *)
(***************************************************************************)
EXTENDS Naturals, FiniteSets, Sequences

CONSTANTS
  Tasks,           \* the tasks that may be created
  MaxConcurrent,   \* CLAW_MAX_TASKS
  Misconfigured    \* tasks of a project whose custom stages cannot be merged

ASSUME TasksAssumption ==
  /\ IsFiniteSet(Tasks)
  /\ MaxConcurrent \in Nat \ {0}
  /\ Misconfigured \subseteq Tasks

VARIABLES
  status,      \* ManagedTask.status; "absent" before the task exists
  queue,       \* TaskScheduler.queue
  running,     \* TaskScheduler.running: the tasks that hold a slot
  run,         \* the run of each task, as the promise of run() knows it
  shutdown     \* the orchestrators that were told to shut down

vars == <<status, queue, running, run, shutdown>>

Status == {"absent", "todo", "queued", "running", "awaiting_approval",
           "completed", "failed", "cancelled"}

(***************************************************************************)
(* "none"      there is no orchestrator                                    *)
(* "failing"   startTask threw before the orchestrator was created, and    *)
(*             the scheduler's .catch has not run                          *)
(* "active"    run() is under way                                          *)
(* "asking"    run() waits for pendingApproval to be resolved              *)
(* "refused"   pendingApproval was resolved with false                     *)
(* "ended"     run() has settled and OrchestratorManager has seen it       *)
(***************************************************************************)
Live == {"active", "asking", "refused"}
RunState == Live \cup {"none", "failing", "ended"}

Queued == {queue[i] : i \in 1 .. Len(queue)}

TypeOK ==
  /\ status \in [Tasks -> Status]
  /\ queue \in Seq(Tasks)
  /\ running \in SUBSET Tasks
  /\ run \in [Tasks -> RunState]
  /\ shutdown \in SUBSET Tasks

Init ==
  /\ status = [t \in Tasks |-> "absent"]
  /\ queue = <<>>
  /\ running = {}
  /\ run = [t \in Tasks |-> "none"]
  /\ shutdown = {}

-----------------------------------------------------------------------------
(***************************************************************************)
(* TaskScheduler.drain with queue q and slots `held`: the first tasks of   *)
(* the queue, as many as there are free slots, start one after the other.  *)
(* Starting is the synchronous part of startTask, which ends early when    *)
(* the project's stage registry cannot be built.                           *)
(***************************************************************************)
Least(m, n) == IF m < n THEN m ELSE n

\* Faulty variant: one task too many.
StartedOffByOne(q, held) ==
  {q[i] : i \in 1 .. Least(Len(q), MaxConcurrent + 1 - Cardinality(held))}

Started(q, held) ==
  {q[i] : i \in 1 .. Least(Len(q), MaxConcurrent - Cardinality(held))}

\* Faulty variant: the newest of the queue is started first.
DrainNewestFirst(q, held, newStatus, newRun) ==
  LET k == Least(Len(q), MaxConcurrent - Cardinality(held))
      S == {q[i] : i \in Len(q) - k + 1 .. Len(q)}
  IN  /\ queue' = SubSeq(q, 1, Len(q) - k)
      /\ running' = held \cup S
      /\ status' = [t \in Tasks |-> IF t \in S THEN "running" ELSE newStatus[t]]
      /\ run' = [t \in Tasks |->
                   CASE t \in S \cap Misconfigured -> "failing"
                     [] t \in S \ Misconfigured -> "active"
                     [] OTHER -> newRun[t]]

Drain(q, held, newStatus, newRun) ==
  LET S == Started(q, held)
  IN  /\ queue' = SubSeq(q, Cardinality(S) + 1, Len(q))
      /\ running' = held \cup S
      /\ status' = [t \in Tasks |-> IF t \in S THEN "running" ELSE newStatus[t]]
      /\ run' = [t \in Tasks |->
                   CASE t \in S \cap Misconfigured -> "failing"
                     [] t \in S \ Misconfigured -> "active"
                     [] OTHER -> newRun[t]]

Enqueue(t) ==
  Drain(Append(queue, t), running, [status EXCEPT ![t] = "queued"], run)

\* Faulty variant: the slot is given back but the queue is not looked at.
FinishWithoutDrain(t, newStatus, newRun) ==
  /\ running' = running \ {t}
  /\ status' = [status EXCEPT ![t] = newStatus]
  /\ run' = [run EXCEPT ![t] = newRun]
  /\ UNCHANGED queue

\* onTaskFinished(t), together with what its caller did to the task.
Finish(t, newStatus, newRun) ==
  Drain(queue, running \ {t}, [status EXCEPT ![t] = newStatus], [run EXCEPT ![t] = newRun])

-----------------------------------------------------------------------------
(***************************************************************************)
(* The operations of the API, over HTTP or the WebSocket.                  *)
(***************************************************************************)
CreateTodoTask(t) ==
  /\ status[t] = "absent"
  /\ status' = [status EXCEPT ![t] = "todo"]
  /\ UNCHANGED <<queue, running, run, shutdown>>

CreateTask(t) ==
  /\ status[t] = "absent"
  /\ Enqueue(t)
  /\ UNCHANGED shutdown

\* A todo task may be retried too: only one that is under way may not.
RetryTask(original, t) ==
  /\ status[original] \notin {"absent", "running", "queued", "awaiting_approval"}
  /\ CreateTask(t)

ExecuteTask(t) ==
  /\ status[t] = "todo"
  /\ Enqueue(t)
  /\ UNCHANGED shutdown

ApproveTask(t) ==
  /\ run[t] = "asking"
  /\ run' = [run EXCEPT ![t] = "active"]
  /\ status' = [status EXCEPT ![t] = "running"]
  /\ UNCHANGED <<queue, running, shutdown>>

\* Faulty variant: the question is answered but the status is left.
RejectKeepingStatus(t) ==
  /\ run[t] = "asking"
  /\ run' = [run EXCEPT ![t] = "refused"]
  /\ UNCHANGED <<status, queue, running, shutdown>>

RejectTask(t) ==
  /\ run[t] = "asking"
  /\ run' = [run EXCEPT ![t] = "refused"]
  /\ status' = [status EXCEPT ![t] = "cancelled"]
  /\ UNCHANGED <<queue, running, shutdown>>

\* TaskScheduler.dequeue: the first occurrence of t, if there is one.
Dequeued(q, t) ==
  LET i == CHOOSE k \in 1 .. Len(q) : q[k] = t /\ \A j \in 1 .. k - 1 : q[j] # t
  IN  IF t \in {q[k] : k \in 1 .. Len(q)}
        THEN SubSeq(q, 1, i - 1) \o SubSeq(q, i + 1, Len(q))
        ELSE q

\* Faulty variant: a queued task stays in the scheduler's queue.
CancelWithoutDequeue(t) ==
  /\ status[t] # "absent"
  /\ shutdown' = IF run[t] \in Live \cup {"ended"} THEN shutdown \cup {t} ELSE shutdown
  /\ Drain(queue, running \ {t}, [status EXCEPT ![t] = "cancelled"], run)

(***************************************************************************)
(* cancelTask does not look at the status but to leave the queue: it       *)
(* accepts tasks that are todo and tasks that have ended.                  *)
(***************************************************************************)
CancelTask(t) ==
  /\ status[t] # "absent"
  /\ shutdown' = IF run[t] \in Live \cup {"ended"} THEN shutdown \cup {t} ELSE shutdown
  /\ Drain(IF status[t] = "queued" THEN Dequeued(queue, t) ELSE queue,
           running \ {t}, [status EXCEPT ![t] = "cancelled"], run)

-----------------------------------------------------------------------------
(***************************************************************************)
(* What the run does to its task.  The pipeline may ask for an approval    *)
(* at the end of a stage, shut down or not.                                *)
(***************************************************************************)
AskApproval(t) ==
  /\ run[t] = "active"
  /\ run' = [run EXCEPT ![t] = "asking"]
  /\ status' = [status EXCEPT ![t] = "awaiting_approval"]
  /\ UNCHANGED <<queue, running, shutdown>>

\* run() resolves with success: the pipeline ended, or broke off on shutdown.
RunSucceeds(t) ==
  /\ run[t] = "active"
  /\ Finish(t, "completed", "ended")
  /\ UNCHANGED shutdown

\* Faulty variant: the end of the run overwrites whatever the status was.
RunUnsuccessfulOverwrites(t) ==
  /\ run[t] \in {"active", "refused"}
  /\ Finish(t, "failed", "ended")
  /\ UNCHANGED shutdown

\* run() resolves without success: approval refused, or verification failed.
RunUnsuccessful(t) ==
  /\ run[t] \in {"active", "refused"}
  /\ Finish(t, IF status[t] \in {"failed", "cancelled"} THEN status[t] ELSE "failed", "ended")
  /\ UNCHANGED shutdown

\* run() rejects.
RunFails(t) ==
  /\ run[t] = "active"
  /\ Finish(t, "failed", "ended")
  /\ UNCHANGED shutdown

\* Faulty variant: the error is logged and the slot is kept.
StartRejectedKeepingSlot(t) ==
  /\ run[t] = "failing"
  /\ run' = [run EXCEPT ![t] = "none"]
  /\ UNCHANGED <<status, queue, running, shutdown>>

\* The .catch of drain: the slot is given back, the status stays.
StartRejected(t) ==
  /\ run[t] = "failing"
  /\ Finish(t, status[t], "none")
  /\ UNCHANGED shutdown

RunEnds(t) == RunSucceeds(t) \/ RunUnsuccessful(t) \/ RunFails(t)

Answer(t) == ApproveTask(t) \/ RejectTask(t)

Next ==
  \/ \E t \in Tasks : CreateTodoTask(t)
  \/ \E t \in Tasks : CreateTask(t)
  \/ \E original, t \in Tasks : RetryTask(original, t)
  \/ \E t \in Tasks : ExecuteTask(t)
  \/ \E t \in Tasks : ApproveTask(t)
  \/ \E t \in Tasks : RejectTask(t)
  \/ \E t \in Tasks : CancelTask(t)
  \/ \E t \in Tasks : AskApproval(t)
  \/ \E t \in Tasks : RunSucceeds(t)
  \/ \E t \in Tasks : RunUnsuccessful(t)
  \/ \E t \in Tasks : RunFails(t)
  \/ \E t \in Tasks : StartRejected(t)

(***************************************************************************)
(* A promise that has settled runs its callback; the pipeline of a run is  *)
(* finite, so a run that may end again and again does end (it cannot ask   *)
(* for ever); and the user answers a question sooner or later.  The last   *)
(* is an assumption on the user: a question nobody answers holds its slot. *)
(***************************************************************************)
Fairness ==
  \A t \in Tasks :
    /\ WF_vars(StartRejected(t))
    /\ SF_vars(RunEnds(t))
    /\ WF_vars(Answer(t))

Spec == Init /\ [][Next]_vars /\ Fairness
-----------------------------------------------------------------------------
(***************************************************************************)
(* The scheduler's queue and the statuses agree, although different        *)
(* classes write them: exactly the queued tasks are in the queue, once.    *)
(***************************************************************************)
QueueMatchesStatus ==
  /\ Queued = {t \in Tasks : status[t] = "queued"}
  /\ \A i, j \in 1 .. Len(queue) : queue[i] = queue[j] => i = j

(***************************************************************************)
(* No task waits beside a free slot, and the slots are never overdrawn,    *)
(* in whatever order tasks end, fail to start and are cancelled (drain).   *)
(***************************************************************************)
SlotsWellUsed ==
  /\ Cardinality(running) <= MaxConcurrent
  /\ queue # <<>> => Cardinality(running) = MaxConcurrent

(***************************************************************************)
(* No slot leaks: a slot is held exactly by the tasks whose run is under   *)
(* way and was not cancelled, and for a moment by one that did not start.  *)
(***************************************************************************)
NoSlotLeak ==
  /\ \A t \in running : run[t] \in Live \cup {"failing"}
  /\ \A t \in Tasks : run[t] \in Live /\ t \notin shutdown => t \in running

(***************************************************************************)
(* The status agrees with the run: a task that is done has no run under    *)
(* way, one whose run ended is done, one that awaits approval can be       *)
(* answered, and a run or its question is hidden by a cancellation only.   *)
(* What such a run does to the status of its cancelled task is left open.  *)
(***************************************************************************)
StatusMatchesRun ==
  \A t \in Tasks :
    /\ status[t] \in {"absent", "todo", "queued"} => run[t] = "none"
    /\ status[t] \in {"completed", "failed"} => run[t] = "ended"
    /\ run[t] = "ended" => status[t] \in {"completed", "failed", "cancelled"}
    /\ status[t] = "awaiting_approval" => run[t] = "asking"
    /\ run[t] = "asking" /\ t \notin shutdown => status[t] = "awaiting_approval"
    /\ run[t] = "active" /\ t \notin shutdown => status[t] = "running"

(***************************************************************************)
(* A user's rejection stays: unless the task is answered again, nothing    *)
(* that the refused run does afterwards changes the status.                *)
(***************************************************************************)
RejectionStays ==
  [][\A t \in Tasks : run[t] = "refused" => status'[t] = "cancelled"]_vars

(***************************************************************************)
(* First come, first served: no task overtakes one that is still queued.   *)
(***************************************************************************)
FirstComeFirstServed ==
  [][\A i, j \in 1 .. Len(queue) :
       i < j /\ status'[queue[j]] = "running" => status'[queue[i]] # "queued"]_vars

(***************************************************************************)
(* A queued task does not wait for ever: it is started or cancelled.       *)
(***************************************************************************)
QueueMoves == \A t \in Tasks : status[t] = "queued" ~> status[t] # "queued"

-----------------------------------------------------------------------------
(***************************************************************************)
(* What the documentation says and the code does not do.                   *)
(*                                                                         *)
(* CLAW_MAX_TASKS is the "Maximum concurrent running tasks".               *)
(***************************************************************************)
RunsWithinBound == Cardinality({t \in Tasks : run[t] \in Live}) <= MaxConcurrent
=============================================================================
