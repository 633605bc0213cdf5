------------------------------ MODULE Pipeline -------------------------------
(***************************************************************************)
(* TaskOrchestrator.run, a run from its lock to its manifest: the stages   *)
(* Plan, Execute and Verify one after the other, the approval of the plan, *)
(* and retryLoop, which executes again what the verification rejects.      *)
(*                                                                         *)
(* The agents are external: a plan, an outcome of the DAG and a verdict    *)
(* are whatever they may be.  Every agent is told to write its answer to a *)
(* file.  The file of Verify is the same for each check of a run and is    *)
(* not removed in between, so an agent that exits well without writing     *)
(* makes the code read the previous verdict.                               *)
(*                                                                         *)
(* What Execute leaves behind is what DagScheduler's ReturnsWhenSettled    *)
(* and SkipsAreCascades say.  A run awaits one thing at a time, and in     *)
(* between only shutdown() can interfere: states in which the code does    *)
(* not await ("top", "ended", ...) let nothing else happen.                *)
(***************************************************************************)
EXTENDS SubtaskGraph, Sequences

CONSTANTS
  Pipelines,        \* opts.pipeline, the stages of a run
  Proposals,        \* plans an agent may come up with
  Verdicts,         \* verification results an agent may come up with
  NoPlan, NoVerdict,
  AutoApprove,
  MaxConcurrency,
  MaxRetries        \* stage.maxRetries of Verify

Stage == {"Plan", "Execute", "Verify"}

\* What retryLoop and verifyResultInterpreter look at of a VerificationResult.
Verdict == [failed : SUBSET (Subtasks \cup Strangers),
            retryRecommended : SUBSET (Subtasks \cup Strangers),
            skipped : SUBSET (Subtasks \cup Strangers),
            integration : BOOLEAN]

ASSUME PipelineAssumption ==
  /\ \A q \in Pipelines :
       q \in Seq(Stage) /\ \A i \in 1 .. Len(q) : q[i] = "Verify" => i = Len(q)
  /\ Proposals \subseteq Plan
  /\ Verdicts \subseteq Verdict
  /\ NoPlan \notin Plan
  /\ NoVerdict \notin Verdict
  /\ AutoApprove \in BOOLEAN
  /\ MaxConcurrency \in Nat
  /\ MaxRetries \in Nat

VARIABLES
  pipeline,         \* opts.pipeline
  at,               \* the position of the stage the run is in
  pc,               \* where run() is
  plan,             \* PipelineState.plan
  snapshots,        \* PipelineState.subtaskSnapshots: the subtasks that are done
  skippedIndices,   \* PipelineState.skippedIndices
  verification,     \* PipelineState.verification
  verifyFile,       \* what tmp/verify.json holds
  attempt,          \* of retryLoop
  retrySubtasks,    \* the subtasks that retryLoop has yet to execute
  manifest,         \* status in manifest.json
  isShuttingDown,
  approved,         \* history: the user has approved the plan
  everSkipped,      \* history: the subtasks that failed or were skipped in the DAG
  fresh             \* history: nothing was executed since the last verdict was written

vars == <<pipeline, at, pc, plan, snapshots, skippedIndices, verification, verifyFile,
          attempt, retrySubtasks, manifest, isShuttingDown, approved, everSkipped, fresh>>

\* Where run() awaits; where it does not; and how it settled.
Awaiting == {"planning", "dag", "verifying", "asking", "retrying", "rechecking", "distilling"}
Between == {"begin", "top", "ended", "refused", "deciding", "nextRetry", "finishing"}
Settled == {"success", "failure", "thrown"}

TypeOK ==
  /\ pipeline \in Pipelines
  /\ at \in 1 .. Len(pipeline) + 1
  /\ pc \in Awaiting \cup Between \cup Settled
  /\ plan \in {p \in Plan : Acyclic(p)} \cup {NoPlan}
  /\ snapshots \in SUBSET Subtasks
  /\ skippedIndices \in SUBSET Subtasks
  /\ verification \in Verdicts \cup {NoVerdict}
  /\ verifyFile \in Verdicts \cup {NoVerdict}
  /\ attempt \in 0 .. MaxRetries
  /\ retrySubtasks \in SUBSET Subtasks
  /\ manifest \in {"running", "completed", "failed", "cancelled"}
  /\ isShuttingDown \in BOOLEAN
  /\ approved \in BOOLEAN
  /\ everSkipped \in SUBSET Subtasks
  /\ fresh \in BOOLEAN

Init ==
  /\ pipeline \in Pipelines
  /\ at = 1
  /\ pc = "begin"
  /\ plan = NoPlan
  /\ snapshots = {}
  /\ skippedIndices = {}
  /\ verification = NoVerdict
  /\ verifyFile = NoVerdict    \* cleanTmp
  /\ attempt = 0
  /\ retrySubtasks = {}
  /\ manifest = "running"      \* initRun
  /\ isShuttingDown = FALSE
  /\ approved = FALSE
  /\ everSkipped = {}
  /\ fresh = FALSE

-----------------------------------------------------------------------------
Verification == <<verification, verifyFile, fresh>>
Execution == <<snapshots, skippedIndices, everSkipped>>
Retry == <<attempt, retrySubtasks>>
Data == <<pipeline, plan, Execution, Verification, Retry, approved>>

Goto(where) == pc' = where /\ UNCHANGED <<at, manifest>>

NextPosition == at' = at + 1 /\ pc' = "top" /\ UNCHANGED manifest

Return(how, status) == pc' = how /\ manifest' = status /\ UNCHANGED at

\* An error anywhere in the `try` of run().
Throw == Return("thrown", "failed")

\* acquireLock refuses, or not.
Begin ==
  /\ pc = "begin"
  /\ Goto("top") \/ Throw
  /\ UNCHANGED <<Data, isShuttingDown>>

(***************************************************************************)
(* The loop over the stages.  Execute is skipped when there is no plan.    *)
(***************************************************************************)
NextStage ==
  /\ pc = "top"
  /\ IF isShuttingDown \/ at > Len(pipeline)
     THEN Goto("finishing")
     ELSE \/ pipeline[at] = "Plan" /\ Goto("planning")
          \/ pipeline[at] = "Execute" /\ plan = NoPlan /\ NextPosition
          \/ pipeline[at] = "Execute" /\ plan # NoPlan /\ Goto("dag")
          \/ pipeline[at] = "Verify" /\ Goto("verifying")
  /\ UNCHANGED <<Data, isShuttingDown>>

\* runOne rejects: the CLI fails or times out, or a retried subtask fails.
StageThrows ==
  /\ pc \in {"planning", "verifying", "rechecking", "retrying"}
  /\ Throw
  /\ UNCHANGED <<Data, isShuttingDown>>

\* The result handler of Plan refuses no plan at all and a cyclic one.
PlanEnds(p) ==
  /\ pc = "planning"
  /\ IF p # NoPlan /\ Acyclic(p)
     THEN plan' = p /\ Goto("ended")
     ELSE Throw /\ UNCHANGED plan
  /\ UNCHANGED <<pipeline, Execution, Verification, Retry, isShuttingDown, approved>>

DagEnds(done, failed) ==
  /\ pc = "dag"
  /\ DagOutcome(plan, done, failed, isShuttingDown \/ MaxConcurrency = 0)
  /\ snapshots' = snapshots \cup done
  /\ skippedIndices' = skippedIndices \cup Cascade(plan, failed)
  /\ everSkipped' = everSkipped \cup Cascade(plan, failed)
  /\ fresh' = FALSE
  /\ Goto("ended")
  /\ UNCHANGED <<pipeline, plan, verification, verifyFile, Retry, isShuttingDown, approved>>

(***************************************************************************)
(* An agent of Verify exits well.  It has written the verdict v, or        *)
(* something that is not one (NoVerdict), or nothing.                      *)
(***************************************************************************)
VerifyOutput(wrote, v) == IF wrote THEN v ELSE verifyFile

ReadVerdict(wrote, v, otherwise) ==
  LET parsed == VerifyOutput(wrote, v)
  IN  /\ verifyFile' = parsed
      /\ verification' = IF parsed = NoVerdict THEN otherwise ELSE parsed
      /\ fresh' = ((wrote /\ v # NoVerdict) \/ fresh)

VerifyEnds(wrote, v) ==
  /\ pc = "verifying"
  /\ ReadVerdict(wrote, v, verification)
  /\ Goto("ended")
  /\ UNCHANGED <<pipeline, plan, Execution, Retry, isShuttingDown, approved>>

(***************************************************************************)
(* A stage has ended: ask for the approval of a plan, look at a verdict,   *)
(* or go on.                                                               *)
(***************************************************************************)
StageEnded ==
  /\ pc = "ended"
  /\ \/ pipeline[at] = "Plan" /\ ~ AutoApprove /\ Goto("asking") /\ UNCHANGED Retry
     \/ /\ pipeline[at] = "Verify" /\ verification # NoVerdict
        /\ Goto("deciding")
        /\ attempt' = 0 /\ UNCHANGED retrySubtasks
     \/ /\ ~ (pipeline[at] = "Plan" /\ ~ AutoApprove)
        /\ ~ (pipeline[at] = "Verify" /\ verification # NoVerdict)
        /\ NextPosition /\ UNCHANGED Retry
  /\ UNCHANGED <<pipeline, plan, Execution, Verification, isShuttingDown, approved>>

Answer(ok) ==
  /\ pc = "asking"
  /\ IF ok THEN NextPosition ELSE Goto("refused")
  /\ approved' = (approved \/ ok)
  /\ UNCHANGED <<pipeline, plan, Execution, Verification, Retry, isShuttingDown>>

\* Faulty variant: the answer is asked for and not looked at.
RefusedGoesOn ==
  /\ pc = "refused"
  /\ NextPosition
  /\ UNCHANGED <<Data, isShuttingDown>>

Refused ==
  /\ pc = "refused"
  /\ Return("failure", "cancelled")
  /\ UNCHANGED <<Data, isShuttingDown>>

-----------------------------------------------------------------------------
(***************************************************************************)
(* verifyResultInterpreter                                                 *)
(***************************************************************************)
Passes(v) == v.failed = {} /\ v.skipped = {} /\ v.integration

FailedIndices(v) == (v.failed \cap v.retryRecommended) \cup v.skipped

(***************************************************************************)
(* retryLoop, from the interpretation of a verdict to the next await.  A   *)
(* check that gave no verdict makes the interpreter throw.  Of the skipped *)
(* subtasks, only those the verdict does not name are cleared.             *)
(***************************************************************************)
SkippedForRetry == IF plan = NoPlan THEN {} ELSE skippedIndices \ FailedIndices(verification)

AllRetryIndices == FailedIndices(verification) \cup SkippedForRetry

\* Faulty variant: one retry less than there are.
LastAttemptOffByOne == attempt + 1 >= MaxRetries

LastAttempt == attempt >= MaxRetries

\* Faulty variant: only what the verdict names is executed again.
RetryTheFailed == IF plan = NoPlan THEN {} ELSE FailedIndices(verification) \cap Subtasks

\* The subtasks of the plan among the indices to retry.
RetryList == IF plan = NoPlan THEN {} ELSE AllRetryIndices \cap Subtasks

\* Faulty variant: no verdict is no objection.
MissingVerdictAccepted == verification = NoVerdict /\ NextPosition

MissingVerdict == verification = NoVerdict /\ Throw

VerdictPasses == verification # NoVerdict /\ Passes(verification) /\ NextPosition

GiveUp ==
  /\ verification # NoVerdict /\ ~ Passes(verification)
  /\ AllRetryIndices = {} \/ LastAttempt
  /\ Return("failure", "failed")

RetryAgain ==
  /\ verification # NoVerdict /\ ~ Passes(verification)
  /\ AllRetryIndices # {} /\ ~ LastAttempt
  /\ skippedIndices' = skippedIndices \ SkippedForRetry
  /\ retrySubtasks' = RetryList
  /\ Goto("nextRetry")

Decide ==
  /\ pc = "deciding"
  /\ \/ /\ MissingVerdict \/ VerdictPasses \/ GiveUp
        /\ UNCHANGED <<skippedIndices, retrySubtasks>>
     \/ RetryAgain
  /\ UNCHANGED <<pipeline, plan, snapshots, everSkipped, Verification, attempt,
                 isShuttingDown, approved>>

\* They are executed one after the other in the order of the plan.
Current == CHOOSE t \in retrySubtasks : \A u \in retrySubtasks : t <= u

NextRetry ==
  /\ pc = "nextRetry"
  /\ \/ /\ retrySubtasks # {}
        /\ IF isShuttingDown THEN Return("failure", "failed") ELSE Goto("retrying")
        /\ UNCHANGED verification
     \/ retrySubtasks = {} /\ verification' = NoVerdict /\ Goto("rechecking")
  /\ UNCHANGED <<pipeline, plan, Execution, verifyFile, fresh, Retry, isShuttingDown, approved>>

RetryEnds ==
  /\ pc = "retrying"
  /\ snapshots' = snapshots \cup {Current}
  /\ retrySubtasks' = retrySubtasks \ {Current}
  /\ fresh' = FALSE
  /\ Goto("nextRetry")
  /\ UNCHANGED <<pipeline, plan, skippedIndices, verification, verifyFile, attempt,
                 isShuttingDown, approved, everSkipped>>

\* Faulty variant: the attempts are not counted.
RecheckUncounted(wrote, v) ==
  /\ pc = "rechecking"
  /\ ReadVerdict(wrote, v, NoVerdict)
  /\ Goto("deciding")
  /\ UNCHANGED <<pipeline, plan, Execution, Retry, isShuttingDown, approved>>

RecheckEnds(wrote, v) ==
  /\ pc = "rechecking"
  /\ ReadVerdict(wrote, v, NoVerdict)
  /\ attempt' = attempt + 1
  /\ Goto("deciding")
  /\ UNCHANGED <<pipeline, plan, Execution, retrySubtasks, isShuttingDown, approved>>

-----------------------------------------------------------------------------
(***************************************************************************)
(* After the last stage, or a shutdown: the manifest is completed, and the *)
(* memory of a plan worth it is distilled, whose failure is not the run's. *)
(***************************************************************************)
Finish ==
  /\ pc = "finishing"
  /\ \/ Return("success", "completed")
     \/ plan # NoPlan /\ Return("distilling", "completed")
  /\ UNCHANGED <<Data, isShuttingDown>>

\* Faulty variant: an error of the distillation is one of the run.
DistillOrThrow ==
  /\ pc = "distilling"
  /\ Goto("success") \/ Throw
  /\ UNCHANGED <<Data, isShuttingDown>>

DistillEnds ==
  /\ pc = "distilling"
  /\ Goto("success")
  /\ UNCHANGED <<Data, isShuttingDown>>

\* shutdown(), while run() awaits: only a flag.
Shutdown ==
  /\ pc \in Awaiting
  /\ ~ isShuttingDown
  /\ isShuttingDown' = TRUE
  /\ UNCHANGED <<Data, at, pc, manifest>>

Terminated == pc \in Settled /\ UNCHANGED vars

Step ==
  \/ Begin
  \/ NextStage
  \/ StageThrows
  \/ \E p \in Proposals \cup {NoPlan} : PlanEnds(p)
  \/ \E done, failed \in SUBSET Subtasks : DagEnds(done, failed)
  \/ \E wrote \in BOOLEAN, v \in Verdicts \cup {NoVerdict} : VerifyEnds(wrote, v)
  \/ StageEnded
  \/ \E ok \in BOOLEAN : Answer(ok)
  \/ Refused
  \/ Decide
  \/ NextRetry
  \/ RetryEnds
  \/ \E wrote \in BOOLEAN, v \in Verdicts \cup {NoVerdict} : RecheckEnds(wrote, v)
  \/ Finish
  \/ DistillEnds

Next == Step \/ Shutdown \/ Terminated

(***************************************************************************)
(* Every agent ends or is timed out, runDAG returns (EventuallyReturns of  *)
(* DagScheduler) and the user answers.  A shutdown may never come.         *)
(***************************************************************************)
Fairness == WF_vars(Step)

Spec == Init /\ [][Next]_vars /\ Fairness
-----------------------------------------------------------------------------
(***************************************************************************)
(* A run that succeeds and has a verdict has one that passes and that was  *)
(* written after the last execution of a subtask, although the code may    *)
(* read an old file; and a run that was once told to retry does not        *)
(* succeed without a verdict.                                              *)
(***************************************************************************)
SuccessIsVerified ==
  pc \in {"finishing", "distilling", "success"} =>
    /\ verification # NoVerdict => Passes(verification) /\ fresh
    /\ attempt > 0 => verification # NoVerdict

(***************************************************************************)
(* Unless plans are approved automatically, nothing is executed, and       *)
(* nothing executed again, of a plan the user has not approved.            *)
(***************************************************************************)
NothingRunsUnapproved == pc \in {"dag", "retrying"} => AutoApprove \/ approved

(***************************************************************************)
(* The verification is repeated only when every subtask that failed or was *)
(* skipped in the DAG has been executed, whether the verdict named it or   *)
(* not (the two sources of allRetryIndices).                               *)
(***************************************************************************)
NoSkipLeftBehind == pc = "rechecking" => everSkipped \subseteq snapshots

(***************************************************************************)
(* A run that was not shut down gives up on a failing verdict only when    *)
(* all its retries are used up or there is nothing it could retry.         *)
(***************************************************************************)
GivesUpOnlyWhenDone ==
  pc = "failure" /\ manifest = "failed" =>
    \/ isShuttingDown
    \/ attempt = MaxRetries
    \/ FailedIndices(verification) = {} /\ skippedIndices = {}

(***************************************************************************)
(* run() settles, whatever the agents answer.                              *)
(***************************************************************************)
EventuallySettles == <>(pc \in Settled)

(***************************************************************************)
(* The run keeps its contract: one question at a time, no way on after a   *)
(* refusal, and a manifest written once that tells how the run settled.    *)
(***************************************************************************)
RunView ==
  CASE pc \in {"asking", "refused"} \cup Settled -> pc
    [] OTHER -> "active"

R == INSTANCE RunContract WITH run <- RunView

ImplementsRunContract == R!Contract
=============================================================================
