--------------------------- MODULE PipelineProofs ---------------------------
(***************************************************************************)
(* Proofs about Pipeline, for any plans, verdicts, pipelines that end with *)
(* their Verify stage, and any number of retries.                          *)
(*                                                                         *)
(* The point of the argument is the file of Verify.  A re-check may read   *)
(* the verdict of an earlier check, but an old verdict is there only       *)
(* because it was a failing one: a passing verdict ends the loop, and the  *)
(* stages that execute anything come before Verify (StaleVerdictsFail).    *)
(***************************************************************************)
EXTENDS Pipeline, WellFoundedInduction, SequenceTheorems, TLAPS

\* The part of run() that belongs to one stage of the pipeline.
StageOfPc ==
  /\ pc \in {"planning", "asking", "refused"} => at <= Len(pipeline) /\ pipeline[at] = "Plan"
  /\ pc = "dag" => at <= Len(pipeline) /\ pipeline[at] = "Execute" /\ plan # NoPlan
  /\ pc = "ended" => at <= Len(pipeline)
  /\ pc \in {"verifying", "deciding", "nextRetry", "retrying", "rechecking"} =>
       at <= Len(pipeline) /\ pipeline[at] = "Verify"

\* Before the first check of Verify there is no verdict and no attempt.
NoEarlyVerdict ==
  \/ at <= Len(pipeline) /\ pipeline[at] # "Verify"
  \/ pc \in {"begin", "verifying"}
  \/ pc = "top" /\ at <= Len(pipeline)
  => verification = NoVerdict /\ verifyFile = NoVerdict /\ attempt = 0

StaleVerdictsFail == verifyFile # NoVerdict /\ ~ fresh => ~ Passes(verifyFile)

\* The verdict that retryLoop looks at is the one in the file.
VerdictInFile ==
  /\ pc = "ended" => attempt = 0
  /\ pc \in {"ended", "deciding"} => verification \in {NoVerdict, verifyFile}
  /\ pc \in {"nextRetry", "retrying"} =>
       verification = verifyFile /\ verification # NoVerdict /\ ~ Passes(verification)
  /\ pc = "top" /\ at > Len(pipeline) =>
       /\ verification # NoVerdict => Passes(verification) /\ fresh
       /\ attempt > 0 => verification # NoVerdict

RetryBounds ==
  /\ pc \in {"nextRetry", "retrying", "rechecking"} => attempt < MaxRetries
  /\ pc = "retrying" => retrySubtasks # {} /\ plan # NoPlan
  /\ pc = "nextRetry" /\ plan = NoPlan => retrySubtasks = {}

\* Whatever failed or was skipped is still listed, about to be executed, or done.
SkipsAccountedFor ==
  /\ plan = NoPlan => skippedIndices = {} /\ everSkipped = {}
  /\ pc \notin {"nextRetry", "retrying", "thrown", "failure"} =>
       everSkipped \subseteq snapshots \cup skippedIndices
  /\ pc \in {"nextRetry", "retrying"} => everSkipped \subseteq snapshots \cup retrySubtasks

UnapprovedPlanWaits ==
  plan # NoPlan /\ ~ AutoApprove /\ ~ approved =>
    \/ pc \in {"asking", "refused", "failure"}
    \/ pc = "ended" /\ pipeline[at] = "Plan"

ManifestOfPc ==
  /\ pc \in (Awaiting \cup Between) \ {"distilling"} => manifest = "running"
  /\ pc = "distilling" => manifest = "completed"

ControlInv == StageOfPc /\ ManifestOfPc /\ UnapprovedPlanWaits

VerdictInv == NoEarlyVerdict /\ StaleVerdictsFail /\ VerdictInFile /\ SuccessIsVerified

RetryInv == RetryBounds /\ SkipsAccountedFor /\ NoSkipLeftBehind /\ GivesUpOnlyWhenDone

IInv == TypeOK /\ ControlInv /\ VerdictInv /\ RetryInv

-----------------------------------------------------------------------------
(***************************************************************************)
(* The next subtask to execute is one of those still to execute.           *)
(***************************************************************************)
LEMMA LeastExists ==
  ASSUME NEW T \in SUBSET Nat, T # {}
  PROVE  \E t \in T : \A u \in T : t <= u
<1> DEFINE Less == {p \in Nat \X Nat : p[1] < p[2]}
<1>1. IsWellFoundedOn(Less, Nat)
  BY NatLessThanWellFounded DEF OpToRel
<1>2. PICK t \in T : \A u \in T : <<u, t>> \notin Less
  BY <1>1, WFMin
<1>3. ASSUME NEW u \in T PROVE t <= u
  <2>1. <<u, t>> \in Nat \X Nat /\ <<u, t>> \notin Less
    BY <1>2
  <2>2. ~ (u < t)
    BY <2>1
  <2> QED
    BY <2>2
<1> QED
  BY <1>3

LEMMA CurrentIsOne ==
  ASSUME TypeOK, retrySubtasks # {}
  PROVE  Current \in retrySubtasks
<1>1. retrySubtasks \in SUBSET Nat
  BY SubtasksAssumption DEF TypeOK
<1>2. \E t \in retrySubtasks : \A u \in retrySubtasks : t <= u
  BY <1>1, LeastExists
<1> QED
  BY <1>2 DEF Current

LEMMA InitIInv == Init => IInv
<1> SUFFICES ASSUME Init PROVE IInv
  OBVIOUS
<1> USE PipelineAssumption DEF Init
<1>1. TypeOK
  <2>1. pipeline \in Seq(Stage)
    OBVIOUS
  <2>2. Len(pipeline) \in Nat
    BY <2>1, LenProperties
  <2>3. at \in 1 .. Len(pipeline) + 1 /\ attempt \in 0 .. MaxRetries
    BY <2>2
  <2> QED
    BY <2>3 DEF TypeOK, Between
<1>2. ControlInv
  BY DEF ControlInv, StageOfPc, ManifestOfPc, UnapprovedPlanWaits, Between
<1>3. VerdictInv
  BY DEF VerdictInv, NoEarlyVerdict, StaleVerdictsFail, VerdictInFile, SuccessIsVerified
<1>4. RetryInv
  BY DEF RetryInv, RetryBounds, SkipsAccountedFor, NoSkipLeftBehind, GivesUpOnlyWhenDone
<1> QED
  BY <1>1, <1>2, <1>3, <1>4 DEF IInv

-----------------------------------------------------------------------------
(***************************************************************************)
(* Every action keeps the invariant: first the types, then the three parts.*)
(***************************************************************************)
USE DEF IInv, TypeOK, ControlInv, VerdictInv, RetryInv, Awaiting, Between, Settled,
        Goto, NextPosition, Return, Throw, Data, Execution, Verification, Retry

LEMMA BeginKeeps == ASSUME IInv, Begin PROVE IInv'
<1> USE PipelineAssumption DEF Begin
<1>1. TypeOK'
  BY DEF StageOfPc, RetryBounds, VerdictInFile
<1>2. ControlInv'
  BY DEF StageOfPc, ManifestOfPc, UnapprovedPlanWaits
<1>3. VerdictInv'
  BY DEF StageOfPc, NoEarlyVerdict, StaleVerdictsFail, VerdictInFile, SuccessIsVerified
<1>4. RetryInv'
  BY DEF StageOfPc, VerdictInFile, RetryBounds, SkipsAccountedFor, NoSkipLeftBehind, GivesUpOnlyWhenDone
<1> QED
  BY <1>1, <1>2, <1>3, <1>4

LEMMA NextStageKeeps == ASSUME IInv, NextStage PROVE IInv'
<1> USE PipelineAssumption DEF NextStage
<1>1. TypeOK'
  BY DEF StageOfPc, RetryBounds, VerdictInFile
<1>2. ControlInv'
  BY DEF StageOfPc, ManifestOfPc, UnapprovedPlanWaits
<1>3. VerdictInv'
  BY DEF StageOfPc, NoEarlyVerdict, StaleVerdictsFail, VerdictInFile, SuccessIsVerified
<1>4. RetryInv'
  BY DEF StageOfPc, VerdictInFile, RetryBounds, SkipsAccountedFor, NoSkipLeftBehind, GivesUpOnlyWhenDone
<1> QED
  BY <1>1, <1>2, <1>3, <1>4

LEMMA StageThrowsKeeps == ASSUME IInv, StageThrows PROVE IInv'
<1> USE PipelineAssumption DEF StageThrows
<1>1. TypeOK'
  BY DEF StageOfPc, RetryBounds, VerdictInFile
<1>2. ControlInv'
  BY DEF StageOfPc, ManifestOfPc, UnapprovedPlanWaits
<1>3. VerdictInv'
  BY DEF StageOfPc, NoEarlyVerdict, StaleVerdictsFail, VerdictInFile, SuccessIsVerified
<1>4. RetryInv'
  BY DEF StageOfPc, VerdictInFile, RetryBounds, SkipsAccountedFor, NoSkipLeftBehind, GivesUpOnlyWhenDone
<1> QED
  BY <1>1, <1>2, <1>3, <1>4

LEMMA PlanEndsKeeps == ASSUME IInv, NEW p \in Proposals \cup {NoPlan}, PlanEnds(p) PROVE IInv'
<1> USE PipelineAssumption DEF PlanEnds
<1>1. TypeOK'
  BY DEF StageOfPc, RetryBounds, VerdictInFile
<1>2. ControlInv'
  BY DEF StageOfPc, ManifestOfPc, UnapprovedPlanWaits
<1>3. VerdictInv'
  BY DEF StageOfPc, NoEarlyVerdict, StaleVerdictsFail, VerdictInFile, SuccessIsVerified
<1>4. RetryInv'
  BY DEF StageOfPc, VerdictInFile, RetryBounds, SkipsAccountedFor, NoSkipLeftBehind, GivesUpOnlyWhenDone
<1> QED
  BY <1>1, <1>2, <1>3, <1>4

LEMMA DagEndsKeeps ==
  ASSUME IInv, NEW done \in SUBSET Subtasks, NEW failed \in SUBSET Subtasks, DagEnds(done, failed)
  PROVE  IInv'
<1> USE PipelineAssumption DEF DagEnds
<1>1. TypeOK'
  <2>1. Cascade(plan, failed) \in SUBSET Subtasks
    BY DEF Cascade, Downstream
  <2> QED
    BY <2>1
<1>2. ControlInv'
  BY DEF StageOfPc, ManifestOfPc, UnapprovedPlanWaits
<1>3. VerdictInv'
  BY DEF StageOfPc, NoEarlyVerdict, StaleVerdictsFail, VerdictInFile, SuccessIsVerified
<1>4. RetryInv'
  BY DEF StageOfPc, VerdictInFile, RetryBounds, SkipsAccountedFor, NoSkipLeftBehind, GivesUpOnlyWhenDone
<1> QED
  BY <1>1, <1>2, <1>3, <1>4

LEMMA VerifyEndsKeeps ==
  ASSUME IInv, NEW wrote \in BOOLEAN, NEW v \in Verdicts \cup {NoVerdict}, VerifyEnds(wrote, v)
  PROVE  IInv'
<1> USE PipelineAssumption DEF VerifyEnds, ReadVerdict, VerifyOutput
<1>1. TypeOK'
  BY DEF StageOfPc, RetryBounds, VerdictInFile
<1>2. ControlInv'
  BY DEF StageOfPc, ManifestOfPc, UnapprovedPlanWaits
<1>3. VerdictInv'
  BY DEF StageOfPc, NoEarlyVerdict, StaleVerdictsFail, VerdictInFile, SuccessIsVerified
<1>4. RetryInv'
  BY DEF StageOfPc, VerdictInFile, RetryBounds, SkipsAccountedFor, NoSkipLeftBehind, GivesUpOnlyWhenDone
<1> QED
  BY <1>1, <1>2, <1>3, <1>4

LEMMA StageEndedKeeps == ASSUME IInv, StageEnded PROVE IInv'
<1> USE PipelineAssumption DEF StageEnded
<1>1. TypeOK'
  BY DEF StageOfPc, RetryBounds, VerdictInFile
<1>2. ControlInv'
  BY DEF StageOfPc, ManifestOfPc, UnapprovedPlanWaits
<1>3. VerdictInv'
  BY DEF StageOfPc, NoEarlyVerdict, StaleVerdictsFail, VerdictInFile, SuccessIsVerified
<1>4. RetryInv'
  BY DEF StageOfPc, VerdictInFile, RetryBounds, SkipsAccountedFor, NoSkipLeftBehind, GivesUpOnlyWhenDone
<1> QED
  BY <1>1, <1>2, <1>3, <1>4

LEMMA AnswerKeeps == ASSUME IInv, NEW ok \in BOOLEAN, Answer(ok) PROVE IInv'
<1> USE PipelineAssumption DEF Answer
<1>1. TypeOK'
  BY DEF StageOfPc, RetryBounds, VerdictInFile
<1>2. ControlInv'
  BY DEF StageOfPc, ManifestOfPc, UnapprovedPlanWaits
<1>3. VerdictInv'
  BY DEF StageOfPc, NoEarlyVerdict, StaleVerdictsFail, VerdictInFile, SuccessIsVerified
<1>4. RetryInv'
  BY DEF StageOfPc, VerdictInFile, RetryBounds, SkipsAccountedFor, NoSkipLeftBehind, GivesUpOnlyWhenDone
<1> QED
  BY <1>1, <1>2, <1>3, <1>4

LEMMA RefusedKeeps == ASSUME IInv, Refused PROVE IInv'
<1> USE PipelineAssumption DEF Refused
<1>1. TypeOK'
  BY DEF StageOfPc, RetryBounds, VerdictInFile
<1>2. ControlInv'
  BY DEF StageOfPc, ManifestOfPc, UnapprovedPlanWaits
<1>3. VerdictInv'
  BY DEF StageOfPc, NoEarlyVerdict, StaleVerdictsFail, VerdictInFile, SuccessIsVerified
<1>4. RetryInv'
  BY DEF StageOfPc, VerdictInFile, RetryBounds, SkipsAccountedFor, NoSkipLeftBehind, GivesUpOnlyWhenDone
<1> QED
  BY <1>1, <1>2, <1>3, <1>4

LEMMA DecideKeeps == ASSUME IInv, Decide PROVE IInv'
<1> USE PipelineAssumption DEF Decide, MissingVerdict, VerdictPasses, GiveUp, RetryAgain, LastAttempt, AllRetryIndices, SkippedForRetry, RetryList
<1>1. TypeOK'
  BY DEF StageOfPc, RetryBounds, VerdictInFile
<1>2. ControlInv'
  BY DEF StageOfPc, ManifestOfPc, UnapprovedPlanWaits
<1>3. VerdictInv'
  BY DEF StageOfPc, NoEarlyVerdict, StaleVerdictsFail, VerdictInFile, SuccessIsVerified
<1>4. RetryInv'
  BY DEF StageOfPc, VerdictInFile, RetryBounds, SkipsAccountedFor, NoSkipLeftBehind, GivesUpOnlyWhenDone
<1> QED
  BY <1>1, <1>2, <1>3, <1>4

LEMMA NextRetryKeeps == ASSUME IInv, NextRetry PROVE IInv'
<1> USE PipelineAssumption DEF NextRetry
<1>1. TypeOK'
  BY DEF StageOfPc, RetryBounds, VerdictInFile
<1>2. ControlInv'
  BY DEF StageOfPc, ManifestOfPc, UnapprovedPlanWaits
<1>3. VerdictInv'
  BY DEF StageOfPc, NoEarlyVerdict, StaleVerdictsFail, VerdictInFile, SuccessIsVerified
<1>4. RetryInv'
  BY DEF StageOfPc, VerdictInFile, RetryBounds, SkipsAccountedFor, NoSkipLeftBehind, GivesUpOnlyWhenDone
<1> QED
  BY <1>1, <1>2, <1>3, <1>4

LEMMA RetryEndsKeeps == ASSUME IInv, RetryEnds PROVE IInv'
<1> USE PipelineAssumption DEF RetryEnds
<1>1. TypeOK'
  <2>1. Current \in retrySubtasks
    BY CurrentIsOne DEF RetryBounds
  <2> QED
    BY <2>1
<1>2. ControlInv'
  BY DEF StageOfPc, ManifestOfPc, UnapprovedPlanWaits
<1>3. VerdictInv'
  BY DEF StageOfPc, NoEarlyVerdict, StaleVerdictsFail, VerdictInFile, SuccessIsVerified
<1>4. RetryInv'
  BY DEF StageOfPc, VerdictInFile, RetryBounds, SkipsAccountedFor, NoSkipLeftBehind, GivesUpOnlyWhenDone
<1> QED
  BY <1>1, <1>2, <1>3, <1>4

LEMMA RecheckEndsKeeps ==
  ASSUME IInv, NEW wrote \in BOOLEAN, NEW v \in Verdicts \cup {NoVerdict}, RecheckEnds(wrote, v)
  PROVE  IInv'
<1> USE PipelineAssumption DEF RecheckEnds, ReadVerdict, VerifyOutput
<1>1. TypeOK'
  BY DEF StageOfPc, RetryBounds, VerdictInFile
<1>2. ControlInv'
  BY DEF StageOfPc, ManifestOfPc, UnapprovedPlanWaits
<1>3. VerdictInv'
  BY DEF StageOfPc, NoEarlyVerdict, StaleVerdictsFail, VerdictInFile, SuccessIsVerified
<1>4. RetryInv'
  BY DEF StageOfPc, VerdictInFile, RetryBounds, SkipsAccountedFor, NoSkipLeftBehind, GivesUpOnlyWhenDone
<1> QED
  BY <1>1, <1>2, <1>3, <1>4

LEMMA FinishKeeps == ASSUME IInv, Finish PROVE IInv'
<1> USE PipelineAssumption DEF Finish
<1>1. TypeOK'
  BY DEF StageOfPc, RetryBounds, VerdictInFile
<1>2. ControlInv'
  BY DEF StageOfPc, ManifestOfPc, UnapprovedPlanWaits
<1>3. VerdictInv'
  BY DEF StageOfPc, NoEarlyVerdict, StaleVerdictsFail, VerdictInFile, SuccessIsVerified
<1>4. RetryInv'
  BY DEF StageOfPc, VerdictInFile, RetryBounds, SkipsAccountedFor, NoSkipLeftBehind, GivesUpOnlyWhenDone
<1> QED
  BY <1>1, <1>2, <1>3, <1>4

LEMMA DistillEndsKeeps == ASSUME IInv, DistillEnds PROVE IInv'
<1> USE PipelineAssumption DEF DistillEnds
<1>1. TypeOK'
  BY DEF StageOfPc, RetryBounds, VerdictInFile
<1>2. ControlInv'
  BY DEF StageOfPc, ManifestOfPc, UnapprovedPlanWaits
<1>3. VerdictInv'
  BY DEF StageOfPc, NoEarlyVerdict, StaleVerdictsFail, VerdictInFile, SuccessIsVerified
<1>4. RetryInv'
  BY DEF StageOfPc, VerdictInFile, RetryBounds, SkipsAccountedFor, NoSkipLeftBehind, GivesUpOnlyWhenDone
<1> QED
  BY <1>1, <1>2, <1>3, <1>4

LEMMA ShutdownKeeps == ASSUME IInv, Shutdown PROVE IInv'
<1> USE PipelineAssumption DEF Shutdown
<1>1. TypeOK'
  BY DEF StageOfPc, RetryBounds, VerdictInFile
<1>2. ControlInv'
  BY DEF StageOfPc, ManifestOfPc, UnapprovedPlanWaits
<1>3. VerdictInv'
  BY DEF StageOfPc, NoEarlyVerdict, StaleVerdictsFail, VerdictInFile, SuccessIsVerified
<1>4. RetryInv'
  BY DEF StageOfPc, VerdictInFile, RetryBounds, SkipsAccountedFor, NoSkipLeftBehind, GivesUpOnlyWhenDone
<1> QED
  BY <1>1, <1>2, <1>3, <1>4

LEMMA StepIInv == IInv /\ [Next]_vars => IInv'
<1> SUFFICES ASSUME IInv, [Next]_vars PROVE IInv'
  OBVIOUS
<1>1. CASE UNCHANGED vars
  BY <1>1 DEF vars, StageOfPc, ManifestOfPc, UnapprovedPlanWaits, NoEarlyVerdict,
     StaleVerdictsFail, VerdictInFile, SuccessIsVerified, RetryBounds, SkipsAccountedFor,
     NoSkipLeftBehind, GivesUpOnlyWhenDone
<1>2. CASE Step
  BY <1>2, BeginKeeps, NextStageKeeps, StageThrowsKeeps, PlanEndsKeeps, DagEndsKeeps,
     VerifyEndsKeeps, StageEndedKeeps, AnswerKeeps, RefusedKeeps, DecideKeeps,
     NextRetryKeeps, RetryEndsKeeps, RecheckEndsKeeps, FinishKeeps, DistillEndsKeeps
  DEF Step
<1> QED
  BY <1>1, <1>2, ShutdownKeeps DEF Next, Terminated

-----------------------------------------------------------------------------
(***************************************************************************)
(* The invariant holds throughout every run.                               *)
(***************************************************************************)
THEOREM Invariance == Spec => []IInv
BY InitIInv, StepIInv, PTL DEF Spec

(***************************************************************************)
(* Whatever the agents answer, every variable keeps its type: the run is   *)
(* in a stage of its pipeline, its plan has no cycle, and retryLoop makes  *)
(* no more than MaxRetries attempts.                                       *)
(***************************************************************************)
THEOREM TypeCorrect == Spec => []TypeOK
<1>1. IInv => TypeOK
  OBVIOUS
<1> QED
  BY <1>1, Invariance, PTL

(***************************************************************************)
(* No old verdict, and no missing one after a retry, makes a run succeed.  *)
(***************************************************************************)
THEOREM Verified == Spec => []SuccessIsVerified
<1>1. IInv => SuccessIsVerified
  OBVIOUS
<1> QED
  BY <1>1, Invariance, PTL

(***************************************************************************)
(* Nothing of a plan that waits for its approval, or was refused, runs.    *)
(***************************************************************************)
THEOREM ApprovedFirst == Spec => []NothingRunsUnapproved
<1>1. IInv => NothingRunsUnapproved
  BY DEF NothingRunsUnapproved, UnapprovedPlanWaits, StageOfPc, RetryBounds
<1> QED
  BY <1>1, Invariance, PTL

(***************************************************************************)
(* A re-check of Verify finds everything executed that the DAG left out.   *)
(***************************************************************************)
THEOREM SkipsAreRetried == Spec => []NoSkipLeftBehind
<1>1. IInv => NoSkipLeftBehind
  OBVIOUS
<1> QED
  BY <1>1, Invariance, PTL

(***************************************************************************)
(* The retry loop uses all its attempts before it gives up.                *)
(***************************************************************************)
THEOREM Persistent == Spec => []GivesUpOnlyWhenDone
<1>1. IInv => GivesUpOnlyWhenDone
  OBVIOUS
<1> QED
  BY <1>1, Invariance, PTL

-----------------------------------------------------------------------------
LEMMA StepKeepsContract == IInv /\ [Next]_vars => [R!ContractNext]_(R!contractVars)
<1> SUFFICES ASSUME IInv, [Next]_vars PROVE [R!ContractNext]_(R!contractVars)
  OBVIOUS
<1> USE DEF R!ContractNext, R!contractVars, R!Ask, R!Approve, R!Refuse, R!Cancel, R!GiveUp,
            R!Complete, R!Succeed, RunView, ManifestOfPc
<1>1. CASE Begin \/ NextStage \/ StageThrows
  BY <1>1 DEF Begin, NextStage, StageThrows
<1>2. ASSUME NEW p \in Proposals \cup {NoPlan}, PlanEnds(p)
      PROVE  [R!ContractNext]_(R!contractVars)
  BY <1>2 DEF PlanEnds
<1>3. ASSUME NEW done \in SUBSET Subtasks, NEW failed \in SUBSET Subtasks, DagEnds(done, failed)
      PROVE  [R!ContractNext]_(R!contractVars)
  BY <1>3 DEF DagEnds
<1>4. ASSUME NEW wrote \in BOOLEAN, NEW v \in Verdicts \cup {NoVerdict},
             VerifyEnds(wrote, v) \/ RecheckEnds(wrote, v)
      PROVE  [R!ContractNext]_(R!contractVars)
  BY <1>4 DEF VerifyEnds, RecheckEnds
<1>5. ASSUME NEW ok \in BOOLEAN, Answer(ok) PROVE [R!ContractNext]_(R!contractVars)
  BY <1>5 DEF Answer
<1>6. CASE StageEnded \/ Refused
  BY <1>6 DEF StageEnded, Refused
<1>7. CASE Decide
  BY <1>7 DEF Decide, MissingVerdict, VerdictPasses, GiveUp, RetryAgain
<1>8. CASE NextRetry \/ RetryEnds
  BY <1>8 DEF NextRetry, RetryEnds
<1>9. CASE Finish \/ DistillEnds
  BY <1>9 DEF Finish, DistillEnds
<1>10. CASE Shutdown \/ UNCHANGED vars
  BY <1>10 DEF Shutdown, vars
<1> QED
  BY <1>1, <1>2, <1>3, <1>4, <1>5, <1>6, <1>7, <1>8, <1>9, <1>10 DEF Next, Step, Terminated

(***************************************************************************)
(* Pipeline implements RunContract: every step of a run is one the owner   *)
(* of the run reckons with, or does not concern it.                        *)
(***************************************************************************)
THEOREM KeepsContract == Spec => ImplementsRunContract
<1>1. Init => R!ContractInit
  BY DEF Init, R!ContractInit, RunView
<1>2. IInv /\ [Next]_vars => [R!ContractNext]_(R!contractVars)
  BY StepKeepsContract
<1> QED
  BY <1>1, <1>2, Invariance, PTL DEF Spec, ImplementsRunContract, R!Contract
=============================================================================
