---------------------------- MODULE RunContract -----------------------------
(***************************************************************************)
(* What the owner of a run (the command line, or the task of the backend)  *)
(* may rely on, whatever the stages do: the run asks for approvals one at  *)
(* a time and is over once one is refused; and the status in its manifest, *)
(* which outlives the run, is written once and tells how it ended.         *)
(***************************************************************************)
VARIABLES
  run,        \* "active", "asking", "refused", or how run() settled
  manifest    \* the status in manifest.json

contractVars == <<run, manifest>>

ContractInit == run = "active" /\ manifest = "running"

Ask == run = "active" /\ manifest = "running" /\ run' = "asking" /\ UNCHANGED manifest

Approve == run = "asking" /\ run' = "active" /\ UNCHANGED manifest

Refuse == run = "asking" /\ run' = "refused" /\ UNCHANGED manifest

Cancel == run = "refused" /\ run' = "failure" /\ manifest' = "cancelled"

GiveUp ==
  /\ run = "active" /\ manifest = "running"
  /\ run' \in {"failure", "thrown"}
  /\ manifest' = "failed"

\* What is done after the manifest was written cannot change the outcome.
Complete ==
  /\ run = "active" /\ manifest = "running"
  /\ run' \in {"active", "success"}
  /\ manifest' = "completed"

Succeed == run = "active" /\ manifest = "completed" /\ run' = "success" /\ UNCHANGED manifest

ContractNext ==
  Ask \/ Approve \/ Refuse \/ Cancel \/ GiveUp \/ Complete \/ Succeed

Contract == ContractInit /\ [][ContractNext]_contractVars
=============================================================================
