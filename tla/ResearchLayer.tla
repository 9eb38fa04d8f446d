---------------------------- MODULE ResearchLayer ----------------------------
(***************************************************************************)
(* The way of an experiment: the runner that executes it, and the two      *)
(* pipelines that lead a result to production, HumanApprovalPipeline and   *)
(* SafePromotionPipeline.  The three share no state and call each other    *)
(* nowhere, so that the interleavings of one with another say nothing: a   *)
(* behaviour drives one of them from its first state on.                   *)
(***************************************************************************)
EXTENDS ExperimentRunner, ApprovalPipeline, PromotionPipeline

CONSTANT Parts   \* those that are driven

VARIABLE driven

researchVars == <<vars, approvalVars, promotionVars, driven>>

ResearchInit == driven \in Parts /\ Init /\ ApprovalInit /\ PromotionInit

ResearchNext ==
  /\ UNCHANGED driven
  /\ \/ driven = "runner" /\ Next /\ UNCHANGED <<approvalVars, promotionVars>>
     \/ driven = "approval" /\ ApprovalNext /\ UNCHANGED <<vars, promotionVars>>
     \/ driven = "promotion" /\ PromotionNext /\ UNCHANGED <<vars, approvalVars>>

ResearchSpec == ResearchInit /\ [][ResearchNext]_researchVars

\* The pool's threads and the caller are scheduled, and node functions end.
ResearchFairness ==
  \A x \in Runs : WF_vars(Work(x) /\ UNCHANGED <<approvalVars, promotionVars, driven>>)

-----------------------------------------------------------------------------
(* Properties                                                              *)

\* The types of the three parts.
ResearchTypeOK == TypeOK /\ ApprovalTypeOK /\ PromotionTypeOK
=============================================================================
