------------------------- MODULE PromotionPipeline -------------------------
(***************************************************************************)
(* cadgenesis.research_lab.promotion.SafePromotionPipeline for one         *)
(* experiment: the results and approvals handed in, and advance_stage().   *)
(* Every operation holds self._lock and is one step.                       *)
(***************************************************************************)
EXTENDS Naturals, Sequences

CONSTANTS
  MaxApprovals   \* bound: approvals handed in

ASSUME PromotionAssumption == MaxApprovals \in Nat

VARIABLES
  level,     \* current_stage: a position in the list of advance_stage()
  history,   \* stage_history: the stage and the decision of each record
  evidence,  \* per stage that has results, those handed in last
  approved   \* the number of approvals that say yes

promotionVars == <<level, history, evidence, approved>>

\* The list is EXPERIMENTAL, BENCHMARK, VALIDATION, REGRESSION_TEST, HUMAN_APPROVAL,
\* PRODUCTION; results belong to the second to fourth of them.
Production == 6
OffTheList == {7, 8}  \* REJECTED and ROLLED_BACK
Gates == 2 .. 4

NoEvidence == [g \in Gates |-> "none"]

PromotionInit ==
  /\ level = 1
  /\ history = <<>>
  /\ evidence = NoEvidence
  /\ approved = 0

-----------------------------------------------------------------------------

\* create_pipeline() replaces the pipeline, whatever it was.
CreatePipeline ==
  /\ level' = 1
  /\ history' = <<>>
  /\ evidence' = NoEvidence
  /\ approved' = 0

\* Mutant of AdvanceStage: a step to the current stage is let through.
AdvanceStageAgain(target, decision) ==
  /\ target \in level .. Production
  /\ level' = target
  /\ history' = Append(history, [stage |-> target, decision |-> decision])
  /\ UNCHANGED <<evidence, approved>>

\* Only a stage of the list after the current one is accepted: index() raises
\* ValueError for REJECTED and ROLLED_BACK before the test that would let them
\* through.  The decision is recorded and not looked at.
AdvanceStage(target, decision) ==
  /\ target \in level + 1 .. Production
  /\ level' = target
  /\ history' = Append(history, [stage |-> target, decision |-> decision])
  /\ UNCHANGED <<evidence, approved>>

\* submit_benchmark_results, submit_validation_results, submit_regression_results.
SubmitResults(g) ==
  /\ \E result \in {"good", "bad"} : evidence' = [evidence EXCEPT ![g] = result]
  /\ UNCHANGED <<level, history, approved>>

\* An approval that says no is kept and never counted.
SubmitApproval ==
  /\ approved < MaxApprovals
  /\ approved' = approved + 1
  /\ UNCHANGED <<level, history, evidence>>

PromotionNext ==
  \/ CreatePipeline
  \/ \E target \in 1 .. Production \cup OffTheList, decision \in {"promote", "reject"} : AdvanceStage(target, decision)
  \/ \E g \in Gates : SubmitResults(g)
  \/ SubmitApproval

PromotionSpec == PromotionInit /\ [][PromotionNext]_promotionVars

-----------------------------------------------------------------------------
(* Properties                                                              *)

PromotionTypeOK ==
  /\ level \in 1 .. Production
  /\ history \in Seq([stage : 2 .. Production, decision : {"promote", "reject"}])
  /\ evidence \in [Gates -> {"none", "good", "bad"}]
  /\ approved \in 0 .. MaxApprovals

\* The history climbs without repeating a stage and ends at the current one, so that
\* an experiment reaches production once at most.
HistoryClimbs ==
  /\ \A i, j \in DOMAIN history : i < j => history[i].stage < history[j].stage
  /\ level = IF history = <<>> THEN 1 ELSE history[Len(history)].stage
=============================================================================
