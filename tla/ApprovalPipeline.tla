-------------------------- MODULE ApprovalPipeline --------------------------
(***************************************************************************)
(* cadgenesis.autonomous_research.approval.HumanApprovalPipeline for one   *)
(* experiment: requests for approval at a stage, and the decisions that    *)
(* reviewers record on them, on time or late.                              *)
(*                                                                         *)
(* Every operation holds self._lock and is one step.  The stage history is *)
(* kept as what the code reads of it, the number of decisions of each kind *)
(* per request; who decided is not read anywhere.                          *)
(***************************************************************************)
EXTENDS Naturals, Sequences

CONSTANTS
  LastStage,     \* the number of stages in _stages
  Required,      \* the values of required_approvals
  MaxRequests,   \* bound: requests submitted
  MaxDecisions   \* bound: decisions of one kind on one request

ASSUME ApprovalAssumption ==
  /\ LastStage \in Nat \ {0} /\ Required \subseteq Nat \ {0}
  /\ MaxRequests \in Nat /\ MaxDecisions \in Nat

VARIABLES
  stage,     \* current_stage: a position in _stages, or Rejected
  requests,  \* _requests, also those made before the experiment was created anew
  decided,   \* stage_history
  pending    \* pending_request, or 0

approvalVars == <<stage, requests, decided, pending>>

Rejected == 0
Decision == {"approve", "reject", "other"}
Ids == 1 .. MaxRequests
Undecided == [r \in Ids |-> [d \in Decision |-> 0]]

ApprovalInit ==
  /\ stage = 1
  /\ requests = <<>>
  /\ decided = Undecided
  /\ pending = 0

-----------------------------------------------------------------------------

\* create_experiment() replaces the state, whatever it was.
CreateExperiment ==
  /\ stage' = 1
  /\ decided' = Undecided
  /\ pending' = 0
  /\ UNCHANGED requests

\* A rejected experiment, or an earlier stage, is refused with ValueError.
SubmitForApproval ==
  /\ Len(requests) < MaxRequests
  /\ stage # Rejected
  /\ \E s \in stage .. LastStage, k \in Required :
       requests' = Append(requests, [stage |-> s, required |-> k])
  /\ pending' = Len(requests) + 1
  /\ UNCHANGED <<stage, decided>>

Record(r, d) ==
  /\ r \in DOMAIN requests /\ decided[r][d] < MaxDecisions
  /\ decided' = [decided EXCEPT ![r][d] = @ + 1]
  /\ UNCHANGED requests

\* Mutant of Enough: counts the approvals of all requests.
EnoughOverall(r) ==
  \E q \in DOMAIN requests :
    decided'[r]["approve"] + (IF q = r THEN 0 ELSE decided'[q]["approve"]) >= requests[r].required

Enough(r) == decided'[r]["approve"] >= requests[r].required

\* record_decision(): any rejection of the request rejects the experiment; enough
\* approvals move it one stage on, and raise ValueError when it is rejected (the
\* decision is in the history by then).
RecordDecision(r, d) ==
  /\ Record(r, d)
  /\ \/ /\ decided'[r]["reject"] > 0
        /\ stage' = Rejected /\ pending' = 0
     \/ /\ decided'[r]["reject"] = 0 /\ Enough(r) /\ stage # Rejected
        /\ stage' = IF stage < LastStage THEN stage + 1 ELSE stage
        /\ pending' = 0
     \/ /\ decided'[r]["reject"] = 0 /\ (Enough(r) => stage = Rejected)
        /\ UNCHANGED <<stage, pending>>

\* request_changes() adds to the history and looks at nothing.
RequestChanges(r) == Record(r, "other") /\ UNCHANGED <<stage, pending>>

ApprovalNext ==
  \/ CreateExperiment
  \/ SubmitForApproval
  \/ \E r \in Ids : RequestChanges(r) \/ \E d \in Decision : RecordDecision(r, d)

ApprovalSpec == ApprovalInit /\ [][ApprovalNext]_approvalVars

-----------------------------------------------------------------------------
(* Properties                                                              *)

ApprovalTypeOK ==
  /\ stage \in 0 .. LastStage
  /\ requests \in Seq([stage : 1 .. LastStage, required : Required])
  /\ Len(requests) <= MaxRequests
  /\ decided \in [Ids -> [Decision -> 0 .. MaxDecisions]]
  /\ pending \in 0 .. Len(requests)

\* The experiment is rejected exactly when one of its requests has a rejection:
\* later approvals, of this or another request, do not bring it back.
RejectionSticks ==
  stage = Rejected <=> \E r \in Ids : decided[r]["reject"] > 0

\* The pending request is the latest one, and still open: it has no rejection and
\* fewer approvals than it requires.
PendingIsOpen ==
  pending # 0 =>
    /\ pending = Len(requests)
    /\ stage # Rejected
    /\ decided[pending]["approve"] < requests[pending].required

\* An experiment that has left the first stage has a request with all the approvals
\* it requires: approvals of several requests do not add up.
AdvancedByApproval ==
  stage > 1 => \E r \in DOMAIN requests : decided[r]["approve"] >= requests[r].required

\* Both: decide() rejects for a rejection and advances for enough approvals, only.
VerdictsHold == RejectionSticks /\ AdvancedByApproval
=============================================================================
