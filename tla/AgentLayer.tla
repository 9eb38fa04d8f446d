----------------------------- MODULE AgentLayer -----------------------------
(***************************************************************************)
(* What cadgenesis.agents schedules and shares: DAGScheduler,              *)
(* DynamicScheduler, the coordinator over TaskScheduler, and               *)
(* LayeredSharedMemory.  The four share no state and call each other       *)
(* nowhere, so that the interleavings of one with another say nothing: a   *)
(* behaviour drives one of them from its first state on.                   *)
(***************************************************************************)
EXTENDS DagScheduler, DynamicScheduler, TeamCoordinator, SharedMemory

CONSTANT Parts   \* those that are driven

VARIABLE driven

agentsVars == <<driven, schedVars, dynamicVars, teamVars, memVars>>

AgentsInit ==
  /\ driven \in Parts
  /\ SchedInit /\ DynamicInit /\ TeamInit /\ MemInit

AgentsNext ==
  /\ UNCHANGED driven
  /\ \/ driven = "graph" /\ SchedNext /\ UNCHANGED <<dynamicVars, teamVars, memVars>>
     \/ driven = "dynamic" /\ DynamicNext /\ UNCHANGED <<schedVars, teamVars, memVars>>
     \/ driven = "team" /\ TeamNext /\ UNCHANGED <<schedVars, dynamicVars, memVars>>
     \/ driven = "memory" /\ MemNext /\ UNCHANGED <<schedVars, dynamicVars, teamVars>>

\* run() is one thread's loop, so that it goes on as long as it can.
AgentsSpec ==
  /\ AgentsInit /\ [][AgentsNext]_agentsVars
  /\ WF_schedVars(Work /\ UNCHANGED <<dynamicVars, teamVars, memVars, driven>>)

-----------------------------------------------------------------------------
(* Properties                                                              *)

\* The types of the four; a region never holds more than its capacity.
AgentsTypeOK == SchedTypeOK /\ DynamicTypeOK /\ TeamTypeOK /\ MemTypeOK

\* run() returns: every task is executed or skipped, for all retries and deadlines.
RunReturns == phase = "choosing" ~> phase = "returned"
=============================================================================
