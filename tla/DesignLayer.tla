----------------------------- MODULE DesignLayer -----------------------------
(***************************************************************************)
(* What serves and assembles a design: the request batcher, the decoders   *)
(* behind it, the log of the memory, the workflow, and the features and    *)
(* parameters of a part.  They share no state, so that the interleavings   *)
(* of one with another say nothing: a behaviour drives one of them from    *)
(* its first state on.                                                     *)
(***************************************************************************)
EXTENDS DynamicBatcher, Decoding, MemoryLog, WorkflowOrchestrator, CadTree

CONSTANT Parts   \* those that are driven

VARIABLE driven

designVars == <<vars, decodingVars, memoryVars, workflowVars, cadVars, driven>>

DesignInit ==
  driven \in Parts /\ Init /\ DecodingInit /\ MemoryInit /\ WorkflowInit /\ CadInit

DesignNext ==
  /\ UNCHANGED driven
  /\ \/ /\ driven = "batcher" /\ Next
        /\ UNCHANGED <<decodingVars, memoryVars, workflowVars, cadVars>>
     \/ /\ driven = "decoding" /\ DecodingNext
        /\ UNCHANGED <<vars, memoryVars, workflowVars, cadVars>>
     \/ /\ driven = "memory" /\ MemoryNext
        /\ UNCHANGED <<vars, decodingVars, workflowVars, cadVars>>
     \/ /\ driven = "workflow" /\ WorkflowNext
        /\ UNCHANGED <<vars, decodingVars, memoryVars, cadVars>>
     \/ /\ driven = "features" /\ TreeNext
        /\ UNCHANGED <<vars, decodingVars, memoryVars, workflowVars>>
     \/ /\ driven = "parameters" /\ TableNext
        /\ UNCHANGED <<vars, decodingVars, memoryVars, workflowVars>>

DesignSpec == DesignInit /\ [][DesignNext]_designVars

Batching(A) == driven = "batcher" /\ A

\* The fairness of the batcher, where it is driven.
DesignFairness ==
  /\ WF_vars(Batching(WorkerStep))
  /\ \A c \in Closers : WF_vars(Batching(CloserStep(c)))

-----------------------------------------------------------------------------
(* Properties                                                              *)

\* The types of all the parts but the batcher.
DesignTypeOK == DecodingTypeOK /\ MemoryTypeOK /\ WorkflowTypeOK /\ CadTypeOK
=============================================================================
