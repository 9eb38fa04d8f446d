----------------------------- MODULE ModelLayer -----------------------------
(***************************************************************************)
(* What a model depends on from its training to its service: the           *)
(* vocabulary its weights refer to, its checkpoints, the parameters a task *)
(* may move, the registry and the served model.  They share no state, so   *)
(* that the interleavings of one with another say nothing: a behaviour     *)
(* drives one of them from its first state on.                             *)
(***************************************************************************)
EXTENDS ModelRegistry, ServingLifecycle, Vocabulary, CheckpointRetention, TaskIsolation

CONSTANT Parts   \* those that are driven

VARIABLE driven

modelsVars == <<vars, lifecycleVars, vocabVars, retentionVars, isolationVars, driven>>

ModelsInit ==
  /\ driven \in Parts
  /\ Init /\ LifecycleInit /\ VocabInit /\ RetentionInit /\ IsolationInit
  /\ driven # "isolation" => trainable = {}

ModelsNext ==
  /\ UNCHANGED driven
  /\ \/ /\ driven = "registry" /\ Next
        /\ UNCHANGED <<lifecycleVars, vocabVars, retentionVars, isolationVars>>
     \/ /\ driven = "lifecycle" /\ LifecycleNext
        /\ UNCHANGED <<vars, vocabVars, retentionVars, isolationVars>>
     \/ /\ driven = "vocabulary" /\ VocabNext
        /\ UNCHANGED <<vars, lifecycleVars, retentionVars, isolationVars>>
     \/ /\ driven = "checkpoints" /\ RetentionNext
        /\ UNCHANGED <<vars, lifecycleVars, vocabVars, isolationVars>>
     \/ /\ driven = "isolation" /\ IsolationNext
        /\ UNCHANGED <<vars, lifecycleVars, vocabVars, retentionVars>>

ModelsSpec == ModelsInit /\ [][ModelsNext]_modelsVars

-----------------------------------------------------------------------------
(* Properties                                                              *)

\* The types of the served model, the checkpoints and the isolated tasks.
ModelsTypeOK == LifecycleTypeOK /\ RetentionTypeOK /\ IsolationTypeOK
=============================================================================
