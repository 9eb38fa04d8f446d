--------------------------- MODULE TaskIsolation ---------------------------
(***************************************************************************)
(* cadgenesis.continual_learning.adapter_isolation.TaskAdapterRegistry:    *)
(* isolate() lets only the parameters of a task move, and release() puts   *)
(* the flags back that it found, then the masks of the tasks that are      *)
(* still active.  Tasks overlap in any order.                              *)
(***************************************************************************)
EXTENDS Sequences, SequencesExt

CONSTANTS
  Params,     \* of the model
  Adapters    \* per task, the parameters register_task() matched

ASSUME IsolationAssumption == Adapters \in [DOMAIN Adapters -> SUBSET Params]

VARIABLES
  trainable,   \* the parameters with requires_grad
  saved,       \* the active tasks in the order of their first isolation, with the flags each found
  baseline,    \* ghost: the flags before the first of the active tasks
  nested       \* ghost: since then the tasks were isolated once each and released last first

isolationVars == <<trainable, saved, baseline, nested>>

Tasks == DOMAIN Adapters
Active == {saved[i].task : i \in DOMAIN saved}

IsolationInit ==
  /\ trainable \in SUBSET Params /\ baseline = trainable
  /\ saved = <<>> /\ nested = TRUE

Isolate(t) ==
  /\ trainable' = Adapters[t]
  /\ IF t \in Active
     THEN nested' = FALSE /\ UNCHANGED <<saved, baseline>>
     ELSE /\ saved' = Append(saved, [task |-> t, flags |-> trainable])
          /\ baseline' = IF saved = <<>> THEN trainable ELSE baseline
          /\ nested' = (nested \/ saved = <<>>)

\* Mutant of Reapplied: releasing one task unmasks the others.
NotReapplied(flags, rest) == flags

\* The masks are applied one over the other: what is left is that of the task isolated
\* last.
Reapplied(flags, rest) == IF rest = <<>> THEN flags ELSE Adapters[Last(rest).task]

Release(t) ==
  \E i \in DOMAIN saved :
    /\ saved[i].task = t
    /\ saved' = RemoveAt(saved, i)
    /\ trainable' = Reapplied(saved[i].flags, saved')
    /\ nested' = (nested /\ i = Len(saved))
    /\ UNCHANGED baseline

\* Between tasks the trainer freezes and thaws what it likes.
SetFlags ==
  /\ saved = <<>> /\ trainable' \in SUBSET Params
  /\ baseline' = trainable' /\ nested' = TRUE /\ UNCHANGED saved

IsolationNext == SetFlags \/ \E t \in Tasks : Isolate(t) \/ Release(t)

IsolationSpec == IsolationInit /\ [][IsolationNext]_isolationVars

-----------------------------------------------------------------------------
(* Properties                                                              *)

IsolationTypeOK == trainable \subseteq Params /\ baseline \subseteq Params /\ Active \subseteq Tasks

\* While tasks are active, what may move is what one of them owns; and when the last one
\* is released, the model is as it was before the first, if they were released in the
\* reverse of their order.
TasksIsolated ==
  IF saved # <<>> THEN \E t \in Active : trainable = Adapters[t]
  ELSE nested => trainable = baseline
=============================================================================
