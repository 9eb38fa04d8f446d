------------------------- MODULE WorkflowOrchestrator -------------------------
(***************************************************************************)
(* One run of the engineering workflow (autonomous_platform/orchestrator): *)
(* the stages are put in dependency order by Kahn's algorithm and executed *)
(* one after the other, while other threads register stages and pause or   *)
(* resume the run.  The worker takes no lock.                              *)
(***************************************************************************)
EXTENDS Integers, Sequences, SequencesExt, FiniteSets, Lists

CONSTANTS
  Known,        \* stages that may be named
  Defaults,     \* sequence of the stages registered before the run
  MaxRegister   \* bound: calls of register_stage() during the run

ASSUME WorkflowAssumption ==
  /\ IsFiniteSet(Known)
  /\ Defaults \in Seq(Known) /\ IsInjective(Defaults)
  /\ MaxRegister \in Nat

Configs == [deps : SUBSET Known, required : BOOLEAN]
Unregistered == [deps |-> {}, required |-> FALSE]

VARIABLES
  names, config,          \* _stages: its keys in order of insertion, and their settings
  listed, needs,          \* what the worker read of them when it built its graph
  degree, queue, order,   \* Kahn's algorithm
  position, running,      \* the stage that is executed, and its settings when it began
  results, errors,        \* stage_results ("ok" or "skipped") and the keys of stage_errors
  checkpoints,            \* for each checkpoint, the stages whose results it copied
  status, phase,
  control,                \* pause_workflow() or resume_workflow(), after its test
  registers

stagesVars == <<names, config, registers>>
graphVars == <<listed, needs>>
kahnVars == <<degree, queue, order>>
stageVars == <<position, running, results, errors, checkpoints>>
workflowVars == <<stagesVars, graphVars, kahnVars, stageVars, status, phase, control>>

Set(s) == {s[i] : i \in DOMAIN s}
With(f, k, v) == [j \in DOMAIN f \cup {k} |-> IF j = k THEN v ELSE f[j]]

WorkflowInit ==
  /\ names = Defaults
  /\ config \in [Known -> Configs]
  /\ \A s \in Known \ Set(names) : config[s] = Unregistered
  /\ listed = <<>> /\ needs = [s \in Known |-> {}]
  /\ degree = [s \in Known |-> 0] /\ queue = <<>> /\ order = <<>>
  /\ position = 1 /\ running = Unregistered
  /\ results = <<>> /\ errors = {} /\ checkpoints = <<>>
  /\ status = "running" /\ phase = "build" /\ control = "idle"
  /\ registers = 0

-----------------------------------------------------------------------------
(* _get_execution_order                                                    *)

Degrees == [s \in Known |-> IF s \in Set(names) THEN Cardinality(config[s].deps) ELSE 0]

BuildGraph ==
  /\ phase = "build"
  /\ listed' = names
  /\ needs' = [s \in Known |-> IF s \in Set(names) THEN config[s].deps ELSE {}]
  /\ degree' = Degrees
  /\ queue' = Filtered(names, {s \in Known : Degrees[s] = 0})
  /\ phase' = "sort"
  /\ UNCHANGED <<stagesVars, order, stageVars, status, control>>

\* (Mutant: a stage is freed when one of its dependencies is still missing.)
FreedEarly(s) == Filtered(listed, {n \in Known : s \in needs[n] /\ degree[n] \in {1, 2}})

\* The stages whose last missing dependency is s.
Freed(s) == Filtered(listed, {n \in Known : s \in needs[n] /\ degree[n] = 1})

PopStage ==
  /\ phase = "sort" /\ queue # <<>>
  /\ LET s == Head(queue) IN
       /\ order' = Append(order, s)
       /\ degree' = [n \in Known |-> IF s \in needs[n] THEN degree[n] - 1 ELSE degree[n]]
       /\ queue' = Tail(queue) \o Freed(s)
  /\ UNCHANGED <<stagesVars, graphVars, stageVars, status, phase, control>>

\* The order is compared with the stages registered by now: one that came too late
\* for the graph counts as a circle.
OrderFound ==
  /\ phase = "sort" /\ queue = <<>> /\ Len(order) = Len(names)
  /\ phase' = "stage"
  /\ UNCHANGED <<stagesVars, graphVars, kahnVars, stageVars, status, control>>

CircleFound ==
  /\ phase = "sort" /\ queue = <<>> /\ Len(order) # Len(names)
  /\ phase' = "raised"
  /\ UNCHANGED <<stagesVars, graphVars, kahnVars, stageVars, status, control>>

-----------------------------------------------------------------------------
(* _run_workflow                                                           *)

Stage == order[position]

ToNextStage == position' = position + 1 /\ phase' = "stage"

\* What the except clause does with settings c: an optional stage is skipped, a
\* required one ends the run, after _rollback() if the stage asks for it.
Failing(c) ==
  /\ errors' = errors \cup {Stage}
  /\ IF c.required
     THEN /\ status' \in {"failed", "rolled_back"}
          /\ phase' = "raised"
          /\ UNCHANGED <<results, position>>
     ELSE /\ results' = With(results, Stage, "skipped")
          /\ ToNextStage
          /\ UNCHANGED status
  /\ UNCHANGED checkpoints

\* The settings are read again: a stage registered anew may need what has not run.
StartStage ==
  /\ phase = "stage" /\ position <= Len(order)
  /\ running' = config[Stage]
  /\ IF running'.deps \subseteq DOMAIN results
     THEN phase' = "function" /\ UNCHANGED <<position, results, errors, checkpoints, status>>
     ELSE Failing(running')
  /\ UNCHANGED <<stagesVars, graphVars, kahnVars, control>>

FunctionReturns ==
  /\ phase = "function"
  /\ results' = With(results, Stage, "ok")
  /\ checkpoints' = With(checkpoints, Stage, DOMAIN results')
  /\ ToNextStage
  /\ UNCHANGED <<stagesVars, graphVars, kahnVars, running, errors, status, control>>

FunctionRaises ==
  /\ phase = "function"
  /\ Failing(running)
  /\ UNCHANGED <<stagesVars, graphVars, kahnVars, running, control>>

WorkflowCompletes ==
  /\ phase = "stage" /\ position > Len(order)
  /\ status' = "completed"
  /\ phase' = "done"
  /\ UNCHANGED <<stagesVars, graphVars, kahnVars, stageVars, control>>

\* The except clause of execute_workflow().
WorkflowFails ==
  /\ phase = "raised"
  /\ status' = "failed"
  /\ phase' = "done"
  /\ UNCHANGED <<stagesVars, graphVars, kahnVars, stageVars, control>>

-----------------------------------------------------------------------------
(* Other threads.                                                          *)

RegisterStage ==
  /\ registers < MaxRegister
  /\ registers' = registers + 1
  /\ \E s \in Known, c \in Configs :
       /\ names' = IF s \in Set(names) THEN names ELSE Append(names, s)
       /\ config' = [config EXCEPT ![s] = c]
  /\ UNCHANGED <<graphVars, kahnVars, stageVars, status, phase, control>>

\* Both calls test the status and set it under a lock that the worker does not take.
ControlTests ==
  /\ control = "idle"
  /\ \/ status = "running" /\ control' = "pausing"
     \/ status = "paused" /\ control' = "resuming"
  /\ UNCHANGED <<stagesVars, graphVars, kahnVars, stageVars, status, phase>>

ControlSets ==
  /\ control # "idle"
  /\ status' = IF control = "pausing" THEN "paused" ELSE "running"
  /\ control' = "idle"
  /\ UNCHANGED <<stagesVars, graphVars, kahnVars, stageVars, phase>>

WorkflowNext ==
  \/ BuildGraph \/ PopStage \/ OrderFound \/ CircleFound
  \/ StartStage \/ FunctionReturns \/ FunctionRaises
  \/ WorkflowCompletes \/ WorkflowFails
  \/ RegisterStage \/ ControlTests \/ ControlSets

WorkflowSpec == WorkflowInit /\ [][WorkflowNext]_workflowVars

WorkflowTypeOK ==
  /\ names \in Seq(Known) /\ config \in [Known -> Configs]
  /\ listed \in Seq(Known) /\ needs \in [Known -> SUBSET Known]
  /\ degree \in [Known -> Nat] /\ queue \in Seq(Known) /\ order \in Seq(Known)
  /\ position \in 1..(Len(order) + 1) /\ running \in Configs
  /\ \A s \in DOMAIN results : s \in Known /\ results[s] \in {"ok", "skipped"}
  /\ errors \subseteq Known /\ DOMAIN checkpoints \subseteq Known
  /\ status \in {"running", "completed", "failed", "paused", "rolled_back"}
  /\ phase \in {"build", "sort", "stage", "function", "raised", "done"}
  /\ control \in {"idle", "pausing", "resuming"}
  /\ registers \in 0..MaxRegister

\* The order puts a stage once and after all that it needs; the sort gives up only when
\* there is no such order, or when a stage came too late for its graph.
SortIsRight ==
  /\ IsInjective(order)
  /\ \A i \in DOMAIN order : needs[order[i]] \subseteq {order[j] : j \in 1..(i - 1)}
  /\ phase \in {"stage", "function"} => Set(order) = Set(listed)
  /\ (phase = "raised" /\ errors = {})
       => \/ names # listed
          \/ \E left \in SUBSET Set(listed) :
               left # {} /\ \A s \in left : needs[s] \cap (left \cup (Known \ Set(listed))) # {}

\* A workflow that reads COMPLETED has a result for every stage of its order, each a
\* checkpointed one or the note of an optional stage that failed; one that reads FAILED
\* never ran the stages that stand after the one it failed at.  A pause or resume that
\* lands after the end hides either, but makes neither out of the other.
OutcomeFitsStages ==
  /\ status = "completed" => DOMAIN results = Set(order)
  /\ \A s \in DOMAIN results :
       IF results[s] = "ok" THEN s \in DOMAIN checkpoints \ errors ELSE s \in errors
  /\ DOMAIN results = {order[i] : i \in 1..(position - 1)}
  /\ (status = "failed" /\ order # <<>> /\ Len(order) = Len(names) /\ registers = 0)
       => position <= Len(order) /\ Stage \in errors

\* Both: the stages ran in an order that is one, and the status tells how it ended.
CompletedMeansDone == SortIsRight /\ OutcomeFitsStages
=============================================================================
