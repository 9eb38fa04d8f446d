---------------------------- MODULE DagScheduler ----------------------------
(***************************************************************************)
(* cadgenesis.agents.scheduling: a TaskGraph and DAGScheduler.run() on it. *)
(*                                                                         *)
(* run() takes the ready tasks as one batch, reads the clock once, and     *)
(* executes the batch by priority in the caller's thread; what a task of   *)
(* the batch makes ready waits for the next one.  An attempt is the        *)
(* client's execute_fn, which may succeed, report failure or raise, and    *)
(* takes time.                                                             *)
(***************************************************************************)
EXTENDS Integers, FiniteSets

CONSTANTS
  Tasks,           \* the task ids, numbers as the code breaks ties by id
  Priorities,
  Deadlines,       \* the deadlines a task may have, as points of the clock
  DefaultRetries,  \* the scheduler's, for a task whose own count is 0
  MaxDeps,         \* bound: dependencies in the graph
  MaxClock,        \* bound: the clock
  MaxRuns          \* bound: calls of run() on the graph

ASSUME SchedulerAssumption ==
  /\ Tasks \subseteq Int
  /\ Priorities \subseteq Int /\ 0 \in Priorities /\ Deadlines \subseteq Nat /\ DefaultRetries \in Nat
  /\ MaxDeps \in Nat /\ MaxClock \in Nat /\ MaxRuns \in Nat

VARIABLES
  nodes,      \* the tasks in the graph
  deps,       \* pairs of a task and one it depends on
  repeated,   \* the tasks whose depends_on names one task twice
  prio, deadline,
  taskStatus, attempts,
  pending,    \* run()'s set of tasks it has not come to
  batch,      \* what is left of the ready tasks it is going through
  batchTime,  \* the clock as it was read for the batch
  clock,
  phase,      \* what run() does
  runs,
  lateSkip    \* ghost: the tasks skipped for their deadline

graphVars == <<nodes, deps, repeated, prio, deadline>>
runVars == <<taskStatus, attempts, pending, batch, batchTime, clock, phase, runs, lateSkip>>
schedVars == <<graphVars, runVars>>

NoDeadline == -1
Statuses == {"pending", "running", "completed", "failed", "skipped"}
Phases == {"idle", "choosing", "attempting", "refused", "returned"}

SchedInit ==
  /\ nodes = {} /\ deps = {} /\ repeated = {}
  /\ prio = [t \in Tasks |-> 0] /\ deadline = [t \in Tasks |-> NoDeadline]
  /\ taskStatus = [t \in Tasks |-> "pending"] /\ attempts = [t \in Tasks |-> 0]
  /\ pending = {} /\ batch = {} /\ batchTime = 0 /\ clock = 0
  /\ phase = "idle" /\ runs = 0 /\ lateSkip = {}

-----------------------------------------------------------------------------
(* TaskGraph                                                               *)

DepsOf(t) == {d \in nodes : <<t, d>> \in deps}

\* add(): a task may depend on those that are there, and on itself.
Add ==
  \E t \in Tasks \ nodes : \E ds \in SUBSET (nodes \cup {t}) :
    /\ phase = "idle" /\ Cardinality(deps) + Cardinality(ds) <= MaxDeps
    /\ nodes' = nodes \cup {t} /\ deps' = deps \cup {<<t, d>> : d \in ds}
    /\ repeated' \in {repeated, IF ds = {} THEN repeated ELSE repeated \cup {t}}
    /\ \E p \in Priorities : prio' = [prio EXCEPT ![t] = p]
    /\ \E l \in Deadlines \cup {NoDeadline} : deadline' = [deadline EXCEPT ![t] = l]
    /\ UNCHANGED runVars

AddDependency ==
  \E t \in nodes, d \in nodes :
    /\ phase = "idle" /\ Cardinality(deps) < MaxDeps
    /\ deps' = deps \cup {<<t, d>>}
    /\ UNCHANGED <<nodes, repeated, prio, deadline, runVars>>

\* is_acyclic(), round by round.  The count of a task starts at the length of its list
\* and goes down once for each task in it, so that it never gets to zero if the list
\* names a task twice.
Processed[n \in Nat] ==
  IF n = 0 THEN {}
  ELSE {t \in nodes : t \notin repeated /\ DepsOf(t) \subseteq Processed[n - 1]}

IsAcyclic == Processed[Cardinality(nodes)] = nodes

\* ready_nodes()
Ready == {t \in pending : /\ taskStatus[t] = "pending"
                          /\ \A d \in DepsOf(t) : taskStatus[d] = "completed"}

\* The sort key (-priority, task_id).
Before(s, t) == prio[s] > prio[t] \/ (prio[s] = prio[t] /\ s < t)
IsNext(t) == t \in batch /\ \A s \in batch \ {t} : Before(t, s)

MaxAttempts == 1 + DefaultRetries

\* run() refuses a graph that is_acyclic() refuses.
Refuse ==
  /\ phase \in {"idle", "returned"} /\ ~IsAcyclic
  /\ phase' = "refused"
  /\ UNCHANGED <<graphVars, taskStatus, attempts, pending, batch, batchTime, clock, runs, lateSkip>>

\* Mutant of Start: a second run keeps the results of the first.
StartAgain ==
  /\ phase \in {"idle", "returned"} /\ IsAcyclic /\ runs < MaxRuns
  /\ pending' = nodes
  /\ phase' = "choosing" /\ runs' = runs + 1
  /\ UNCHANGED <<graphVars, taskStatus, attempts, batch, batchTime, clock, lateSkip>>

Start ==
  /\ phase \in {"idle", "returned"} /\ IsAcyclic /\ runs < MaxRuns
  /\ taskStatus' = [t \in Tasks |-> "pending"] /\ attempts' = [t \in Tasks |-> 0]
  /\ pending' = nodes /\ lateSkip' = {}
  /\ phase' = "choosing" /\ runs' = runs + 1
  /\ UNCHANGED <<graphVars, batch, batchTime, clock>>

ReadBatch ==
  /\ phase = "choosing" /\ batch = {} /\ Ready # {}
  /\ batch' = Ready /\ batchTime' = clock
  /\ UNCHANGED <<graphVars, taskStatus, attempts, pending, clock, phase, runs, lateSkip>>

\* Mutant of SkipRest: the loop is not left.
SkipRestKept ==
  /\ phase = "choosing" /\ batch = {} /\ pending # {} /\ Ready = {}
  /\ taskStatus' = [t \in Tasks |-> IF t \in pending THEN "skipped" ELSE taskStatus[t]]
  /\ UNCHANGED <<graphVars, attempts, pending, batch, batchTime, clock, phase, runs, lateSkip>>

\* Nothing is ready: what is left is skipped.
SkipRest ==
  /\ phase = "choosing" /\ batch = {} /\ pending # {} /\ Ready = {}
  /\ taskStatus' = [t \in Tasks |-> IF t \in pending THEN "skipped" ELSE taskStatus[t]]
  /\ pending' = {}
  /\ UNCHANGED <<graphVars, attempts, batch, batchTime, clock, phase, runs, lateSkip>>

IsLate(t) == deadline[t] # NoDeadline /\ batchTime > deadline[t]

Taken(t) == batch' = batch \ {t} /\ pending' = pending \ {t}

SkipLate ==
  \E t \in batch :
    /\ phase = "choosing" /\ IsNext(t) /\ IsLate(t)
    /\ Taken(t)
    /\ taskStatus' = [taskStatus EXCEPT ![t] = "skipped"] /\ lateSkip' = lateSkip \cup {t}
    /\ UNCHANGED <<graphVars, attempts, batchTime, clock, phase, runs>>

StartNode ==
  \E t \in batch :
    /\ phase = "choosing" /\ IsNext(t) /\ ~IsLate(t)
    /\ Taken(t)
    /\ taskStatus' = [taskStatus EXCEPT ![t] = "running"]
    /\ phase' = "attempting"
    /\ UNCHANGED <<graphVars, attempts, batchTime, clock, runs, lateSkip>>

\* The task _run_node() is at: its status is "failed" between two attempts.
Current(t) == phase = "attempting" /\ t \notin pending /\ 
              (taskStatus[t] = "running" \/ (taskStatus[t] = "failed" /\ attempts[t] < MaxAttempts))

Attempted(t, status, next) ==
  /\ attempts' = [attempts EXCEPT ![t] = @ + 1]
  /\ taskStatus' = [taskStatus EXCEPT ![t] = status]
  /\ phase' = next
  /\ UNCHANGED <<graphVars, pending, batch, batchTime, clock, runs, lateSkip>>

AttemptSucceeds == \E t \in Tasks : Current(t) /\ Attempted(t, "completed", "choosing")

\* The task reports failure or raises: another attempt while there are some left.
AttemptFails ==
  \E t \in Tasks :
    /\ Current(t)
    /\ Attempted(t, "failed", IF attempts[t] + 1 < MaxAttempts THEN "attempting" ELSE "choosing")

Return ==
  /\ phase = "choosing" /\ pending = {} /\ batch = {}
  /\ phase' = "returned"
  /\ UNCHANGED <<graphVars, taskStatus, attempts, pending, batch, batchTime, clock, runs, lateSkip>>

\* Time passes while a task is executed.
Tick ==
  /\ phase = "attempting" /\ clock < MaxClock
  /\ clock' = clock + 1
  /\ UNCHANGED <<graphVars, taskStatus, attempts, pending, batch, batchTime, phase, runs, lateSkip>>

\* What run() does by itself once it was called.
Work == ReadBatch \/ SkipRest \/ SkipLate \/ StartNode \/ AttemptSucceeds \/ AttemptFails \/ Return

SchedNext == Add \/ AddDependency \/ Refuse \/ Start \/ Work \/ Tick

SchedSpec == SchedInit /\ [][SchedNext]_schedVars

-----------------------------------------------------------------------------
(* Properties                                                              *)

SchedTypeOK ==
  /\ nodes \subseteq Tasks /\ deps \subseteq nodes \X nodes /\ repeated \subseteq nodes
  /\ prio \in [Tasks -> Priorities]
  /\ deadline \in [Tasks -> Deadlines \cup {NoDeadline}]
  /\ taskStatus \in [Tasks -> Statuses] /\ attempts \in [Tasks -> Nat]
  /\ batch \subseteq pending /\ pending \subseteq nodes
  /\ batchTime \in 0 .. clock /\ clock \in 0 .. MaxClock
  /\ phase \in Phases /\ runs \in 0 .. MaxRuns
  /\ lateSkip \subseteq nodes

Met(t) == \A d \in DepsOf(t) : taskStatus[d] = "completed"

\* The outcome of every task that run() is through with has its reason: it was executed
\* only with all its dependencies completed, it succeeded within its attempts or failed
\* after all of them, and it was skipped only for its deadline or because a dependency
\* did not complete.
OutcomeExplained ==
  phase \in {"choosing", "returned"} =>
    \A t \in nodes \ pending :
      \/ taskStatus[t] = "completed" /\ Met(t) /\ attempts[t] \in 1 .. MaxAttempts
      \/ taskStatus[t] = "failed" /\ Met(t) /\ attempts[t] = MaxAttempts
      \/ taskStatus[t] = "skipped" /\ attempts[t] = 0 /\ (t \in lateSkip => Met(t))
                                   /\ (t \notin lateSkip => ~Met(t))
=============================================================================
