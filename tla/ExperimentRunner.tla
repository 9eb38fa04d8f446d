-------------------------- MODULE ExperimentRunner --------------------------
(***************************************************************************)
(* cadgenesis.autonomous_research.runner.AutomatedExperimentRunner: runs   *)
(* of one experiment graph on a thread pool, and the calls that cancel,    *)
(* pause and resume them.  The graph (experiment_planner.ExperimentGraph)  *)
(* is whatever its makers left: edges come from add_edge(), dependencies   *)
(* from the edges and from the constructors of the nodes, and either may   *)
(* name ids that are no nodes.  Nothing edits it during a run.             *)
(*                                                                         *)
(* The control calls hold self._lock; the worker that runs a graph never   *)
(* takes it, and both sides write execution.status.  A step is therefore   *)
(* what happens between two accesses to that field, or between two calls   *)
(* of a node's function and the checkpoint writer.                         *)
(***************************************************************************)
EXTENDS Naturals, Sequences, FiniteSets, SequencesExt

CONSTANTS
  Runs,       \* the executions
  NodeIds,    \* the ids of nodes, and others
  Graphs,     \* graphs: nodes, edges, and the dependencies each constructor was given
  None,       \* no id of a node
  MaxWorkers, \* max_workers of the pool
  MaxControl  \* bound: calls of cancel, pause and resume

ASSUME GraphAssumption ==
  /\ Graphs \subseteq [nodes : SUBSET NodeIds, edges : SUBSET (NodeIds \X NodeIds),
                     declared : [NodeIds -> SUBSET NodeIds]]
  /\ IsFiniteSet(NodeIds) /\ None \notin NodeIds
ASSUME BoundAssumption == MaxWorkers \in Nat \ {0} /\ MaxControl \in Nat

VARIABLES
  graph,       \* the graph that is run
  status,      \* execution.status; "none" before run_experiment()
  future,      \* the future in the pool
  handle,      \* metadata["future"] is set
  resume,      \* the argument resume_from, None for one that names no node
  pc,          \* where the worker is in _run_graph
  order,       \* what get_execution_order() returned
  at,          \* its position in the order
  node,        \* node_status
  inputs,      \* the keys of the inputs of the node at that position
  results,     \* the keys of node_results
  checkpoints, \* the keys of checkpoints
  errors,      \* the keys of node_errors
  ctl,         \* the control call that holds self._lock
  calls,       \* control calls made
  touched      \* ghost: the executions a control call was made for

vars == <<graph, status, future, handle, resume, pc, order, at, node, inputs, results,
          checkpoints, errors, ctl, calls, touched>>
progress == <<order, at, node, inputs, results, checkpoints, errors>>
control == <<ctl, calls, touched>>

Status == {"pending", "running", "completed", "failed", "cancelled", "paused"}
Idle == [op |-> "idle", run |-> None]

\* The ids that an edge leads from to n; add_edge() makes them dependencies too.
Predecessors(n) == {e[1] : e \in {f \in graph.edges : f[2] = n}}
Dependencies(n) == graph.declared[n] \cup Predecessors(n)

\* What Kahn's algorithm may list: ids with an edge, each after its predecessors, until
\* every id that is left has a predecessor that is left.
EdgeIds == {e[1] : e \in graph.edges} \cup {e[2] : e \in graph.edges}
Listings ==
  {o \in SeqOf(EdgeIds, Cardinality(EdgeIds)) :
     /\ IsInjective(o)
     /\ \A i \in DOMAIN o : Predecessors(o[i]) \subseteq {o[j] : j \in 1 .. (i - 1)}
     /\ \A n \in EdgeIds : Predecessors(n) \subseteq Range(o) => n \in Range(o)}

Init ==
  /\ graph \in Graphs
  /\ status = [x \in Runs |-> "none"]
  /\ future = [x \in Runs |-> "none"]
  /\ handle = [x \in Runs |-> FALSE]
  /\ resume = [x \in Runs |-> None]
  /\ pc = [x \in Runs |-> "idle"]
  /\ order = [x \in Runs |-> <<>>]
  /\ at = [x \in Runs |-> 1]
  /\ node = [x \in Runs |-> [n \in NodeIds |-> "new"]]
  /\ inputs = [x \in Runs |-> {}]
  /\ results = [x \in Runs |-> {}]
  /\ checkpoints = [x \in Runs |-> {}]
  /\ errors = [x \in Runs |-> {}]
  /\ ctl = Idle /\ calls = 0 /\ touched = {}

Set(x, s) == status' = [status EXCEPT ![x] = s]
Goto(x, l) == pc' = [pc EXCEPT ![x] = l]

-----------------------------------------------------------------------------
(* run_experiment                                                          *)

\* The execution is listed before the pool has it.
Register(x) ==
  /\ status[x] = "none" /\ ctl = Idle
  /\ Set(x, "pending")
  /\ \E n \in graph.nodes \cup {None} : resume' = [resume EXCEPT ![x] = n]
  /\ UNCHANGED <<future, handle, pc, graph, progress, control>>

Submit(x) ==
  /\ status[x] # "none" /\ future[x] = "none"
  /\ future' = [future EXCEPT ![x] = "queued"]
  /\ UNCHANGED <<status, handle, resume, pc, graph, progress, control>>

KeepFuture(x) ==
  /\ future[x] # "none" /\ ~handle[x]
  /\ handle' = [handle EXCEPT ![x] = TRUE]
  /\ UNCHANGED <<status, future, resume, pc, graph, progress, control>>

-----------------------------------------------------------------------------
(* _run_graph                                                              *)

\* A free worker of the pool takes the task.
Take(x) ==
  /\ future[x] = "queued"
  /\ Cardinality({y \in Runs : future[y] = "running"}) < MaxWorkers
  /\ future' = [future EXCEPT ![x] = "running"]
  /\ Goto(x, "begin")
  /\ UNCHANGED <<status, handle, resume, graph, progress, control>>

Begin(x) ==
  /\ pc[x] = "begin"
  /\ Set(x, "running")
  /\ Goto(x, "order")
  /\ UNCHANGED <<future, handle, resume, graph, progress, control>>

\* The position after resume_from, if that node has a checkpoint here.
StartIndex(x, o) ==
  IF resume[x] \in checkpoints[x] \cap Range(o)
  THEN 1 + CHOOSE i \in DOMAIN o : o[i] = resume[x] ELSE 1

\* As many ids are listed as there are nodes: nothing else is compared.
OrderFound(x) ==
  /\ pc[x] = "order"
  /\ \E o \in Listings :
       /\ Len(o) = Cardinality(graph.nodes)
       /\ order' = [order EXCEPT ![x] = o]
       /\ at' = [at EXCEPT ![x] = StartIndex(x, o)]
  /\ Goto(x, "test")
  /\ UNCHANGED <<status, future, handle, resume, graph, node, inputs, results, checkpoints,
                 errors, control>>

\* The exception reaches the outer handler.
RunFails(x) ==
  /\ Set(x, "failed")
  /\ future' = [future EXCEPT ![x] = "finished"]
  /\ Goto(x, "over")
  /\ UNCHANGED <<handle, resume, graph, progress, control>>

\* get_execution_order() raises: a circle, or a node without an edge.
OrderFails(x) ==
  /\ pc[x] = "order"
  /\ \E o \in Listings : Len(o) # Cardinality(graph.nodes)
  /\ RunFails(x)

Current(x) == order[x][at[x]]

\* The head of the loop: the order is done, or a cancel is noticed.
LoopEnds(x) ==
  /\ pc[x] = "test"
  /\ at[x] > Len(order[x]) \/ status[x] = "cancelled"
  /\ Goto(x, "end")
  /\ UNCHANGED <<status, future, handle, resume, graph, progress, control>>

\* An id of the order is no node: graph.nodes[node_id] is a KeyError.
NodeUnknown(x) ==
  /\ pc[x] = "test" /\ at[x] <= Len(order[x]) /\ status[x] # "cancelled"
  /\ Current(x) \notin graph.nodes
  /\ RunFails(x)

\* Mutant of NodeStarts: a pause holds the loop.
NodeStartsRunning(x) ==
  /\ pc[x] = "test" /\ at[x] <= Len(order[x]) /\ status[x] = "running"
  /\ Current(x) \in graph.nodes
  /\ node' = [node EXCEPT ![x][Current(x)] = "running"]
  /\ inputs' = [inputs EXCEPT ![x] = Dependencies(Current(x)) \cap results[x]]
  /\ Goto(x, "call")
  /\ UNCHANGED <<status, future, handle, resume, graph, order, at, results, checkpoints,
                 errors, control>>

\* A dependency without a result is passed over.
NodeStarts(x) ==
  /\ pc[x] = "test" /\ at[x] <= Len(order[x]) /\ status[x] # "cancelled"
  /\ Current(x) \in graph.nodes
  /\ node' = [node EXCEPT ![x][Current(x)] = "running"]
  /\ inputs' = [inputs EXCEPT ![x] = Dependencies(Current(x)) \cap results[x]]
  /\ Goto(x, "call")
  /\ UNCHANGED <<status, future, handle, resume, graph, order, at, results, checkpoints,
                 errors, control>>

NodeReturns(x) ==
  /\ pc[x] = "call"
  /\ node' = [node EXCEPT ![x][Current(x)] = "completed"]
  /\ results' = [results EXCEPT ![x] = @ \cup {Current(x)}]
  /\ Goto(x, "save")
  /\ UNCHANGED <<status, future, handle, resume, graph, order, at, inputs, checkpoints, errors,
                 control>>

CheckpointSaved(x) ==
  /\ pc[x] = "save"
  /\ checkpoints' = [checkpoints EXCEPT ![x] = @ \cup {Current(x)}]
  /\ at' = [at EXCEPT ![x] = @ + 1]
  /\ Goto(x, "test")
  /\ UNCHANGED <<status, future, handle, resume, graph, order, node, inputs, results, errors,
                 control>>

\* Mutant of NodeFails: the loop goes on after the failed node.
NodeFailsOnly(x) ==
  /\ pc[x] \in {"call", "save"}
  /\ node' = [node EXCEPT ![x][Current(x)] = "failed"]
  /\ errors' = [errors EXCEPT ![x] = @ \cup {Current(x)}]
  /\ Set(x, "failed")
  /\ at' = [at EXCEPT ![x] = @ + 1]
  /\ Goto(x, "test")
  /\ UNCHANGED <<future, handle, resume, graph, order, inputs, results, checkpoints, control>>

\* There is no function for the node's type, it raises, or saving its checkpoint does.
NodeFails(x) ==
  /\ pc[x] \in {"call", "save"}
  /\ node' = [node EXCEPT ![x][Current(x)] = "failed"]
  /\ errors' = [errors EXCEPT ![x] = @ \cup {Current(x)}]
  /\ Set(x, "failed")
  /\ Goto(x, "end")
  /\ UNCHANGED <<future, handle, resume, graph, order, at, inputs, results, checkpoints, control>>

\* Mutant of End: the status is not looked at.
EndCompleted(x) ==
  /\ pc[x] = "end"
  /\ Set(x, "completed")
  /\ future' = [future EXCEPT ![x] = "finished"]
  /\ Goto(x, "over")
  /\ UNCHANGED <<handle, resume, graph, progress, control>>

\* Whatever is not FAILED becomes COMPLETED.
End(x) ==
  /\ pc[x] = "end"
  /\ IF status[x] = "failed" THEN UNCHANGED status ELSE Set(x, "completed")
  /\ future' = [future EXCEPT ![x] = "finished"]
  /\ Goto(x, "over")
  /\ UNCHANGED <<handle, resume, graph, progress, control>>

-----------------------------------------------------------------------------
(* cancel_execution, pause_execution, resume_execution: the first step tests *)
(* or writes the status under the lock, the second one writes or cancels.    *)

Control(x, op) ==
  /\ ctl = Idle /\ status[x] # "none" /\ calls < MaxControl
  /\ ctl' = [op |-> op, run |-> x]
  /\ calls' = calls + 1 /\ touched' = touched \cup {x}
  /\ UNCHANGED <<future, handle, resume, pc, graph, progress>>

Cancel(x) == Control(x, "cancel") /\ Set(x, "cancelled")
Pause(x) == status[x] = "running" /\ Control(x, "pause") /\ UNCHANGED status
Resume(x) == status[x] = "paused" /\ Control(x, "resume") /\ UNCHANGED status

Return == ctl' = Idle /\ UNCHANGED <<handle, resume, pc, graph, progress, calls, touched>>

\* future.cancel(): only a task that no worker has taken is cancelled.
CancelFuture ==
  /\ ctl.op = "cancel"
  /\ future' = [future EXCEPT ![ctl.run] =
                  IF handle[ctl.run] /\ @ = "queued" THEN "cancelled" ELSE @]
  /\ UNCHANGED status
  /\ Return

SetPaused == ctl.op = "pause" /\ Set(ctl.run, "paused") /\ UNCHANGED future /\ Return
SetResumed == ctl.op = "resume" /\ Set(ctl.run, "running") /\ UNCHANGED future /\ Return

-----------------------------------------------------------------------------

Work(x) ==
  \/ Submit(x) \/ KeepFuture(x) \/ Take(x) \/ Begin(x) \/ OrderFound(x) \/ OrderFails(x)
  \/ LoopEnds(x) \/ NodeUnknown(x) \/ NodeStarts(x) \/ NodeReturns(x) \/ CheckpointSaved(x)
  \/ NodeFails(x) \/ End(x)

Next ==
  \/ \E x \in Runs : Register(x) \/ Work(x) \/ Cancel(x) \/ Pause(x) \/ Resume(x)
  \/ CancelFuture \/ SetPaused \/ SetResumed

Spec == Init /\ [][Next]_vars
\* The pool's threads and the caller are scheduled, and node functions end.
FairSpec == Spec /\ \A x \in Runs : WF_vars(Work(x))

-----------------------------------------------------------------------------
(* Properties                                                              *)

TypeOK ==
  /\ graph \in Graphs
  /\ status \in [Runs -> Status \cup {"none"}]
  /\ future \in [Runs -> {"none", "queued", "running", "finished", "cancelled"}]
  /\ handle \in [Runs -> BOOLEAN]
  /\ resume \in [Runs -> NodeIds \cup {None}]
  /\ pc \in [Runs -> {"idle", "begin", "order", "test", "call", "save", "end", "over"}]
  /\ order \in [Runs -> Seq(NodeIds)]
  /\ at \in [Runs -> Nat] /\ \A x \in Runs : at[x] \in 1 .. (Len(order[x]) + 1)
  /\ node \in [Runs -> [NodeIds -> {"new", "running", "completed", "failed"}]]
  /\ {inputs, results, checkpoints, errors} \subseteq [Runs -> SUBSET NodeIds]
  /\ ctl \in [op : {"idle", "cancel", "pause", "resume"}, run : Runs \cup {None}]
  /\ calls \in 0 .. MaxControl
  /\ touched \subseteq Runs

\* A node is called with the results of every node that an edge leads from, whatever
\* failed or was cancelled before: it gets fewer inputs than it has dependencies only if
\* its constructor was given one that no edge orders, and that one has no result yet.
InputsComplete ==
  \A x \in Runs : pc[x] = "call" =>
    /\ Predecessors(Current(x)) \subseteq inputs[x]
    /\ inputs[x] \subseteq checkpoints[x]
    /\ \A n \in Dependencies(Current(x)) \ inputs[x] : node[x][n] # "completed"

\* Between two nodes the completed nodes are those with a checkpoint; a node that
\* failed has none, although its result may be kept.
CheckpointsMatch ==
  \A x \in Runs :
    /\ checkpoints[x] \subseteq results[x]
    /\ pc[x] # "save" => checkpoints[x] = {n \in NodeIds : node[x][n] = "completed"}
    /\ checkpoints[x] \cap errors[x] = {}

\* Both: what a node is given is there, and what it leaves is recorded.
NodesGrounded == InputsComplete /\ CheckpointsMatch

\* A run that nobody cancelled, paused or resumed ends COMPLETED if all its nodes have a
\* checkpoint and none failed, and FAILED otherwise (a graph has a node); and whatever the
\* worker and the control calls wrote, one that was cancelled in the queue never ran and
\* stays CANCELLED.
OutcomeIsTrue ==
  \A x \in Runs :
    /\ x \notin touched /\ pc[x] = "over" /\ graph.nodes # {} =>
         status[x] = IF checkpoints[x] = graph.nodes /\ errors[x] = {} THEN "completed" ELSE "failed"
    /\ future[x] = "cancelled" => status[x] = "cancelled" /\ \A n \in NodeIds : node[x][n] = "new"

\* Every run ends, or was cancelled in the queue: PAUSED holds nothing back.
EveryRunEnds ==
  \A x \in Runs : status[x] # "none" ~> pc[x] = "over" \/ future[x] = "cancelled"
=============================================================================
