--------------------------- MODULE ResearchProofs ---------------------------
(***************************************************************************)
(* Theorems about the way of an experiment: ExperimentRunner,              *)
(* PromotionPipeline and ApprovalPipeline, for any graph, any number of    *)
(* runs, of workers of the pool, of control calls, of stages, requests and *)
(* decisions.                                                              *)
(***************************************************************************)
EXTENDS ResearchLayer, ListProofs

-----------------------------------------------------------------------------
(* ExperimentRunner                                                        *)

\* The ids before the position of a run.
Done(x) == {order[x][j] : j \in 1 .. (at[x] - 1)}
Completed(x) == {n \in NodeIds : node[x][n] = "completed"}

Untouched(x) ==
  /\ at[x] = 1 /\ results[x] = {} /\ checkpoints[x] = {} /\ errors[x] = {}
  /\ \A n \in NodeIds : node[x][n] = "new"

\* What the worker has done when it stands at its place in _run_graph.
WorkerSound(x) ==
  /\ pc[x] \in {"idle", "begin", "order"} => Untouched(x)
  /\ pc[x] \in {"test", "call", "save"} =>
       /\ order[x] \in Listings /\ Len(order[x]) = Cardinality(graph.nodes)
       /\ errors[x] = {} /\ checkpoints[x] = Done(x) /\ Done(x) \subseteq graph.nodes
       /\ pc[x] # "test" => at[x] <= Len(order[x]) /\ Current(x) \in graph.nodes
  /\ pc[x] = "call" => inputs[x] = Dependencies(Current(x)) \cap results[x]
  /\ pc[x] \in {"test", "call"} => results[x] = Done(x) /\ Completed(x) = Done(x)
  /\ pc[x] = "save" => /\ results[x] = Done(x) \cup {Current(x)}
                       /\ Completed(x) = results[x]
  /\ pc[x] \in {"end", "over"} => /\ checkpoints[x] \subseteq results[x]
                                  /\ checkpoints[x] = Completed(x)
                                  /\ checkpoints[x] \cap errors[x] = {}

\* The status of a run that no control call was made for follows its worker.
StatusFollows(x) ==
  x \notin touched =>
    /\ pc[x] = "idle" => status[x] \in {"none", "pending"}
    /\ pc[x] \in {"order", "test", "call", "save"} => status[x] = "running"
    /\ pc[x] = "end" =>
         IF checkpoints[x] = graph.nodes /\ errors[x] = {} THEN status[x] # "failed"
                                                          ELSE status[x] = "failed"
    /\ pc[x] = "over" /\ graph.nodes # {} =>
         status[x] = IF checkpoints[x] = graph.nodes /\ errors[x] = {} THEN "completed" ELSE "failed"

\* A run that no worker has taken was not paused or resumed, and is cancelled first.
QueueSound(x) ==
  /\ pc[x] = "idle" <=> future[x] \in {"none", "queued", "cancelled"}
  /\ pc[x] = "idle" => status[x] \in {"none", "pending", "cancelled"}
  /\ status[x] = "none" => future[x] = "none"
  /\ future[x] = "cancelled" => status[x] = "cancelled"

ControlSound ==
  ctl.op # "idle" => /\ ctl.run \in touched
                     /\ pc[ctl.run] = "idle" => ctl.op = "cancel" /\ status[ctl.run] = "cancelled"

RunnerInv ==
  /\ TypeOK
  /\ \A x \in Runs : WorkerSound(x) /\ StatusFollows(x) /\ QueueSound(x)
  /\ ControlSound

\* An order lists ids with an edge, each once and after those an edge leads from.
LEMMA ListingFacts ==
  ASSUME graph \in Graphs, NEW o \in Listings
  PROVE  /\ o \in Seq(NodeIds) /\ Len(o) \in Nat /\ DOMAIN o = 1 .. Len(o) /\ Once(o)
         /\ \A i \in 1 .. Len(o) : o[i] \in NodeIds
         /\ \A i \in 1 .. Len(o) : Predecessors(o[i]) \subseteq {o[j] : j \in 1 .. (i - 1)}
<1>1. EdgeIds \subseteq NodeIds
  <2>1. graph.edges \subseteq NodeIds \X NodeIds
    BY GraphAssumption
  <2> QED
    BY <2>1 DEF EdgeIds
<1>2. o \in SeqOf(EdgeIds, Cardinality(EdgeIds)) /\ IsInjective(o)
      /\ \A i \in DOMAIN o : Predecessors(o[i]) \subseteq {o[j] : j \in 1 .. (i - 1)}
  BY DEF Listings
<1>3. PICK m \in 0 .. Cardinality(EdgeIds) : o \in [1 .. m -> EdgeIds]
  BY <1>2 DEF SeqOf
<1>4. IsFiniteSet(EdgeIds)
  BY <1>1, GraphAssumption, FS_Subset
<1>5. m \in Nat
  BY <1>3, <1>4, FS_CardinalityType
<1>6. o \in [1 .. m -> NodeIds]
  BY <1>1, <1>3
<1>7. o \in Seq(NodeIds) /\ Len(o) = m
  BY <1>5, <1>6 DEF Seq
<1> QED
  BY <1>2, <1>5, <1>6, <1>7 DEF IsInjective, Once

\* An order as long as there are nodes lists every node if it lists nothing else, and one
\* that lists something else has not listed every node before it comes to that.
LEMMA ListsAll ==
  ASSUME graph \in Graphs, NEW o \in Listings, Len(o) = Cardinality(graph.nodes)
  PROVE  /\ Members(o) \subseteq graph.nodes => Members(o) = graph.nodes
         /\ \A i \in 1 .. Len(o) : {o[j] : j \in 1 .. (i - 1)} # graph.nodes
<1>1. /\ o \in Seq(NodeIds) /\ Len(o) \in Nat /\ Once(o)
  BY ListingFacts
<1>2. IsFiniteSet(Members(o)) /\ Cardinality(Members(o)) = Len(o)
  BY <1>1, MembersCounted
<1>3. IsFiniteSet(graph.nodes)
  <2>1. graph.nodes \subseteq NodeIds
    BY GraphAssumption
  <2> QED
    BY <2>1, GraphAssumption, FS_Subset
<1>5. Members(o) \subseteq graph.nodes => Members(o) = graph.nodes
  BY <1>2, <1>3, FS_Subset
<1>6. ASSUME NEW i \in 1 .. Len(o), {o[j] : j \in 1 .. (i - 1)} = graph.nodes PROVE FALSE
  <2>1. graph.nodes \subseteq Members(o)
    BY <1>1, <1>6 DEF Members
  <2>2. Members(o) = graph.nodes
    BY <1>2, <2>1, FS_Subset
  <2>3. o[i] \in {o[j] : j \in 1 .. (i - 1)}
    BY <1>6, <2>2 DEF Members
  <2>4. PICK j \in 1 .. (i - 1) : o[j] = o[i]
    BY <2>3
  <2> QED
    BY <1>1, <2>4 DEF Once
<1> QED
  BY <1>5, <1>6

\* The ids before a position: one more with each position.
LEMMA DoneGrows ==
  ASSUME graph \in Graphs, NEW o \in Listings, NEW i \in 1 .. Len(o)
  PROVE  /\ {o[j] : j \in 1 .. i} = {o[j] : j \in 1 .. (i - 1)} \cup {o[i]}
         /\ o[i] \notin {o[j] : j \in 1 .. (i - 1)}
<1>1. i \in Nat /\ Len(o) \in Nat /\ i <= Len(o) /\ Once(o)
  BY ListingFacts
<1>2. 1 .. i = (1 .. (i - 1)) \cup {i} /\ \A j \in 1 .. (i - 1) : j \in 1 .. Len(o) /\ j # i
  BY <1>1
<1>3. QED
  BY <1>1, <1>2 DEF Once

\* The three parts of the invariant about one run.
RunSound(x) == WorkerSound(x) /\ StatusFollows(x) /\ QueueSound(x)

\* A run that a step leaves as it is stays sound.
LEMMA Elsewhere ==
  ASSUME NEW y \in Runs, RunSound(y), touched \subseteq touched', graph' = graph,
         order'[y] = order[y], inputs'[y] = inputs[y], status'[y] = status[y], future'[y] = future[y], pc'[y] = pc[y], at'[y] = at[y],
         node'[y] = node[y], results'[y] = results[y], checkpoints'[y] = checkpoints[y],
         errors'[y] = errors[y]
  PROVE  RunSound(y)'
<1>1. Done(y)' = Done(y) /\ Completed(y)' = Completed(y) /\ (Untouched(y)' <=> Untouched(y))
  BY DEF Done, Completed, Untouched
<1>5. Current(y)' = Current(y) /\ Dependencies(Current(y))' = Dependencies(Current(y))
      /\ Listings' = Listings
  BY DEF Current, Dependencies, Predecessors, Listings, EdgeIds
<1>2. WorkerSound(y)'
  BY <1>1, <1>5 DEF RunSound, WorkerSound
<1>3. StatusFollows(y)' /\ QueueSound(y)'
  BY DEF RunSound, StatusFollows, QueueSound
<1>4. QED
  BY <1>2, <1>3 DEF RunSound

LEMMA RunnerStart == Init => RunnerInv
<1> SUFFICES ASSUME Init PROVE RunnerInv
  OBVIOUS
<1>0. <<>> \in Seq(NodeIds) /\ Len(<<>>) = 0
  OBVIOUS
<1>1. TypeOK
  BY <1>0, BoundAssumption DEF Init, TypeOK, Idle, Status
<1>2. ASSUME NEW x \in Runs PROVE RunSound(x)
  BY DEF Init, RunSound, WorkerSound, StatusFollows, QueueSound, Untouched
<1>3. QED
  BY <1>1, <1>2 DEF Init, Idle, RunnerInv, ControlSound, RunSound

\* The parts of the type invariant, function by function.
LEMMA RunTypes ==
  ASSUME TypeOK
  PROVE  /\ status \in [Runs -> Status \cup {"none"}]
         /\ future \in [Runs -> {"none", "queued", "running", "finished", "cancelled"}]
         /\ graph \in Graphs /\ graph.nodes \subseteq NodeIds /\ order \in [Runs -> Seq(NodeIds)]
         /\ handle \in [Runs -> BOOLEAN] /\ resume \in [Runs -> NodeIds \cup {None}]
         /\ pc \in [Runs -> {"idle", "begin", "order", "test", "call", "save", "end", "over"}]
         /\ at \in [Runs -> Nat] /\ \A x \in Runs : at[x] \in 1 .. (Len(order[x]) + 1)
         /\ node \in [Runs -> [NodeIds -> {"new", "running", "completed", "failed"}]]
         /\ results \in [Runs -> SUBSET NodeIds] /\ checkpoints \in [Runs -> SUBSET NodeIds]
         /\ errors \in [Runs -> SUBSET NodeIds] /\ inputs \in [Runs -> SUBSET NodeIds]
<1>1. graph.nodes \subseteq NodeIds
  BY GraphAssumption DEF TypeOK
<1> QED
  BY <1>1 DEF TypeOK

\* A step of run_experiment or of its worker changes that run only.
LEMMA WorkerAlone ==
  ASSUME TypeOK, NEW x \in Runs, Register(x) \/ Work(x), NEW y \in Runs, y # x
  PROVE  /\ status'[y] = status[y] /\ future'[y] = future[y] /\ pc'[y] = pc[y] /\ at'[y] = at[y]
         /\ node'[y] = node[y] /\ results'[y] = results[y] /\ checkpoints'[y] = checkpoints[y]
         /\ errors'[y] = errors[y] /\ order'[y] = order[y] /\ inputs'[y] = inputs[y] /\ graph' = graph
<1> USE RunTypes DEF Set, Goto, progress
<1>1. CASE Register(x) \/ Submit(x) \/ KeepFuture(x) \/ Take(x)
  BY <1>1 DEF Register, Submit, KeepFuture, Take
<1>2. CASE Begin(x) \/ OrderFails(x) \/ LoopEnds(x) \/ NodeUnknown(x) \/ End(x)
  BY <1>2 DEF Begin, OrderFails, LoopEnds, NodeUnknown, RunFails, End
<1>8. CASE OrderFound(x)
  BY <1>8 DEF OrderFound
<1>3. CASE NodeStarts(x)
  BY <1>3 DEF NodeStarts
<1>4. CASE NodeReturns(x)
  BY <1>4 DEF NodeReturns
<1>5. CASE CheckpointSaved(x)
  BY <1>5 DEF CheckpointSaved
<1>6. CASE NodeFails(x)
  BY <1>6 DEF NodeFails
<1>7. QED
  BY <1>1, <1>2, <1>3, <1>4, <1>5, <1>6, <1>8 DEF Work

\* A run that stands at a position stands at an id it has not come to before.
LEMMA AtNode ==
  ASSUME RunnerInv, NEW x \in Runs, pc[x] \in {"test", "call", "save"}, at[x] <= Len(order[x])
  PROVE  /\ order[x] \in Listings /\ Len(order[x]) \in Nat /\ at[x] \in 1 .. Len(order[x])
         /\ Current(x) \in NodeIds /\ Current(x) \notin Done(x)
         /\ Predecessors(Current(x)) \subseteq Done(x)
<1>0. graph \in Graphs /\ order[x] \in Listings /\ at[x] \in 1 .. (Len(order[x]) + 1)
  BY DEF RunnerInv, TypeOK, WorkerSound
<1>1. Len(order[x]) \in Nat /\ at[x] \in 1 .. Len(order[x])
  BY <1>0, ListingFacts
<1>2. QED
  BY <1>0, <1>1, ListingFacts, DoneGrows DEF Done, Current

LEMMA SubmitStep ==
  ASSUME RunnerInv, NEW x \in Runs, Register(x) \/ Submit(x) \/ KeepFuture(x) \/ Take(x)
  PROVE  TypeOK' /\ RunSound(x)'
<1> USE RunTypes DEF RunnerInv, Set, Goto, progress, control
<1>1. TypeOK'
  <2>1. CASE Register(x)
    <3>1. status' \in [Runs -> Status \cup {"none"}] /\ resume' \in [Runs -> NodeIds \cup {None}]
      BY <2>1 DEF Register, Status
    <3> QED
      BY <2>1, <3>1 DEF TypeOK, Register
  <2>2. CASE Submit(x)
    BY <2>2 DEF TypeOK, Submit
  <2>3. CASE KeepFuture(x)
    BY <2>3 DEF TypeOK, KeepFuture
  <2>4. CASE Take(x)
    BY <2>4 DEF TypeOK, Take
  <2>5. QED
    BY <2>1, <2>2, <2>3, <2>4
<1>2. /\ at'[x] = at[x] /\ node'[x] = node[x] /\ results'[x] = results[x] /\ touched' = touched
      /\ graph' = graph /\ order'[x] = order[x] /\ inputs'[x] = inputs[x]
      /\ checkpoints'[x] = checkpoints[x] /\ errors'[x] = errors[x]
  BY DEF Register, Submit, KeepFuture, Take
<1>3. CASE Register(x)
  <2>1. pc[x] = "idle" /\ pc'[x] = "idle" /\ status'[x] = "pending" /\ future'[x] = "none"
    BY <1>3 DEF Register, QueueSound
  <2>2. QED
    BY <1>1, <1>2, <2>1 DEF RunSound, WorkerSound, StatusFollows, QueueSound, Untouched
<1>4. CASE Submit(x)
  <2>1. pc[x] = "idle" /\ pc'[x] = "idle" /\ status'[x] = status[x] /\ status[x] # "none"
        /\ future'[x] = "queued"
    BY <1>4 DEF Submit, QueueSound
  <2>2. QED
    BY <1>1, <1>2, <2>1 DEF RunSound, WorkerSound, StatusFollows, QueueSound, Untouched
<1>5. CASE KeepFuture(x)
  <2>1. pc'[x] = pc[x] /\ status'[x] = status[x] /\ future'[x] = future[x]
    BY <1>5 DEF KeepFuture
  <2>2. QED
    BY <1>1, <1>2, <2>1, Elsewhere DEF RunSound
<1>6. CASE Take(x)
  <2>1. pc[x] = "idle" /\ pc'[x] = "begin" /\ status'[x] = status[x] /\ status[x] # "none"
        /\ future'[x] = "running"
    BY <1>6 DEF Take, QueueSound
  <2>2. QED
    BY <1>1, <1>2, <2>1 DEF RunSound, WorkerSound, StatusFollows, QueueSound, Untouched
<1>7. QED
  BY <1>1, <1>3, <1>4, <1>5, <1>6

LEMMA LoopStep ==
  ASSUME RunnerInv, NEW x \in Runs, 
         Begin(x) \/ OrderFound(x) \/ OrderFails(x) \/ LoopEnds(x) \/ NodeUnknown(x) \/ End(x)
  PROVE  TypeOK' /\ RunSound(x)'
<1> USE RunTypes DEF RunnerInv, Set, Goto, progress, control
<1>1. pc[x] # "idle" /\ pc'[x] # "idle" /\ future[x] \in {"running", "finished"}
      /\ future'[x] \in {"running", "finished"} /\ touched' = touched
  BY DEF Begin, OrderFound, OrderFails, LoopEnds, NodeUnknown, RunFails, End, QueueSound
<1>2. /\ node'[x] = node[x] /\ results'[x] = results[x] /\ inputs'[x] = inputs[x] /\ graph' = graph
      /\ checkpoints'[x] = checkpoints[x] /\ errors'[x] = errors[x]
  BY DEF Begin, OrderFound, OrderFails, LoopEnds, NodeUnknown, RunFails, End
<1>9. Listings' = Listings
  BY <1>2 DEF Listings, EdgeIds, Predecessors
<1>3. Completed(x)' = Completed(x)
  BY <1>2 DEF Completed
<1>4. CASE Begin(x)
  <2>1. TypeOK'
    BY <1>4 DEF TypeOK, Begin, Status
  <2>2. pc'[x] = "order" /\ status'[x] = "running" /\ at'[x] = at[x]
    BY <1>4 DEF Begin
  <2>3. Untouched(x)'
    BY <1>2, <1>4, <2>2 DEF Begin, WorkerSound, Untouched
  <2>6. QED
    BY <1>1, <2>1, <2>2, <2>3 DEF RunSound, WorkerSound, StatusFollows, QueueSound
<1>10. CASE OrderFound(x)
  <2>0. PICK o \in Listings :
          /\ Len(o) = Cardinality(graph.nodes)
          /\ order' = [order EXCEPT ![x] = o] /\ at' = [at EXCEPT ![x] = StartIndex(x, o)]
    BY <1>10 DEF OrderFound
  <2>1. checkpoints[x] = {} /\ StartIndex(x, o) = 1 /\ pc[x] = "order"
    BY <1>10 DEF OrderFound, WorkerSound, Untouched, StartIndex
  <2>2. o \in Seq(NodeIds) /\ Len(o) \in Nat
    BY <2>0, ListingFacts
  <2>3. /\ at' \in [Runs -> Nat] /\ at'[x] = 1 /\ order' \in [Runs -> Seq(NodeIds)] /\ order'[x] = o
        /\ \A y \in Runs : at'[y] \in 1 .. (Len(order'[y]) + 1)
        /\ pc' \in [Runs -> {"idle", "begin", "order", "test", "call", "save", "end", "over"}]
        /\ pc'[x] = "test" /\ status'[x] = status[x]
    BY <1>10, <2>0, <2>1, <2>2 DEF OrderFound
  <2>4. TypeOK'
    BY <1>10, <2>3 DEF TypeOK, OrderFound
  <2>5. Done(x)' = {}
    BY <2>3 DEF Done
  <2>6. results[x] = {} /\ checkpoints[x] = {} /\ errors[x] = {} /\ Completed(x) = {}
    BY <2>1 DEF WorkerSound, Untouched, Completed
  <2>7. x \notin touched => status[x] = "running"
    BY <2>1 DEF StatusFollows
  <2>8. WorkerSound(x)'
    BY <1>2, <1>3, <1>9, <2>0, <2>3, <2>5, <2>6 DEF WorkerSound
  <2> QED
    BY <1>1, <2>3, <2>4, <2>7, <2>8 DEF RunSound, StatusFollows, QueueSound
<1>5. CASE OrderFails(x)
  <2>1. TypeOK'
    BY <1>5 DEF TypeOK, OrderFails, RunFails, Status
  <2>2. pc'[x] = "over" /\ status'[x] = "failed"
    BY <1>5 DEF OrderFails, RunFails
  <2>3. results[x] = {} /\ checkpoints[x] = {} /\ errors[x] = {} /\ Completed(x) = {}
    BY <1>5 DEF OrderFails, WorkerSound, Untouched, Completed
  <2>4. QED
    BY <1>1, <1>2, <1>3, <2>1, <2>2, <2>3 DEF RunSound, WorkerSound, StatusFollows, QueueSound
<1>11. CASE NodeUnknown(x)
  <2>1. TypeOK'
    BY <1>11 DEF TypeOK, NodeUnknown, RunFails, Status
  <2>2. /\ pc[x] = "test" /\ pc'[x] = "over" /\ status'[x] = "failed" /\ at[x] <= Len(order[x])
    BY <1>11 DEF NodeUnknown, RunFails
  <2>3. /\ checkpoints[x] = Done(x) /\ results[x] = Done(x) /\ Completed(x) = Done(x) /\ errors[x] = {}
        /\ order[x] \in Listings /\ Len(order[x]) = Cardinality(graph.nodes)
    BY <2>2 DEF WorkerSound
  <2>4. Done(x) # graph.nodes
    BY <2>2, <2>3, AtNode, ListsAll DEF Done
  <2> QED
    BY <1>1, <1>2, <1>3, <2>1, <2>2, <2>3, <2>4 DEF RunSound, WorkerSound, StatusFollows, QueueSound
<1>6. CASE LoopEnds(x)
  <2>1. TypeOK'
    BY <1>6 DEF TypeOK, LoopEnds
  <2>2. pc[x] = "test" /\ pc'[x] = "end" /\ status'[x] = status[x]
        /\ (at[x] > Len(order[x]) \/ status[x] = "cancelled")
    BY <1>6 DEF LoopEnds
  <2>3. /\ errors[x] = {} /\ checkpoints[x] = Done(x) /\ results[x] = Done(x) /\ Completed(x) = Done(x)
        /\ (x \notin touched => status[x] = "running") /\ Done(x) \subseteq graph.nodes
        /\ order[x] \in Listings /\ Len(order[x]) = Cardinality(graph.nodes)
    BY <2>2 DEF WorkerSound, StatusFollows
  <2>4. at[x] > Len(order[x]) => Done(x) = graph.nodes
    <3>1. SUFFICES ASSUME at[x] > Len(order[x]) PROVE Done(x) = graph.nodes
      OBVIOUS
    <3>2. at[x] - 1 = Len(order[x])
      BY <2>3, <3>1, ListingFacts
    <3>3. Done(x) = Members(order[x])
      BY <3>2 DEF Done, Members
    <3>4. QED
      BY <2>3, <3>3, ListsAll
  <2>5. QED
    BY <1>1, <1>2, <1>3, <2>1, <2>2, <2>3, <2>4 DEF RunSound, WorkerSound, StatusFollows, QueueSound
<1>7. CASE End(x)
  <2>1. TypeOK'
    BY <1>7 DEF TypeOK, End, Status
  <2>2. pc[x] = "end" /\ pc'[x] = "over"
        /\ status'[x] = IF status[x] = "failed" THEN "failed" ELSE "completed"
    BY <1>7 DEF End
  <2>3. QED
    BY <1>1, <1>2, <1>3, <2>1, <2>2 DEF RunSound, WorkerSound, StatusFollows, QueueSound
<1>8. QED
  BY <1>4, <1>5, <1>6, <1>7, <1>10, <1>11

LEMMA NodeStep ==
  ASSUME RunnerInv, NEW x \in Runs, NodeStarts(x) \/ NodeReturns(x) \/ CheckpointSaved(x) \/ NodeFails(x)
  PROVE  TypeOK' /\ RunSound(x)'
<1> DEFINE n == Current(x)
<1> USE RunTypes DEF RunnerInv, Set, Goto, progress, control
<1>1. /\ future'[x] = future[x] /\ touched' = touched /\ order' = order /\ graph' = graph /\ pc[x] # "idle" /\ pc'[x] # "idle"
      /\ status[x] # "none" /\ status'[x] # "none" /\ future[x] \notin {"none", "queued", "cancelled"}
      /\ pc[x] \in {"test", "call", "save"} /\ at[x] <= Len(order[x])
  BY DEF NodeStarts, NodeReturns, CheckpointSaved, NodeFails, QueueSound, WorkerSound
<1>2. /\ n \in NodeIds /\ n \notin Done(x) /\ at[x] \in 1 .. Len(order[x])
      /\ order[x] \in Listings /\ Len(order[x]) \in Nat
  BY <1>1, AtNode
<1>3. /\ errors[x] = {} /\ checkpoints[x] = Done(x) /\ (x \notin touched => status[x] = "running")
      /\ Len(order[x]) = Cardinality(graph.nodes) /\ Done(x) \subseteq graph.nodes
  BY <1>1 DEF WorkerSound, StatusFollows
<1>10. Listings' = Listings /\ (at'[x] = at[x] => Current(x)' = n)
  BY <1>1 DEF Listings, EdgeIds, Predecessors, Current
<1>11. n \in graph.nodes
  BY DEF NodeStarts, NodeReturns, CheckpointSaved, NodeFails, WorkerSound
<1>4. TypeOK'
  <2>1. CASE NodeStarts(x)
    <3>1. inputs' \in [Runs -> SUBSET NodeIds]
      BY <2>1 DEF NodeStarts
    <3>2. node' \in [Runs -> [NodeIds -> {"new", "running", "completed", "failed"}]]
      BY <1>2, <2>1 DEF NodeStarts
    <3> QED
      BY <2>1, <3>1, <3>2 DEF TypeOK, NodeStarts
  <2>2. CASE NodeReturns(x)
    <3>1. results' \in [Runs -> SUBSET NodeIds]
      BY <1>2, <2>2 DEF NodeReturns
    <3>2. node' \in [Runs -> [NodeIds -> {"new", "running", "completed", "failed"}]]
      BY <1>2, <2>2 DEF NodeReturns
    <3> QED
      BY <2>2, <3>1, <3>2 DEF TypeOK, NodeReturns
  <2>3. CASE CheckpointSaved(x)
    <3>1. /\ at' \in [Runs -> Nat]
          /\ \A y \in Runs : at'[y] \in 1 .. (Len(order'[y]) + 1)
      BY <1>2, <2>3 DEF CheckpointSaved
    <3>2. checkpoints' \in [Runs -> SUBSET NodeIds]
      BY <1>2, <2>3 DEF CheckpointSaved
    <3>3. QED
      BY <2>3, <3>1, <3>2 DEF TypeOK, CheckpointSaved
  <2>4. CASE NodeFails(x)
    BY <1>2, <2>4 DEF TypeOK, NodeFails, Status
  <2>5. QED
    BY <2>1, <2>2, <2>3, <2>4
<1>5. CASE NodeStarts(x)
  <2>1. /\ pc[x] = "test" /\ pc'[x] = "call" /\ status'[x] = status[x] /\ at'[x] = at[x]
        /\ node'[x] = [node[x] EXCEPT ![n] = "running"] /\ results'[x] = results[x]
        /\ inputs'[x] = Dependencies(n) \cap results[x]
        /\ checkpoints'[x] = checkpoints[x] /\ errors'[x] = errors[x]
    BY <1>5 DEF NodeStarts
  <2>2. results[x] = Done(x) /\ Completed(x) = Done(x)
    BY <2>1 DEF WorkerSound
  <2>3. Done(x)' = Done(x)
    BY <1>1, <2>1 DEF Done
  <2>4. Completed(x)' = Completed(x)
    BY <1>2, <2>1, <2>2 DEF Completed
  <2>6. Dependencies(Current(x))' = Dependencies(n)
    BY <1>1, <1>10, <2>1 DEF Dependencies, Predecessors
  <2>7. WorkerSound(x)'
    BY <1>1, <1>2, <1>3, <1>10, <1>11, <2>1, <2>2, <2>3, <2>4, <2>6 DEF WorkerSound
  <2>5. QED
    BY <1>1, <1>3, <1>4, <2>1, <2>7 DEF RunSound, StatusFollows, QueueSound
<1>6. CASE NodeReturns(x)
  <2>1. /\ pc[x] = "call" /\ pc'[x] = "save" /\ status'[x] = status[x] /\ at'[x] = at[x]
        /\ node'[x] = [node[x] EXCEPT ![n] = "completed"] /\ results'[x] = results[x] \cup {n}
        /\ checkpoints'[x] = checkpoints[x] /\ errors'[x] = errors[x]
    BY <1>6 DEF NodeReturns
  <2>2. results[x] = Done(x) /\ Completed(x) = Done(x)
    BY <2>1 DEF WorkerSound
  <2>3. Done(x)' = Done(x) /\ results'[x] = Done(x) \cup {n}
    BY <1>1, <2>1, <2>2 DEF Done
  <2>4. Completed(x)' = Completed(x) \cup {n}
    BY <1>2, <2>1 DEF Completed
  <2>6. WorkerSound(x)'
    BY <1>1, <1>2, <1>3, <1>10, <1>11, <2>1, <2>2, <2>3, <2>4 DEF WorkerSound
  <2>5. QED
    BY <1>1, <1>3, <1>4, <2>1, <2>6 DEF RunSound, StatusFollows, QueueSound
<1>7. CASE CheckpointSaved(x)
  <2>1. /\ pc[x] = "save" /\ pc'[x] = "test" /\ status'[x] = status[x] /\ at'[x] = at[x] + 1
        /\ node'[x] = node[x] /\ results'[x] = results[x]
        /\ checkpoints'[x] = checkpoints[x] \cup {n} /\ errors'[x] = errors[x]
    BY <1>2, <1>7 DEF CheckpointSaved
  <2>2. results[x] = Done(x) \cup {n} /\ Completed(x) = results[x]
    BY <2>1 DEF WorkerSound
  <2>3. Done(x)' = Done(x) \cup {n}
    <3>1. at'[x] - 1 = at[x]
      BY <1>2, <2>1
    <3>2. Done(x)' = {order[x][j] : j \in 1 .. at[x]}
      BY <1>1, <3>1 DEF Done
    <3>3. QED
      BY <1>2, <3>2, DoneGrows DEF Done, Current
  <2>4. Completed(x)' = Completed(x)
    BY <2>1 DEF Completed
  <2>6. WorkerSound(x)'
    BY <1>1, <1>2, <1>3, <1>10, <1>11, <2>1, <2>2, <2>3, <2>4 DEF WorkerSound
  <2>5. QED
    BY <1>1, <1>3, <1>4, <2>1, <2>6 DEF RunSound, StatusFollows, QueueSound
<1>8. CASE NodeFails(x)
  <2>1. /\ pc'[x] = "end" /\ status'[x] = "failed" /\ pc[x] \in {"call", "save"}
        /\ node'[x] = [node[x] EXCEPT ![n] = "failed"] /\ results'[x] = results[x]
        /\ checkpoints'[x] = checkpoints[x] /\ errors'[x] = errors[x] \cup {n}
    BY <1>8 DEF NodeFails
  <2>2. Completed(x) \ {n} = Done(x) /\ Done(x) \subseteq results[x]
    BY <1>2, <2>1 DEF WorkerSound
  <2>3. Completed(x)' = Completed(x) \ {n}
    BY <1>2, <2>1 DEF Completed
  <2>4. QED
    BY <1>1, <1>2, <1>3, <1>4, <2>1, <2>2, <2>3 DEF RunSound, WorkerSound, StatusFollows, QueueSound
<1>9. QED
  BY <1>5, <1>6, <1>7, <1>8

LEMMA WorkStep ==
  ASSUME RunnerInv, NEW x \in Runs, Register(x) \/ Work(x)
  PROVE  RunnerInv'
<1>1. TypeOK' /\ RunSound(x)'
  BY SubmitStep, LoopStep, NodeStep DEF Work
<1>2. touched' = touched /\ ctl' = ctl
  BY DEF Register, Work, Submit, KeepFuture, Take, Begin, OrderFound, OrderFails, RunFails, LoopEnds,
         NodeUnknown, NodeStarts, NodeReturns, CheckpointSaved, NodeFails, End, control
<1>3. \A y \in Runs \ {x} :
        /\ status'[y] = status[y] /\ future'[y] = future[y] /\ pc'[y] = pc[y] /\ at'[y] = at[y]
        /\ node'[y] = node[y] /\ results'[y] = results[y] /\ checkpoints'[y] = checkpoints[y]
        /\ errors'[y] = errors[y] /\ order'[y] = order[y] /\ inputs'[y] = inputs[y] /\ graph' = graph
  BY WorkerAlone DEF RunnerInv
<1>4. ASSUME NEW y \in Runs PROVE RunSound(y)'
  <2>1. CASE y = x
    BY <1>1, <2>1
  <2>2. CASE y # x
    BY <1>2, <1>3, <2>2, Elsewhere DEF RunnerInv, RunSound
  <2>3. QED
    BY <2>1, <2>2
<1>5. ASSUME ctl.op # "idle" PROVE pc'[ctl.run] = "idle" => pc[ctl.run] = "idle" /\ status'[ctl.run] = status[ctl.run]
  <2>1. ctl.run \in Runs
    BY <1>5 DEF RunnerInv, ControlSound, TypeOK
  <2>2. CASE ctl.run # x
    BY <1>3, <2>1, <2>2
  <2>3. CASE ctl.run = x
    <3>1. CASE Register(x)
      BY <1>5, <3>1 DEF Register, Idle
    <3>2. CASE Submit(x) \/ KeepFuture(x)
      BY <2>3, <3>2 DEF Submit, KeepFuture
    <3>3. CASE ~(Register(x) \/ Submit(x) \/ KeepFuture(x))
      <4>1. pc'[x] # "idle"
        <5> USE RunTypes DEF RunnerInv, Goto
        <5>1. CASE Take(x) \/ Begin(x) \/ OrderFound(x) \/ OrderFails(x) \/ LoopEnds(x) \/ NodeUnknown(x)
                   \/ End(x)
          BY <5>1 DEF Take, Begin, OrderFound, OrderFails, LoopEnds, NodeUnknown, RunFails, End
        <5>2. CASE NodeStarts(x) \/ NodeReturns(x) \/ CheckpointSaved(x) \/ NodeFails(x)
          BY <5>2 DEF NodeStarts, NodeReturns, CheckpointSaved, NodeFails
        <5>3. QED
          BY <3>3, <5>1, <5>2 DEF Work
      <4>2. QED
        BY <2>3, <4>1
    <3>4. QED
      BY <3>1, <3>2, <3>3
  <2>4. QED
    BY <2>2, <2>3
<1>6. ControlSound'
  BY <1>2, <1>5 DEF RunnerInv, ControlSound
<1>7. QED
  BY <1>1, <1>4, <1>6 DEF RunnerInv, RunSound

\* What holds of a run whatever its status is, if a control call was made for it.
LEMMA ControlStep ==
  ASSUME RunnerInv, NEW x \in Runs, Cancel(x) \/ Pause(x) \/ Resume(x)
  PROVE  RunnerInv'
<1> USE DEF Control, Cancel, Pause, Resume, Set, progress
<1>1. /\ ctl' = [op |-> ctl'.op, run |-> x] /\ ctl'.op \in {"cancel", "pause", "resume"} /\ ctl'.run = x
      /\ touched' = touched \cup {x} /\ status[x] # "none" /\ UNCHANGED <<future, handle, resume, pc, graph, progress>>
      /\ calls' = calls + 1 /\ calls < MaxControl
  OBVIOUS
<1>2. /\ \/ ctl'.op = "cancel" /\ status' = [status EXCEPT ![x] = "cancelled"]
         \/ status' = status /\ status[x] \in {"running", "paused"}
      /\ ctl'.op # "cancel" => status' = status /\ status[x] \in {"running", "paused"}
  OBVIOUS
<1>3. calls' \in 0 .. MaxControl
  BY <1>1, BoundAssumption DEF RunnerInv, TypeOK
<1>4. TypeOK'
  <2>1. status' \in [Runs -> Status \cup {"none"}]
    BY <1>2, RunTypes DEF RunnerInv, Status
  <2>2. ctl' \in [op : {"idle", "cancel", "pause", "resume"}, run : Runs \cup {None}]
    BY <1>1
  <2>3. touched' \subseteq Runs
    BY <1>1 DEF RunnerInv, TypeOK
  <2>4. QED
    BY <1>1, <1>3, <2>1, <2>2, <2>3 DEF RunnerInv, TypeOK
<1> USE <1>1, RunTypes DEF RunnerInv
<1>5. \A y \in Runs \ {x} : status'[y] = status[y]
  BY <1>2
<1>6. status'[x] \in {"cancelled", "running", "paused"}
      /\ (pc[x] = "idle" => status'[x] = "cancelled" /\ ctl'.op = "cancel")
      /\ (future[x] = "cancelled" => status'[x] = "cancelled")
  BY <1>2 DEF QueueSound
<1>7. ASSUME NEW y \in Runs PROVE RunSound(y)'
  <2>1. CASE y # x
    BY <1>5, <2>1, Elsewhere DEF RunSound
  <2>2. CASE y = x
    <3>1. Done(x)' = Done(x) /\ Completed(x)' = Completed(x) /\ (Untouched(x)' <=> Untouched(x))
      BY DEF Done, Completed, Untouched
    <3>2. /\ Current(x)' = Current(x) /\ Dependencies(Current(x))' = Dependencies(Current(x))
          /\ Listings' = Listings
      BY DEF Current, Dependencies, Predecessors, Listings, EdgeIds
    <3>3. WorkerSound(x)'
      BY <3>1, <3>2 DEF RunSound, WorkerSound
    <3>4. QED
      BY <1>6, <2>2, <3>3 DEF RunSound, StatusFollows, QueueSound
  <2>3. QED
    BY <2>1, <2>2
<1>8. ControlSound'
  BY <1>6 DEF ControlSound
<1>9. QED
  BY <1>4, <1>7, <1>8 DEF RunSound

LEMMA ReturnStep ==
  ASSUME RunnerInv, CancelFuture \/ SetPaused \/ SetResumed
  PROVE  RunnerInv'
<1> USE RunTypes DEF Set, Return, Idle, progress
<1>0. /\ ctl.op # "idle" /\ ctl' = Idle /\ ctl.run \in touched /\ touched' = touched /\ touched \subseteq Runs
      /\ UNCHANGED <<handle, resume, pc, graph, order, at, node, inputs, results, checkpoints, errors, calls>>
  BY DEF RunnerInv, ControlSound, TypeOK, CancelFuture, SetPaused, SetResumed
<1>1. PICK x \in Runs : x = ctl.run /\ x \in touched
  BY <1>0
<1>2. TypeOK'
  <2>1. status' \in [Runs -> Status \cup {"none"}]
    BY DEF RunnerInv, Status, CancelFuture, SetPaused, SetResumed
  <2>2. future' \in [Runs -> {"none", "queued", "running", "finished", "cancelled"}]
    <3>1. future \in [Runs -> {"none", "queued", "running", "finished", "cancelled"}]
      BY DEF RunnerInv
    <3>2. CASE CancelFuture
      <4>1. \E s \in {"none", "queued", "running", "finished", "cancelled"} :
              future' = [future EXCEPT ![ctl.run] = s]
        <5>1. ctl.run \in Runs
          BY <1>0
        <5> QED
          BY <3>1, <3>2, <5>1 DEF CancelFuture
      <4> QED
        BY <3>1, <4>1
    <3>3. CASE SetPaused \/ SetResumed
      BY <3>1, <3>3 DEF SetPaused, SetResumed
    <3> QED
      BY <3>2, <3>3
  <2>3. ctl' \in [op : {"idle", "cancel", "pause", "resume"}, run : Runs \cup {None}]
    BY <1>0
  <2>4. QED
    BY <1>0, <2>1, <2>2, <2>3 DEF RunnerInv, TypeOK
<1>3. \A y \in Runs \ {x} : status'[y] = status[y] /\ future'[y] = future[y]
  BY <1>1 DEF RunnerInv, CancelFuture, SetPaused, SetResumed
<1>4. /\ future'[x] = future[x] \/ (pc[x] = "idle" /\ future'[x] = "cancelled" /\ status'[x] = "cancelled")
      /\ status'[x] = status[x] \/ (pc[x] # "idle" /\ status'[x] \in {"paused", "running"})
  <2>1. CASE CancelFuture
    BY <1>0, <1>1, <2>1 DEF RunnerInv, CancelFuture, ControlSound, QueueSound
  <2>2. CASE SetPaused \/ SetResumed
    BY <1>0, <1>1, <2>2 DEF RunnerInv, SetPaused, SetResumed, ControlSound, QueueSound
  <2>3. QED
    BY <2>1, <2>2
<1>5. ASSUME NEW y \in Runs PROVE RunSound(y)'
  <2>1. CASE y # x
    BY <1>0, <1>3, <2>1, Elsewhere DEF RunnerInv, RunSound
  <2>2. CASE y = x
    <3>1. Done(x)' = Done(x) /\ Completed(x)' = Completed(x) /\ (Untouched(x)' <=> Untouched(x))
      BY <1>0 DEF Done, Completed, Untouched
    <3>5. /\ Current(x)' = Current(x) /\ Dependencies(Current(x))' = Dependencies(Current(x))
          /\ Listings' = Listings
      BY <1>0 DEF Current, Dependencies, Predecessors, Listings, EdgeIds
    <3>2. WorkerSound(x)' /\ StatusFollows(x)'
      BY <1>0, <1>1, <3>1, <3>5 DEF RunnerInv, WorkerSound, StatusFollows
    <3>3. QueueSound(x)'
      BY <1>0, <1>4 DEF RunnerInv, QueueSound
    <3>4. QED
      BY <2>2, <3>2, <3>3 DEF RunSound
  <2>3. QED
    BY <2>1, <2>2
<1>6. QED
  BY <1>0, <1>2, <1>5 DEF RunnerInv, ControlSound, RunSound

LEMMA RunnerStep == RunnerInv /\ [Next]_vars => RunnerInv'
<1> SUFFICES ASSUME RunnerInv, [Next]_vars PROVE RunnerInv'
  OBVIOUS
<1>1. CASE UNCHANGED vars
  <2>1. UNCHANGED <<graph, status, future, handle, resume, pc, order, at, node, inputs, results, checkpoints,
                    errors, ctl, calls, touched>>
    BY <1>1 DEF vars
  <2>2. TypeOK' /\ ControlSound'
    BY <2>1 DEF RunnerInv, TypeOK, ControlSound
  <2>3. \A y \in Runs : RunSound(y)'
    BY <2>1, Elsewhere DEF RunnerInv, RunSound
  <2>4. QED
    BY <2>2, <2>3 DEF RunnerInv, RunSound
<1>2. QED
  BY <1>1, WorkStep, ControlStep, ReturnStep DEF Next

LEMMA RunnerInvariant == Spec => []RunnerInv
  BY RunnerStart, RunnerStep, PTL DEF Spec

\* Whatever failed, was cancelled, paused or resumed before, and whatever the edges and the
\* constructors' dependencies are, a node is called with the result of every node that an
\* edge leads from, each of them saved, and lacks only what has not completed.
THEOREM InputsAreThere == Spec => []InputsComplete
<1>1. RunnerInv => InputsComplete
  <2> SUFFICES ASSUME RunnerInv, NEW x \in Runs, pc[x] = "call"
               PROVE  /\ Predecessors(Current(x)) \subseteq inputs[x] /\ inputs[x] \subseteq checkpoints[x]
                      /\ \A n \in Dependencies(Current(x)) \ inputs[x] : node[x][n] # "completed"
    BY DEF InputsComplete
  <2>1. /\ results[x] = Done(x) /\ at[x] <= Len(order[x]) /\ checkpoints[x] = Done(x)
        /\ Completed(x) = Done(x) /\ inputs[x] = Dependencies(Current(x)) \cap Done(x)
    BY DEF RunnerInv, WorkerSound
  <2>2. Predecessors(Current(x)) \subseteq Done(x) /\ Current(x) \in NodeIds
    BY <2>1, AtNode
  <2>3. Dependencies(Current(x)) \subseteq NodeIds
    <3>1. graph.declared \in [NodeIds -> SUBSET NodeIds] /\ graph.edges \subseteq NodeIds \X NodeIds
      BY GraphAssumption DEF RunnerInv, TypeOK
    <3> QED
      BY <2>2, <3>1 DEF Dependencies, Predecessors
  <2>4. Predecessors(Current(x)) \subseteq inputs[x]
    BY <2>1, <2>2 DEF Dependencies
  <2>5. QED
    BY <2>1, <2>3, <2>4 DEF Completed
<1>2. QED
  BY <1>1, RunnerInvariant, PTL

\* The completed nodes are those with a checkpoint, and none of these failed.
THEOREM CheckpointsAgree == Spec => []CheckpointsMatch
<1>1. RunnerInv => CheckpointsMatch
  <2> SUFFICES ASSUME RunnerInv, NEW x \in Runs
               PROVE  /\ checkpoints[x] \subseteq results[x]
                      /\ pc[x] # "save" => checkpoints[x] = {n \in NodeIds : node[x][n] = "completed"}
                      /\ checkpoints[x] \cap errors[x] = {}
    BY DEF CheckpointsMatch
  <2>1. pc[x] \in {"idle", "begin", "order"} => checkpoints[x] = {} /\ Completed(x) = {}
    BY DEF RunnerInv, WorkerSound, Untouched, Completed
  <2>2. pc[x] \in {"idle", "begin", "order", "test", "call", "save", "end", "over"}
    BY RunTypes DEF RunnerInv
  <2>3. QED
    BY <2>1, <2>2 DEF RunnerInv, WorkerSound, Completed
<1>2. QED
  BY <1>1, RunnerInvariant, PTL

\* What a node is given, and what it leaves, through every failure and cancellation.
THEOREM NodesAlwaysGrounded == Spec => []NodesGrounded
  BY InputsAreThere, CheckpointsAgree, PTL DEF NodesGrounded

\* A run that no control call was made for ends with the status its nodes deserve, and one
\* cancelled in the queue never runs and stays cancelled.
THEOREM OutcomesAreTrue == Spec => []OutcomeIsTrue
<1>1. RunnerInv => OutcomeIsTrue
  BY DEF RunnerInv, OutcomeIsTrue, WorkerSound, StatusFollows, QueueSound, Untouched
<1>2. QED
  BY <1>1, RunnerInvariant, PTL

-----------------------------------------------------------------------------
(* PromotionPipeline                                                       *)

PromotionInv == PromotionTypeOK /\ HistoryClimbs

LEMMA PromotionStarts == PromotionInit => PromotionInv
<1> SUFFICES ASSUME PromotionInit PROVE PromotionInv
  OBVIOUS
<1>1. history = <<>> /\ DOMAIN history = {} /\ history \in Seq([stage : 2 .. Production, decision : {"promote", "reject"}])
  BY EmptySeq DEF PromotionInit
<1>2. QED
  BY <1>1, PromotionAssumption DEF PromotionInit, PromotionInv, PromotionTypeOK, HistoryClimbs,
                                   NoEvidence, Production

LEMMA PromotionStep == PromotionInv /\ [PromotionNext]_promotionVars => PromotionInv'
<1> SUFFICES ASSUME PromotionInv, [PromotionNext]_promotionVars PROVE PromotionInv'
  OBVIOUS
<1> DEFINE Rec == [stage : 2 .. Production, decision : {"promote", "reject"}]
<1>1. /\ level \in 1 .. 6 /\ history \in Seq(Rec) /\ approved \in 0 .. MaxApprovals
      /\ evidence \in [Gates -> {"none", "good", "bad"}] /\ HistoryClimbs
  BY DEF PromotionInv, PromotionTypeOK, Production
<1>2. ASSUME CreatePipeline PROVE PromotionInv'
  <2>1. history' = <<>> /\ DOMAIN history' = {} /\ history' \in Seq(Rec)
    BY <1>2, EmptySeq DEF CreatePipeline
  <2>2. QED
    BY <1>2, <2>1, PromotionAssumption DEF CreatePipeline, PromotionInv, PromotionTypeOK, HistoryClimbs,
                                           NoEvidence, Production
<1>3. ASSUME NEW target \in 1 .. Production \cup OffTheList, NEW decision \in {"promote", "reject"},
             AdvanceStage(target, decision)
      PROVE  PromotionInv'
  <2> DEFINE r == [stage |-> target, decision |-> decision]
  <2>1. target \in 2 .. 6 /\ level < target /\ r \in Rec /\ level' = target /\ history' = Append(history, r)
        /\ evidence' = evidence /\ approved' = approved
    BY <1>1, <1>3 DEF AdvanceStage, Production
  <2>2. /\ history' \in Seq(Rec) /\ Len(history) \in Nat /\ Len(history') = Len(history) + 1
        /\ DOMAIN history = 1 .. Len(history) /\ DOMAIN history' = 1 .. Len(history) + 1
        /\ history'[Len(history) + 1] = r /\ \A i \in 1 .. Len(history) : history'[i] = history[i]
    BY <1>1, <2>1, AppendProperties, LenProperties
  <2>len. Len(history) \in Nat /\ level \in Nat /\ target \in Nat /\ level < target
    BY <1>1, <2>1, LenProperties
  <2>3. \A i \in 1 .. Len(history) : history[i].stage \in 2 .. 6 /\ history[i].stage <= level
    <3>1. \A i \in 1 .. Len(history) : history[i] \in Rec
      BY <1>1, <2>2, ElementOfSeq
    <3> SUFFICES ASSUME NEW i \in 1 .. Len(history)
                 PROVE  history[i].stage \in 2 .. 6 /\ history[i].stage <= level
      OBVIOUS
    <3>2. history # <<>> /\ Len(history) \in 1 .. Len(history)
      BY <2>2
    <3>3. level = history[Len(history)].stage
      BY <1>1, <3>2 DEF HistoryClimbs
    <3>4. history[i].stage \in 2 .. 6 /\ history[Len(history)].stage \in 2 .. 6
      BY <3>1, <3>2 DEF Production
    <3>5. i < Len(history) => history[i].stage < history[Len(history)].stage
      BY <1>1, <2>2, <3>2 DEF HistoryClimbs
    <3>6. i < Len(history) \/ i = Len(history)
      BY <2>len
    <3>7. history[i].stage \in Nat /\ history[i].stage <= level
      BY <2>len, <3>3, <3>4, <3>5, <3>6
    <3>8. QED
      BY <3>4, <3>7
  <2>4. ASSUME NEW i \in 1 .. Len(history) + 1, NEW j \in 1 .. Len(history) + 1, i < j
        PROVE  history'[i].stage < history'[j].stage
    <3>1. CASE j = Len(history) + 1
      <4>1. i \in 1 .. Len(history)
        BY <2>len, <2>4, <3>1
      <4>2. history'[j].stage = target /\ history'[i] = history[i]
        BY <2>2, <3>1, <4>1
      <4>3. history[i].stage \in Nat /\ history[i].stage <= level
        BY <2>3, <4>1
      <4>4. QED
        BY <2>len, <4>2, <4>3
    <3>2. CASE j # Len(history) + 1
      <4>1. i \in 1 .. Len(history) /\ j \in 1 .. Len(history)
        BY <2>len, <2>4, <3>2
      <4>2. history'[i] = history[i] /\ history'[j] = history[j] /\ history[i].stage < history[j].stage
        BY <1>1, <2>2, <2>4, <4>1 DEF HistoryClimbs
      <4>3. QED
        BY <4>2
    <3>3. QED
      BY <3>1, <3>2
  <2>5. history' # <<>> /\ history'[Len(history')].stage = target
    BY <2>2
  <2>6. HistoryClimbs'
    BY <2>1, <2>2, <2>4, <2>5 DEF HistoryClimbs
  <2>7. QED
    BY <1>1, <2>1, <2>2, <2>6 DEF PromotionInv, PromotionTypeOK, Production
<1>4. ASSUME NEW g \in Gates, SubmitResults(g) PROVE PromotionInv'
  BY <1>1, <1>4 DEF SubmitResults, PromotionInv, PromotionTypeOK, HistoryClimbs, Production
<1>5. ASSUME SubmitApproval PROVE PromotionInv'
  BY <1>1, <1>5, PromotionAssumption DEF SubmitApproval, PromotionInv, PromotionTypeOK, HistoryClimbs, Production
<1>6. CASE UNCHANGED promotionVars
  BY <1>1, <1>6 DEF promotionVars, PromotionInv, PromotionTypeOK, HistoryClimbs, Production
<1>7. QED
  BY <1>2, <1>3, <1>4, <1>5, <1>6 DEF PromotionNext

\* However results, approvals and decisions come, the stages of an experiment climb, and
\* its history ends at the current one.
THEOREM StagesClimb == PromotionSpec => []HistoryClimbs
<1>1. PromotionInv => HistoryClimbs
  BY DEF PromotionInv
<1>2. QED
  BY <1>1, PromotionStarts, PromotionStep, PTL DEF PromotionSpec

-----------------------------------------------------------------------------
(* ApprovalPipeline                                                        *)

\* A request that is not there yet has no decisions, so a new one starts open.
NewIsUndecided ==
  \A r \in Ids : r > Len(requests) => decided[r] = [d \in Decision |-> 0]

ApprovalIInv ==
  /\ ApprovalTypeOK
  /\ NewIsUndecided
  /\ RejectionSticks
  /\ PendingIsOpen
  /\ AdvancedByApproval

LEMMA ApprovalStarts == ApprovalInit => ApprovalIInv
<1> SUFFICES ASSUME ApprovalInit PROVE ApprovalIInv
  OBVIOUS
<1> USE DEF ApprovalInit, Undecided, Ids
<1>1. Len(requests) = 0 /\ requests \in Seq([stage : 1 .. LastStage, required : Required])
  BY EmptySeq
<1>2. ApprovalTypeOK
  BY <1>1, ApprovalAssumption DEF ApprovalTypeOK
<1>3. QED
  BY <1>1, <1>2 DEF ApprovalIInv, NewIsUndecided, RejectionSticks, PendingIsOpen, AdvancedByApproval,
                    Rejected, Decision

\* A decision on one request leaves those on the others alone.
LEMMA RecordStep ==
  ASSUME ApprovalIInv, NEW r \in Ids, NEW d \in Decision, Record(r, d)
  PROVE  /\ r \in DOMAIN requests /\ r <= Len(requests)
         /\ decided' \in [Ids -> [Decision -> 0 .. MaxDecisions]]
         /\ \A q \in Ids, c \in Decision : decided'[q][c] >= decided[q][c]
         /\ \A q \in Ids \ {r} : decided'[q] = decided[q]
         /\ \A c \in Decision \ {d} : decided'[r][c] = decided[r][c]
         /\ decided'[r][d] = decided[r][d] + 1
         /\ requests' = requests /\ Len(requests) \in Nat
<1>1. decided \in [Ids -> [Decision -> 0 .. MaxDecisions]]
  BY DEF ApprovalIInv, ApprovalTypeOK
<1>2. requests \in Seq([stage : 1 .. LastStage, required : Required])
  BY DEF ApprovalIInv, ApprovalTypeOK
<1>3. r \in DOMAIN requests /\ Len(requests) \in Nat /\ r <= Len(requests)
  BY <1>2, LenProperties DEF Record
<1>4. decided[r][d] + 1 \in 0 .. MaxDecisions
  BY <1>1, ApprovalAssumption DEF Record
<1>5. decided' = [decided EXCEPT ![r][d] = decided[r][d] + 1]
  BY DEF Record
<1>6. /\ decided'[r][d] = decided[r][d] + 1
      /\ \A c \in Decision \ {d} : decided'[r][c] = decided[r][c]
      /\ \A q \in Ids \ {r} : decided'[q] = decided[q]
      /\ decided' \in [Ids -> [Decision -> 0 .. MaxDecisions]]
  BY <1>1, <1>4, <1>5
<1>7. \A q \in Ids, c \in Decision : decided[q][c] \in Int /\ decided'[q][c] >= decided[q][c]
  <2> SUFFICES ASSUME NEW q \in Ids, NEW c \in Decision
               PROVE  decided[q][c] \in Int /\ decided'[q][c] >= decided[q][c]
    OBVIOUS
  <2>1. decided[q][c] \in Int
    BY <1>1
  <2>2. decided'[q][c] = decided[q][c] \/ decided'[q][c] = decided[q][c] + 1
    BY <1>6
  <2>3. QED
    BY <2>1, <2>2
<1>8. QED
  BY <1>3, <1>6, <1>7 DEF Record

LEMMA CreateIInv == ASSUME ApprovalIInv, CreateExperiment PROVE ApprovalIInv'
<1> USE DEF CreateExperiment, Undecided, Ids
<1>1. /\ requests' = requests
      /\ requests \in Seq([stage : 1 .. LastStage, required : Required])
      /\ Len(requests) \in Nat /\ Len(requests) <= MaxRequests
  BY LenProperties DEF ApprovalIInv, ApprovalTypeOK
<1>2. ApprovalTypeOK'
  BY <1>1, ApprovalAssumption DEF ApprovalTypeOK
<1>3. QED
  BY <1>1, <1>2 DEF ApprovalIInv, NewIsUndecided, RejectionSticks, PendingIsOpen, AdvancedByApproval,
                    Rejected, Decision

LEMMA SubmitIInv == ASSUME ApprovalIInv, SubmitForApproval PROVE ApprovalIInv'
<1> DEFINE Request == [stage : 1 .. LastStage, required : Required]
<1>1. /\ requests \in Seq(Request) /\ Len(requests) \in Nat
      /\ stage \in 0 .. LastStage /\ stage # 0
      /\ decided \in [Ids -> [Decision -> 0 .. MaxDecisions]]
  BY LenProperties DEF ApprovalIInv, ApprovalTypeOK, SubmitForApproval, Rejected
<1>2. PICK s \in stage .. LastStage, k \in Required :
        requests' = Append(requests, [stage |-> s, required |-> k])
  BY DEF SubmitForApproval
<1> DEFINE new == [stage |-> s, required |-> k]
<1>3. new \in Request /\ s \in 1 .. LastStage
  BY <1>1, ApprovalAssumption
<1>4. /\ requests' \in Seq(Request) /\ Len(requests') = Len(requests) + 1
      /\ \A i \in 1 .. Len(requests) : requests'[i] = requests[i]
      /\ requests'[Len(requests) + 1] = new
      /\ DOMAIN requests = 1 .. Len(requests) /\ DOMAIN requests' = 1 .. Len(requests')
  <2> HIDE DEF new, Request
  <2>1. requests' = Append(requests, new)
    BY <1>2 DEF new
  <2>2. QED
    BY <1>1, <1>3, <2>1, AppendProperties, LenProperties
<1>5. /\ Len(requests) + 1 \in Ids /\ Len(requests) + 1 <= MaxRequests
      /\ pending' = Len(requests) + 1 /\ pending' # 0
      /\ stage' = stage /\ decided' = decided
  BY <1>1, ApprovalAssumption DEF SubmitForApproval, Ids
<1>6. ApprovalTypeOK'
  BY <1>1, <1>4, <1>5 DEF ApprovalTypeOK
<1>7. NewIsUndecided'
  BY <1>1, <1>4, <1>5 DEF NewIsUndecided, ApprovalIInv, Ids
<1>8. RejectionSticks'
  BY <1>5 DEF RejectionSticks, ApprovalIInv
<1>9. PendingIsOpen'
  <2>1. decided[Len(requests) + 1] = [d \in Decision |-> 0]
    BY <1>1, <1>5 DEF ApprovalIInv, NewIsUndecided
  <2>2. decided'[pending']["approve"] = 0
    BY <2>1, <1>5 DEF Decision
  <2>3. requests'[pending'].required = k
    BY <1>4, <1>5
  <2>4. k \in Nat \ {0}
    BY ApprovalAssumption
  <2>5. QED
    BY <1>1, <1>4, <1>5, <2>2, <2>3, <2>4 DEF PendingIsOpen, Rejected
<1>10. AdvancedByApproval'
  BY <1>1, <1>4, <1>5 DEF AdvancedByApproval, ApprovalIInv
<1>11. QED
  BY <1>6, <1>7, <1>8, <1>9, <1>10 DEF ApprovalIInv

\* What a recorded decision leaves intact, whichever branch follows it.
LEMMA RecordIInv ==
  ASSUME ApprovalIInv, NEW r \in Ids, NEW d \in Decision, Record(r, d)
  PROVE  /\ requests' \in Seq([stage : 1 .. LastStage, required : Required])
         /\ Len(requests') <= MaxRequests
         /\ NewIsUndecided'
         /\ stage > 1 => AdvancedByApproval'
<1>1. /\ r \in DOMAIN requests /\ r <= Len(requests) /\ Len(requests) \in Nat
      /\ requests' = requests
      /\ \A q \in Ids \ {r} : decided'[q] = decided[q]
      /\ \A q \in Ids, c \in Decision : decided'[q][c] >= decided[q][c]
      /\ decided' \in [Ids -> [Decision -> 0 .. MaxDecisions]]
  BY RecordStep
<1>2. /\ requests \in Seq([stage : 1 .. LastStage, required : Required])
      /\ Len(requests) <= MaxRequests
      /\ decided \in [Ids -> [Decision -> 0 .. MaxDecisions]]
  BY DEF ApprovalIInv, ApprovalTypeOK
<1>3. NewIsUndecided'
  BY <1>1 DEF NewIsUndecided, ApprovalIInv, Ids
<1>4. ASSUME stage > 1 PROVE AdvancedByApproval'
  <2>1. PICK q \in DOMAIN requests : decided[q]["approve"] >= requests[q].required
    BY <1>4 DEF ApprovalIInv, AdvancedByApproval
  <2>2. q \in Ids
    BY <1>2, <2>1, LenProperties, ApprovalAssumption DEF Ids
  <2>3. requests[q].required \in Nat
    <3>1. q \in 1 .. Len(requests)
      BY <1>2, <2>1, LenProperties
    <3>2. requests[q] \in [stage : 1 .. LastStage, required : Required]
      BY <1>2, <3>1, ElementOfSeq
    <3>3. QED
      BY <3>2, ApprovalAssumption
  <2>4. /\ decided[q]["approve"] \in Nat /\ decided'[q]["approve"] \in Nat
        /\ decided'[q]["approve"] >= decided[q]["approve"]
    BY <1>1, <1>2, <2>2, ApprovalAssumption DEF Decision
  <2>5. QED
    BY <1>1, <2>1, <2>3, <2>4 DEF AdvancedByApproval
<1>5. QED
  BY <1>1, <1>2, <1>3, <1>4

LEMMA ChangesIInv ==
  ASSUME ApprovalIInv, NEW r \in Ids, RequestChanges(r) PROVE ApprovalIInv'
<1>1. "other" \in Decision /\ "approve" \in Decision /\ "reject" \in Decision
  BY DEF Decision
<1>2. Record(r, "other") /\ stage' = stage /\ pending' = pending
  BY DEF RequestChanges
<1> DEFINE Kept == \A q \in Ids, c \in {"approve", "reject"} : decided'[q][c] = decided[q][c]
<1>3. Kept /\ requests' = requests /\ decided' \in [Ids -> [Decision -> 0 .. MaxDecisions]]
  BY <1>1, <1>2, RecordStep DEF Decision
<1>4. /\ requests' \in Seq([stage : 1 .. LastStage, required : Required])
      /\ Len(requests') <= MaxRequests /\ NewIsUndecided'
      /\ stage > 1 => AdvancedByApproval'
  BY <1>1, <1>2, RecordIInv
<1>5. pending \in 0 .. Len(requests) /\ stage \in 0 .. LastStage /\ Len(requests) \in Nat
  BY LenProperties DEF ApprovalIInv, ApprovalTypeOK
<1>6. ApprovalTypeOK'
  BY <1>2, <1>3, <1>4, <1>5 DEF ApprovalTypeOK
<1>7. RejectionSticks'
  BY <1>2, <1>3 DEF RejectionSticks, ApprovalIInv
<1>8. PendingIsOpen'
  <2>1. pending # 0 => pending \in Ids
    BY <1>5, ApprovalAssumption DEF ApprovalIInv, ApprovalTypeOK, Ids
  <2>2. QED
    BY <1>2, <1>3, <2>1 DEF PendingIsOpen, ApprovalIInv
<1>9. AdvancedByApproval'
  BY <1>2, <1>4, <1>5 DEF AdvancedByApproval
<1>10. QED
  BY <1>4, <1>6, <1>7, <1>8, <1>9 DEF ApprovalIInv

LEMMA DecisionIInv ==
  ASSUME ApprovalIInv, NEW r \in Ids, NEW d \in Decision, RecordDecision(r, d) PROVE ApprovalIInv'
<1>1. Record(r, d)
  BY DEF RecordDecision
<1>2. /\ r \in DOMAIN requests /\ requests' = requests
      /\ decided' \in [Ids -> [Decision -> 0 .. MaxDecisions]]
      /\ \A q \in Ids \ {r} : decided'[q] = decided[q]
      /\ \A q \in Ids, c \in Decision : decided'[q][c] >= decided[q][c]
  BY <1>1, RecordStep
<1>3. /\ requests' \in Seq([stage : 1 .. LastStage, required : Required])
      /\ Len(requests') <= MaxRequests /\ NewIsUndecided'
      /\ stage > 1 => AdvancedByApproval'
  BY <1>1, RecordIInv
<1>4. /\ stage \in 0 .. LastStage /\ pending \in 0 .. Len(requests) /\ Len(requests) \in Nat
      /\ decided \in [Ids -> [Decision -> 0 .. MaxDecisions]]
      /\ Len(requests) <= MaxRequests
  BY LenProperties DEF ApprovalIInv, ApprovalTypeOK
<1>5. "approve" \in Decision /\ "reject" \in Decision
  BY DEF Decision
<1>6. \A q \in Ids : decided[q]["reject"] \in Nat /\ decided'[q]["reject"] \in Nat
  BY <1>2, <1>4, <1>5, ApprovalAssumption
<1>7. CASE decided'[r]["reject"] > 0 /\ stage' = Rejected /\ pending' = 0
  <2>1. ApprovalTypeOK'
    BY <1>2, <1>3, <1>4, <1>7, ApprovalAssumption DEF ApprovalTypeOK, Rejected
  <2>2. RejectionSticks'
    BY <1>7 DEF RejectionSticks
  <2>3. PendingIsOpen' /\ AdvancedByApproval'
    BY <1>7 DEF PendingIsOpen, AdvancedByApproval, Rejected
  <2>4. QED
    BY <1>3, <2>1, <2>2, <2>3 DEF ApprovalIInv
<1>8. ASSUME decided'[r]["reject"] = 0
      PROVE  (\E q \in Ids : decided'[q]["reject"] > 0) <=> stage = Rejected
  <2>1. decided[r]["reject"] = 0
    BY <1>2, <1>5, <1>6, <1>8
  <2>2. \A q \in Ids : decided'[q]["reject"] > 0 <=> decided[q]["reject"] > 0
    BY <1>2, <1>6, <1>8, <2>1
  <2>3. QED
    BY <2>2 DEF ApprovalIInv, RejectionSticks
<1>9. CASE /\ decided'[r]["reject"] = 0 /\ Enough(r) /\ stage # Rejected
           /\ stage' = IF stage < LastStage THEN stage + 1 ELSE stage
           /\ pending' = 0
  <2>1. stage' \in 1 .. LastStage
    BY <1>4, <1>9, ApprovalAssumption DEF Rejected
  <2>2. ApprovalTypeOK'
    BY <1>2, <1>3, <1>4, <1>9, <2>1 DEF ApprovalTypeOK
  <2>3. RejectionSticks'
    BY <1>8, <1>9, <2>1 DEF RejectionSticks, Rejected
  <2>4. PendingIsOpen'
    BY <1>9 DEF PendingIsOpen
  <2>5. AdvancedByApproval'
    BY <1>2, <1>9 DEF AdvancedByApproval, Enough
  <2>6. QED
    BY <1>3, <2>2, <2>3, <2>4, <2>5 DEF ApprovalIInv
<1>10. CASE /\ decided'[r]["reject"] = 0 /\ (Enough(r) => stage = Rejected)
            /\ UNCHANGED <<stage, pending>>
  <2>1. ApprovalTypeOK'
    BY <1>2, <1>3, <1>4, <1>10 DEF ApprovalTypeOK
  <2>2. RejectionSticks'
    BY <1>8, <1>10 DEF RejectionSticks, Rejected
  <2>3. PendingIsOpen'
    <3> SUFFICES ASSUME pending # 0
                 PROVE  /\ pending = Len(requests)
                        /\ stage # Rejected
                        /\ decided'[pending]["approve"] < requests[pending].required
      BY <1>2, <1>10 DEF PendingIsOpen
    <3>1. /\ pending = Len(requests) /\ stage # Rejected
          /\ decided[pending]["approve"] < requests[pending].required
      BY DEF ApprovalIInv, PendingIsOpen
    <3>2. pending \in Ids /\ pending \in 1 .. Len(requests)
      BY <1>4, <3>1, ApprovalAssumption DEF Ids
    <3>3. CASE pending = r
      <4>1. ~ (decided'[r]["approve"] >= requests[r].required)
        BY <1>10, <3>1 DEF Enough
      <4>2. decided'[r]["approve"] \in Nat
        BY <1>2, <1>5, ApprovalAssumption
      <4>3. requests[r] \in [stage : 1 .. LastStage, required : Required]
        BY <1>2, <1>3, <3>2, <3>3, ElementOfSeq
      <4>4. requests[r].required \in Nat
        BY <4>3, ApprovalAssumption
      <4>5. QED
        BY <3>1, <3>3, <4>1, <4>2, <4>4
    <3>4. CASE pending # r
      BY <1>2, <3>1, <3>2, <3>4
    <3>5. QED
      BY <3>3, <3>4
  <2>4. AdvancedByApproval'
    BY <1>3, <1>10 DEF AdvancedByApproval
  <2>5. QED
    BY <1>3, <2>1, <2>2, <2>3, <2>4 DEF ApprovalIInv
<1>11. QED
  BY <1>7, <1>9, <1>10 DEF RecordDecision

LEMMA NextIInv == ApprovalIInv /\ [ApprovalNext]_approvalVars => ApprovalIInv'
<1> SUFFICES ASSUME ApprovalIInv, [ApprovalNext]_approvalVars PROVE ApprovalIInv'
  OBVIOUS
<1>1. CASE CreateExperiment
  BY <1>1, CreateIInv
<1>2. CASE SubmitForApproval
  BY <1>2, SubmitIInv
<1>3. CASE \E r \in Ids : RequestChanges(r)
  BY <1>3, ChangesIInv
<1>4. CASE \E r \in Ids, d \in Decision : RecordDecision(r, d)
  BY <1>4, DecisionIInv
<1>5. CASE UNCHANGED approvalVars
  BY <1>5 DEF approvalVars, ApprovalIInv, ApprovalTypeOK, NewIsUndecided, RejectionSticks,
              PendingIsOpen, AdvancedByApproval
<1>6. QED
  BY <1>1, <1>2, <1>3, <1>4, <1>5 DEF ApprovalNext

LEMMA Invariance == ApprovalSpec => []ApprovalIInv
  BY ApprovalStarts, NextIInv, PTL DEF ApprovalSpec

\* Stages, requests and counts keep their types, and the pending request exists.
THEOREM ApprovalTypeCorrect == ApprovalSpec => []ApprovalTypeOK
<1>1. ApprovalIInv => ApprovalTypeOK
  BY DEF ApprovalIInv
<1>2. QED
  BY <1>1, Invariance, PTL

\* The experiment is rejected exactly when one of its requests has a rejection,
\* however many approvals arrive later on that request or on another.
THEOREM RejectionIsFinal == ApprovalSpec => []RejectionSticks
<1>1. ApprovalIInv => RejectionSticks
  BY DEF ApprovalIInv
<1>2. QED
  BY <1>1, Invariance, PTL

\* The pending request is the latest one and is undecided: no rejection and fewer
\* approvals than it requires.
THEOREM PendingStaysOpen == ApprovalSpec => []PendingIsOpen
<1>1. ApprovalIInv => PendingIsOpen
  BY DEF ApprovalIInv
<1>2. QED
  BY <1>1, Invariance, PTL

\* No experiment leaves the first stage without one request that has all the
\* approvals it requires.
THEOREM AdvanceNeedsApproval == ApprovalSpec => []AdvancedByApproval
<1>1. ApprovalIInv => AdvancedByApproval
  BY DEF ApprovalIInv
<1>2. QED
  BY <1>1, Invariance, PTL

\* Both verdicts on an experiment: rejected for a rejection, advanced for an approval.
THEOREM VerdictsAlwaysHold == ApprovalSpec => []VerdictsHold
  BY RejectionIsFinal, AdvanceNeedsApproval, PTL DEF VerdictsHold

-----------------------------------------------------------------------------
(* The parts together                                                      *)

\* Whichever part is driven, the others stand still, so that each is as it is alone.
LEMMA ResearchParts ==
  [ResearchNext]_researchVars =>
    [Next]_vars /\ [ApprovalNext]_approvalVars /\ [PromotionNext]_promotionVars
<1>1. ASSUME ResearchNext
      PROVE  [Next]_vars /\ [ApprovalNext]_approvalVars /\ [PromotionNext]_promotionVars
  BY <1>1 DEF ResearchNext
<1>2. ASSUME UNCHANGED researchVars
      PROVE  UNCHANGED vars /\ UNCHANGED approvalVars /\ UNCHANGED promotionVars
  BY <1>2 DEF researchVars
<1>3. QED
  BY <1>1, <1>2

\* A behaviour of the parts together is one of each of them, so that each theorem about a
\* part holds of the composition that is checked.
THEOREM ResearchCompose == ResearchSpec => Spec /\ ApprovalSpec /\ PromotionSpec
<1>1. ResearchInit => Init /\ ApprovalInit /\ PromotionInit
  BY DEF ResearchInit
<1>2. QED
  BY <1>1, ResearchParts, PTL DEF ResearchSpec, Spec, ApprovalSpec, PromotionSpec

\* For any graph, runs, stages, requests and decisions, the executions, the requests, the
\* decisions and the records of both pipelines keep their types.
THEOREM ResearchTypeCorrect == ResearchSpec => []ResearchTypeOK
<1> DEFINE I == RunnerInv /\ ApprovalIInv /\ PromotionInv
<1>1. ResearchInit => I
  BY RunnerStart, ApprovalStarts, PromotionStarts DEF ResearchInit
<1>2. I /\ [ResearchNext]_researchVars => I'
  BY ResearchParts, RunnerStep, NextIInv, PromotionStep
<1>3. I => ResearchTypeOK
  BY DEF RunnerInv, ApprovalIInv, PromotionInv, ResearchTypeOK
<1> HIDE DEF I
<1>4. QED
  BY <1>1, <1>2, <1>3, PTL DEF ResearchSpec
=============================================================================
