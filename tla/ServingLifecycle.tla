-------------------------- MODULE ServingLifecycle --------------------------
(***************************************************************************)
(* cadgenesis.serving.lifecycle.ModelLifecycle with the handlers of        *)
(* serving.api that use it.  load() holds the lock while the weights are   *)
(* read, so that get() waits for it; "name in lifecycle", which decides    *)
(* whether a request is admitted, takes no lock.                           *)
(***************************************************************************)
EXTENDS Integers, FiniteSets

CONSTANTS
  Paths,       \* checkpoints that load() is called with
  Loaders,     \* threads that load and unload the default model
  Clients,     \* threads that serve a request
  MaxLoads     \* bound: calls of load_fn

ASSUME LifecycleAssumption == "nobody" \notin Loaders /\ MaxLoads \in Nat

VARIABLES
  served,     \* the record of the default model, or NotServed
  loader,     \* the thread that holds the lock, and the path it loads
  loads,      \* calls of load_fn so far; the n-th one yields engine n
  request,    \* where each client's request is
  disturbed,  \* ghost: the requests that saw an unload, a failed load or the record of one
  retired,    \* ghost: the engines that were replaced
  before      \* ghost: those replaced before each request was admitted

lifecycleVars == <<served, loader, loads, request, disturbed, retired, before>>

NotServed == [path |-> "none", engine |-> 0, healthy |-> FALSE]
NoEngine == 0
Nobody == [who |-> "nobody", path |-> "none"]

LifecycleInit ==
  /\ served = NotServed /\ loader = Nobody /\ loads = 0
  /\ request = [c \in Clients |-> [at |-> "none", engine |-> NoEngine]]
  /\ disturbed = {} /\ retired = {} /\ before = [c \in Clients |-> {}]

Admitted == {c \in Clients : request[c].at = "admitted"}

\* load(), once it holds the lock, calls load_fn, unless that path is served already.
BeginLoad(a) ==
  \E p \in Paths, force \in BOOLEAN :
    /\ loader = Nobody /\ loads < MaxLoads
    /\ force \/ served.path # p
    /\ loader' = [who |-> a, path |-> p] /\ loads' = loads + 1
    /\ UNCHANGED <<served, request, disturbed, retired, before>>

Replaced == IF served.engine = NoEngine THEN retired ELSE retired \cup {served.engine}

\* Mutant of LoadSucceeds: a record that is there gets the new path and keeps its engine.
LoadSucceedsInPlace(a) ==
  /\ loader.who = a
  /\ served' = IF served.healthy THEN [served EXCEPT !.path = loader.path]
               ELSE [path |-> loader.path, engine |-> loads, healthy |-> TRUE]
  /\ retired' = Replaced /\ loader' = Nobody
  /\ UNCHANGED <<loads, request, disturbed, before>>

LoadSucceeds(a) ==
  /\ loader.who = a
  /\ served' = [path |-> loader.path, engine |-> loads, healthy |-> TRUE]
  /\ retired' = Replaced /\ loader' = Nobody
  /\ UNCHANGED <<loads, request, disturbed, before>>

\* Mutant of LoadFails: the record is left as healthy as its class makes it.
LoadFailsHealthy(a) ==
  /\ loader.who = a
  /\ served' = [path |-> loader.path, engine |-> NoEngine, healthy |-> TRUE]
  /\ retired' = Replaced /\ loader' = Nobody
  /\ disturbed' = disturbed \cup Admitted
  /\ UNCHANGED <<loads, request, before>>

\* load_fn or the warm-up raises: the record without an engine takes the model's place.
LoadFails(a) ==
  /\ loader.who = a
  /\ served' = [path |-> loader.path, engine |-> NoEngine, healthy |-> FALSE]
  /\ retired' = Replaced /\ loader' = Nobody
  /\ disturbed' = disturbed \cup Admitted
  /\ UNCHANGED <<loads, request, before>>

Unload(a) ==
  /\ loader = Nobody /\ served # NotServed
  /\ served' = NotServed /\ retired' = Replaced
  /\ disturbed' = disturbed \cup Admitted
  /\ UNCHANGED <<loader, loads, request, before>>

\* generate(): "default" not in lifecycle is a 503.
Refuse(c) ==
  /\ request[c].at = "none" /\ served = NotServed
  /\ request' = [request EXCEPT ![c].at = "refused"]
  /\ UNCHANGED <<served, loader, loads, disturbed, retired, before>>

Admit(c) ==
  /\ request[c].at = "none" /\ served # NotServed
  /\ request' = [request EXCEPT ![c].at = "admitted"]
  /\ before' = [before EXCEPT ![c] = retired]
  /\ disturbed' = IF served.healthy THEN disturbed ELSE disturbed \cup {c}
  /\ UNCHANGED <<served, loader, loads, retired>>

\* engine(), in the thread pool and under the lock: a KeyError without an engine.
GetEngine(c) ==
  /\ request[c].at = "admitted" /\ loader = Nobody
  /\ request' = [request EXCEPT ![c] = IF served.engine = NoEngine
                                       THEN [at |-> "failed", engine |-> NoEngine]
                                       ELSE [at |-> "generating", engine |-> served.engine]]
  /\ UNCHANGED <<served, loader, loads, disturbed, retired, before>>

\* The engine answers, although it may have been replaced since.
Answer(c) ==
  /\ request[c].at = "generating"
  /\ request' = [request EXCEPT ![c].at = "answered"]
  /\ UNCHANGED <<served, loader, loads, disturbed, retired, before>>

LifecycleNext ==
  \/ \E a \in Loaders : BeginLoad(a) \/ LoadSucceeds(a) \/ LoadFails(a) \/ Unload(a)
  \/ \E c \in Clients : Refuse(c) \/ Admit(c) \/ GetEngine(c) \/ Answer(c)

LifecycleSpec == LifecycleInit /\ [][LifecycleNext]_lifecycleVars

-----------------------------------------------------------------------------
(* Properties                                                              *)

LifecycleTypeOK ==
  /\ served \in [path : Paths \cup {"none"}, engine : 0 .. loads, healthy : BOOLEAN]
  /\ served.healthy <=> served.engine # NoEngine
  /\ request \in [Clients -> [at : {"none", "refused", "admitted", "generating", "failed", "answered"},
                              engine : 0 .. loads]]

\* A reload that succeeds is not seen by any request: one that was admitted fails only if
\* an unload or a failed load came between, or what admitted it was the record of a
\* failed load.  None is given an engine that was gone when it was admitted.
ReloadIsSeamless ==
  \A c \in Clients :
    /\ request[c].at = "failed" => c \in disturbed
    /\ request[c].at \in {"generating", "answered"} => request[c].engine \notin before[c]
=============================================================================
