---------------------------- MODULE FutureService ----------------------------
(***************************************************************************)
(* What DynamicBatcher promises its clients, with no worker, list or lock: *)
(* a service that admits requests while it is open, gives each admitted    *)
(* request one Future, and completes every Future at most once, with a     *)
(* result, an error or the client's own cancellation.                      *)
(***************************************************************************)
CONSTANT Requests

VARIABLES
  open,      \* the service still admits requests
  admitted,  \* the requests it has admitted
  future     \* the Future of each request

vars == <<open, admitted, future>>

Init ==
  /\ open = TRUE
  /\ admitted = {}
  /\ future = [r \in Requests |-> "none"]

Admit(r) ==
  /\ open
  /\ r \notin admitted
  /\ admitted' = admitted \cup {r}
  /\ UNCHANGED <<open, future>>

Submit(r) ==
  /\ r \in admitted
  /\ future[r] = "none"
  /\ future' = [future EXCEPT ![r] = "pending"]
  /\ UNCHANGED <<open, admitted>>

Complete(r) ==
  /\ future[r] = "pending"
  /\ \E o \in {"result", "error", "cancelled"} : future' = [future EXCEPT ![r] = o]
  /\ UNCHANGED <<open, admitted>>

Close ==
  /\ open' = FALSE
  /\ UNCHANGED <<admitted, future>>

Next == Close \/ \E r \in Requests : Admit(r) \/ Submit(r) \/ Complete(r)

Spec == Init /\ [][Next]_vars
=============================================================================
