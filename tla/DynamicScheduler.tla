-------------------------- MODULE DynamicScheduler --------------------------
(***************************************************************************)
(* cadgenesis.agents.scheduling.DynamicScheduler: submit() appends to a    *)
(* list, at any time, and run() executes a copy of that list, one task     *)
(* after the other, in its caller's thread.  There is no lock: threads     *)
(* submit during a run, and may run at once.                               *)
(***************************************************************************)
EXTENDS Integers, Sequences

CONSTANTS
  Items,        \* tasks
  Callers,      \* threads that call run()
  MaxAccepted,  \* bound: calls of submit()
  MaxServings   \* bound: calls of run()

ASSUME DynamicAssumption == MaxAccepted \in Nat /\ MaxServings \in Nat

VARIABLES
  accepted,    \* _submitted, which only grows
  itemStatus,  \* of each task
  isRunning,   \* _running
  serving,     \* of each thread: where it is in run(), with its queue and counts
  servings,
  began,       \* ghost: how many tasks run() found when it copied the list
  served       \* ghost: the tasks it executed

dynamicVars == <<accepted, itemStatus, isRunning, serving, servings, began, served>>

Outside == [at |-> "idle", queue |-> <<>>, completed |-> 0, failed |-> 0, total |-> 0]

DynamicInit ==
  /\ accepted = <<>> /\ itemStatus = [t \in Items |-> "pending"]
  /\ isRunning = FALSE /\ serving = [c \in Callers |-> Outside] /\ servings = 0
  /\ began = [c \in Callers |-> 0]
  /\ served = [c \in Callers |-> {}]

\* submit(): the task is appended, whoever is running and whether or not it is there.
SubmitItem ==
  \E t \in Items :
    /\ Len(accepted) < MaxAccepted
    /\ accepted' = Append(accepted, t)
    /\ UNCHANGED <<itemStatus, isRunning, serving, servings, began, served>>

EnterRun(c) ==
  /\ serving[c].at \in {"idle", "returned"} /\ servings < MaxServings
  /\ isRunning' = TRUE /\ servings' = servings + 1
  /\ serving' = [serving EXCEPT ![c] = [Outside EXCEPT !.at = "entered"]]
  /\ UNCHANGED <<accepted, itemStatus, began, served>>

CopyTasks(c) ==
  /\ serving[c].at = "entered"
  /\ serving' = [serving EXCEPT ![c].at = "choosing", ![c].queue = accepted]
  /\ began' = [began EXCEPT ![c] = Len(accepted)]
  /\ served' = [served EXCEPT ![c] = {}]
  /\ UNCHANGED <<accepted, itemStatus, isRunning, servings>>

TakeTask(c) ==
  /\ serving[c].at = "choosing" /\ serving[c].queue # <<>>
  /\ serving' = [serving EXCEPT ![c].at = "executing"]
  /\ itemStatus' = [itemStatus EXCEPT ![Head(serving[c].queue)] = "running"]
  /\ UNCHANGED <<accepted, isRunning, servings, began, served>>

\* The task c has taken is over.  (Its queue is a local list: the head goes only now.)
Settle(c, status, count) ==
  /\ serving[c].at = "executing"
  /\ serving' = [serving EXCEPT ![c] = [count EXCEPT !.at = "choosing", !.queue = Tail(@)]]
  /\ itemStatus' = [itemStatus EXCEPT ![Head(serving[c].queue)] = status]
  /\ served' = [served EXCEPT ![c] = @ \cup {Head(serving[c].queue)}]
  /\ UNCHANGED <<accepted, isRunning, servings, began>>

TaskSucceeds(c) == Settle(c, "completed", [serving[c] EXCEPT !.completed = @ + 1])

\* Mutant of TaskFails: what raises is not counted.
TaskFailsUncounted(c) == Settle(c, "failed", serving[c])

\* execute_fn reports failure or raises.
TaskFails(c) == Settle(c, "failed", [serving[c] EXCEPT !.failed = @ + 1])

\* Whoever is through says that nothing runs, another run() notwithstanding.
LeaveLoop(c) ==
  /\ serving[c].at = "choosing" /\ serving[c].queue = <<>>
  /\ isRunning' = FALSE
  /\ serving' = [serving EXCEPT ![c].at = "leaving"]
  /\ UNCHANGED <<accepted, itemStatus, servings, began, served>>

ReturnStats(c) ==
  /\ serving[c].at = "leaving"
  /\ serving' = [serving EXCEPT ![c].at = "returned", ![c].total = Len(accepted)]
  /\ UNCHANGED <<accepted, itemStatus, isRunning, servings, began, served>>

DynamicNext ==
  \/ SubmitItem
  \/ \E c \in Callers : \/ EnterRun(c) \/ CopyTasks(c) \/ TakeTask(c) \/ TaskSucceeds(c)
                        \/ TaskFails(c) \/ LeaveLoop(c) \/ ReturnStats(c)

DynamicSpec == DynamicInit /\ [][DynamicNext]_dynamicVars

-----------------------------------------------------------------------------
(* Properties                                                              *)

Serving == [at : {"idle", "entered", "choosing", "executing", "leaving", "returned"},
            queue : Seq(Items), completed : Nat, failed : Nat, total : Nat]

DynamicTypeOK ==
  /\ accepted \in Seq(Items) /\ isRunning \in BOOLEAN /\ servings \in Nat
  /\ itemStatus \in [Items -> {"pending", "running", "completed", "failed"}]
  /\ serving \in [Callers -> Serving]
  /\ began \in [Callers -> Nat]
  /\ served \in [Callers -> SUBSET Items]

\* Whatever is submitted meanwhile and however many threads run at once: a run() that
\* returned executed every task that was there when it began and counted each exactly
\* once, and a task reads "running" only while somebody executes it.
RunServesItsTasks ==
  /\ \A c \in Callers : serving[c].at = "returned" =>
       /\ \A i \in 1 .. began[c] : accepted[i] \in served[c]
       /\ serving[c].completed + serving[c].failed = began[c]
       /\ began[c] <= serving[c].total
  /\ \A t \in Items : itemStatus[t] = "running" =>
       \E c \in Callers : serving[c].at = "executing" /\ Head(serving[c].queue) = t
=============================================================================
