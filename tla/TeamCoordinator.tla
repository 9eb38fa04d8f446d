-------------------------- MODULE TeamCoordinator --------------------------
(***************************************************************************)
(* cadgenesis.agents.coordinator on top of agents.scheduler.TaskScheduler: *)
(* tasks are submitted with the names of those they wait for; run_all()    *)
(* reads a batch of them and executes it, again and again until it reads   *)
(* none, run_batch() does so once, and step() reads one and writes "ready" *)
(* into each.  Neither class has a lock.  Every thread goes through a list *)
(* of its own, and a step reads or writes one status: the tasks first,     *)
(* then what the pending ones wait for, then one write after the other,    *)
(* whatever became of the task since.  run_all() reads twice before each   *)
(* batch; the first of the two reads has no effect and is left out.        *)
(***************************************************************************)
EXTENDS Integers, FiniteSets

CONSTANTS
  Jobs,      \* task ids
  Runners    \* threads that call run_all(), run_batch() and step()

ASSUME TeamAssumption == IsFiniteSet(Runners)

VARIABLES
  submitted,  \* the tasks of the scheduler
  waitsFor,   \* pairs of a task and one of its depends_on
  jobStatus,
  inside,     \* the call each thread is in, or "none"
  unread,     \* the tasks whose status it has yet to read
  unmet,      \* pairs of a task it read as pending and one of its depends_on, to be read
  list,       \* what is left of the list it reads, or goes through
  going,      \* the threads that have read their list
  running,    \* the task each thread executes, if any
  promoted,   \* ghost: the tasks step() wrote to
  abandoned,  \* ghost: the tasks whose agent raised
  starts,     \* ghost: how often each task was started
  succeeded   \* ghost: the tasks that completed at least once

readVars == <<inside, unread, unmet, list, going>>
ghostVars == <<promoted, abandoned, starts, succeeded>>
teamVars == <<submitted, waitsFor, jobStatus, readVars, running, ghostVars>>

NoJobs == {}
JobStatuses == {"pending", "ready", "running", "completed", "failed"}

TeamInit ==
  /\ submitted = {} /\ waitsFor = {}
  /\ jobStatus = [j \in Jobs |-> "pending"]
  /\ inside = [r \in Runners |-> "none"] /\ going = {}
  /\ unread = [r \in Runners |-> {}] /\ unmet = [r \in Runners |-> {}]
  /\ list = [r \in Runners |-> {}] /\ running = [r \in Runners |-> NoJobs]
  /\ promoted = {} /\ abandoned = {} /\ succeeded = {}
  /\ starts = [j \in Jobs |-> 0]

\* A thread in the middle of the loop over the tasks gets a RuntimeError, for the dictionary
\* has changed its size, and leaves its call.
Submit ==
  \E j \in Jobs \ submitted, ds \in SUBSET Jobs :
    LET outside == {r \in Runners : unread[r] # {}}
        Emptied(f) == [r \in Runners |-> IF r \in outside THEN {} ELSE f[r]]
    IN  /\ submitted' = submitted \cup {j}
        /\ waitsFor' = waitsFor \cup {<<j, d>> : d \in ds}
        /\ inside' = [r \in Runners |-> IF r \in outside THEN "none" ELSE inside[r]]
        /\ unread' = Emptied(unread) /\ unmet' = Emptied(unmet) /\ list' = Emptied(list)
        /\ UNCHANGED <<jobStatus, going, running, ghostVars>>

-----------------------------------------------------------------------------
(* next_tasks(), and the first line of step()                              *)

BeginRead(r, call) ==
  /\ inside' = [inside EXCEPT ![r] = call]
  /\ unread' = [unread EXCEPT ![r] = submitted]
  /\ going' = going \ {r}
  /\ UNCHANGED <<submitted, waitsFor, jobStatus, unmet, list, running, ghostVars>>

Call(r) ==
  /\ inside[r] = "none"
  /\ \E call \in {"run_all", "run_batch", "step"} : BeginRead(r, call)

ReadStatus(r) ==
  \E j \in unread[r] :
    /\ unread' = [unread EXCEPT ![r] = @ \ {j}]
    /\ IF jobStatus[j] = "pending"
       THEN /\ list' = [list EXCEPT ![r] = @ \cup {j}]
            /\ unmet' = [unmet EXCEPT ![r] = @ \cup {p \in waitsFor : p[1] = j}]
       ELSE UNCHANGED <<list, unmet>>
    /\ UNCHANGED <<submitted, waitsFor, jobStatus, inside, going, running, ghostVars>>

\* Mutant of ReadDependency: an unknown dependency counts as met.
ReadDependencyUnknown(r) ==
  /\ unread[r] = {}
  /\ \E p \in unmet[r] :
       IF p[2] \notin submitted \/ jobStatus[p[2]] = "completed"
       THEN unmet' = [unmet EXCEPT ![r] = @ \ {p}] /\ UNCHANGED list
       ELSE /\ unmet' = [unmet EXCEPT ![r] = {q \in @ : q[1] # p[1]}]
            /\ list' = [list EXCEPT ![r] = @ \ {p[1]}]
  /\ UNCHANGED <<submitted, waitsFor, jobStatus, inside, unread, going, running, ghostVars>>

\* _dependencies_met(): a task that was not submitted is not met.
ReadDependency(r) ==
  /\ unread[r] = {}
  /\ \E p \in unmet[r] :
       IF p[2] \in submitted /\ jobStatus[p[2]] = "completed"
       THEN unmet' = [unmet EXCEPT ![r] = @ \ {p}] /\ UNCHANGED list
       ELSE /\ unmet' = [unmet EXCEPT ![r] = {q \in @ : q[1] # p[1]}]
            /\ list' = [list EXCEPT ![r] = @ \ {p[1]}]
  /\ UNCHANGED <<submitted, waitsFor, jobStatus, inside, unread, going, running, ghostVars>>

HasRead(r) == inside[r] # "none" /\ r \notin going /\ unread[r] = {} /\ unmet[r] = {}

\* The priorities and max_tasks decide what is cut off; run_all() always takes a task.
TakeList(r) ==
  /\ HasRead(r)
  /\ \E js \in SUBSET list[r] :
       /\ inside[r] = "step" => js = list[r]
       /\ inside[r] = "run_all" => js # {}
       /\ list' = [list EXCEPT ![r] = js]
  /\ going' = going \cup {r}
  /\ UNCHANGED <<submitted, waitsFor, jobStatus, inside, unread, unmet, running, ghostVars>>

RunAllReturns(r) ==
  /\ HasRead(r) /\ inside[r] = "run_all" /\ list[r] = {}
  /\ inside' = [inside EXCEPT ![r] = "none"]
  /\ UNCHANGED <<submitted, waitsFor, jobStatus, unread, unmet, list, going, running, ghostVars>>

-----------------------------------------------------------------------------
(* What becomes of the list                                                *)

\* step(): the status is "ready" whatever it has become since it was read.
StepWrites(r) ==
  /\ r \in going /\ inside[r] = "step"
  /\ \E j \in list[r] :
       /\ list' = [list EXCEPT ![r] = @ \ {j}]
       /\ jobStatus' = [jobStatus EXCEPT ![j] = "ready"]
       /\ promoted' = promoted \cup {j}
  /\ UNCHANGED <<submitted, waitsFor, inside, unread, unmet, going, running, abandoned, starts,
                 succeeded>>

\* mark_running() and the call of the agent.
StartJob(r) ==
  /\ r \in going /\ inside[r] # "step" /\ running[r] = NoJobs
  /\ \E j \in list[r] :
       /\ list' = [list EXCEPT ![r] = @ \ {j}]
       /\ running' = [running EXCEPT ![r] = {j}]
       /\ jobStatus' = [jobStatus EXCEPT ![j] = "running"]
       /\ starts' = [starts EXCEPT ![j] = @ + 1]
  /\ UNCHANGED <<submitted, waitsFor, inside, unread, unmet, going, promoted, abandoned, succeeded>>

FinishJob(r) ==
  \E j \in running[r], status \in {"completed", "failed"} :
    /\ running' = [running EXCEPT ![r] = NoJobs]
    /\ jobStatus' = [jobStatus EXCEPT ![j] = status]
    /\ succeeded' = IF status = "completed" THEN succeeded \cup {j} ELSE succeeded
    /\ UNCHANGED <<submitted, waitsFor, readVars, promoted, abandoned, starts>>

\* An agent may raise: the exception leaves the call, and the task stays "running".
AgentRaises(r) ==
  \E j \in running[r] :
    /\ running' = [running EXCEPT ![r] = NoJobs]
    /\ list' = [list EXCEPT ![r] = {}]
    /\ inside' = [inside EXCEPT ![r] = "none"] /\ going' = going \ {r}
    /\ abandoned' = abandoned \cup {j}
    /\ UNCHANGED <<submitted, waitsFor, jobStatus, unread, unmet, promoted, starts, succeeded>>

\* run_all() reads again, the other calls return.
ListEnds(r) ==
  /\ r \in going /\ list[r] = {} /\ running[r] = NoJobs
  /\ \/ inside[r] = "run_all" /\ BeginRead(r, "run_all")
     \/ /\ inside[r] # "run_all"
        /\ inside' = [inside EXCEPT ![r] = "none"] /\ going' = going \ {r}
        /\ UNCHANGED <<submitted, waitsFor, jobStatus, unread, unmet, list, running, ghostVars>>

TeamNext ==
  \/ Submit
  \/ \E r \in Runners :
       \/ Call(r) \/ ReadStatus(r) \/ ReadDependency(r) \/ TakeList(r) \/ RunAllReturns(r)
       \/ StepWrites(r) \/ StartJob(r) \/ FinishJob(r) \/ AgentRaises(r) \/ ListEnds(r)

TeamSpec == TeamInit /\ [][TeamNext]_teamVars

-----------------------------------------------------------------------------
(* Properties                                                              *)

TeamTypeOK ==
  /\ submitted \subseteq Jobs /\ waitsFor \subseteq submitted \X Jobs
  /\ jobStatus \in [Jobs -> JobStatuses] /\ starts \in [Jobs -> Nat]
  /\ inside \in [Runners -> {"none", "run_all", "run_batch", "step"}]
  /\ unread \in [Runners -> SUBSET submitted] /\ unmet \in [Runners -> SUBSET waitsFor]
  /\ list \in [Runners -> SUBSET submitted] /\ going \subseteq Runners
  /\ running \in [Runners -> SUBSET submitted] /\ \A r \in Runners : Cardinality(running[r]) <= 1
  /\ promoted \cup abandoned \cup succeeded \subseteq submitted

\* No task is started before everything it waits for has completed once, and none more
\* often than there are threads.
DependenciesFirst ==
  \A j \in Jobs :
    /\ starts[j] <= Cardinality(Runners)
    /\ starts[j] > 0 => \A d \in Jobs : <<j, d>> \in waitsFor => d \in succeeded

\* What a thread that reads now would be offered.
Offered ==
  {j \in submitted :
     /\ jobStatus[j] = "pending"
     /\ \A d \in Jobs : <<j, d>> \in waitsFor => d \in submitted /\ jobStatus[d] = "completed"}

\* When every thread has returned and nothing is offered, a task is done, or waits for one
\* that is not, or was moved out of the queue by step() or left by an agent that raised.
NothingForgotten ==
  (\A r \in Runners : inside[r] = "none") /\ Offered = {} =>
    \A j \in submitted :
      \/ jobStatus[j] \in {"completed", "failed"} \/ j \in promoted \cup abandoned
      \/ \E d \in Jobs : <<j, d>> \in waitsFor /\ jobStatus[d] # "completed"

\* A task that completed is shown as completed, so that what waits for it is offered,
\* unless step() had read it as pending before and wrote to it, or two threads ran it.
DoneStaysDone ==
  \A j \in succeeded : jobStatus[j] = "completed" \/ j \in promoted \/ starts[j] > 1

\* Whatever threads in run_all(), run_batch() and step() do to each other's lists, the
\* tasks come in the order of their dependencies, none is lost unaccounted for, and only
\* these two overlaps take back what is done.
TasksInOrder == DependenciesFirst /\ NothingForgotten /\ DoneStaysDone
=============================================================================
