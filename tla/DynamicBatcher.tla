--------------------------- MODULE DynamicBatcher ---------------------------
(***************************************************************************)
(* cadgenesis.serving.batching.DynamicBatcher: request threads hand        *)
(* payloads to submit() and get a Future; one worker thread collects the   *)
(* pending requests into batches, calls the injected dispatch function     *)
(* outside the lock, and resolves the futures; shutdown() stops it.        *)
(*                                                                         *)
(* Each critical section of the Condition self._lock is one step.  What    *)
(* the code does WITHOUT the lock is a step of its own: the test of        *)
(* self._stopped at the head of submit(), the call of dispatch, every      *)
(* set_result / set_exception, and the done() test that precedes one.      *)
(* A client may cancel the Future it was given at any of those points:     *)
(* nobody calls set_running_or_notify_cancel on it.                        *)
(***************************************************************************)
EXTENDS Naturals, Sequences, SequencesExt

CONSTANTS
  Requests,  \* the calls of submit(), each made by a thread of its own
  Closers,   \* the calls of shutdown(), each made by a thread of its own
  MaxBatch   \* self.max_batch

ASSUME MaxBatchAssumption == MaxBatch \in Nat \ {0}

VARIABLES
  stopped,  \* self._stopped
  pending,  \* self._pending, the requests in arrival order
  caller,   \* where each submit() call is
  future,   \* the state of the Future of each request
  worker,   \* where the worker thread is
  batch,    \* the requests of the current batch that are still to be resolved
  outcome,  \* what dispatch gave for the current batch
  closer,   \* where each shutdown() call is
  drained   \* the requests each shutdown() call took and has not resolved

listVars == <<stopped, pending>>
clientVars == <<caller, future>>
workerVars == <<worker, batch, outcome>>
closerVars == <<closer, drained>>
vars == <<listVars, clientVars, workerVars, closerVars>>

Init ==
  /\ stopped = FALSE
  /\ pending = <<>>
  /\ caller = [r \in Requests |-> "idle"]
  /\ future = [r \in Requests |-> "none"]
  /\ worker = "top"
  /\ batch = <<>>
  /\ outcome = "none"
  /\ closer = [c \in Closers |-> "idle"]
  /\ drained = [c \in Closers |-> <<>>]

-----------------------------------------------------------------------------
(* submit(), and the client's cancel()                                     *)

\* The unlocked test of self._stopped.
SubmitCheck(r) ==
  /\ caller[r] = "idle"
  /\ caller' = [caller EXCEPT ![r] = IF stopped THEN "refused" ELSE "admitted"]
  /\ UNCHANGED <<listVars, future, workerVars, closerVars>>

\* Mutant of Notify: notify_all() is forgotten.
NotifyForgotten == UNCHANGED worker

\* notify_all(): a parked worker returns to the top of its loop.  A worker in its
\* timed wait needs no wake-up: that wait ends by itself.
Notify == worker' = IF worker = "parked" THEN "top" ELSE worker

\* The locked append.  self._stopped is not looked at again.
SubmitAppend(r) ==
  /\ caller[r] = "admitted"
  /\ caller' = [caller EXCEPT ![r] = "returned"]
  /\ future' = [future EXCEPT ![r] = "pending"]
  /\ pending' = Append(pending, r)
  /\ Notify
  /\ UNCHANGED <<stopped, batch, outcome, closerVars>>

Cancel(r) ==
  /\ future[r] = "pending"
  /\ future' = [future EXCEPT ![r] = "cancelled"]
  /\ UNCHANGED <<listVars, caller, workerVars, closerVars>>

-----------------------------------------------------------------------------
(* _run() and _execute(): the worker thread                                *)

\* The worker leaves when it finds self._stopped at the top of its loop, or when
\* a notification ends its timed wait.  A timeout that comes first skips the test.
WorkerExit ==
  /\ worker \in {"top", "window"} /\ stopped
  /\ worker' = "exited"
  /\ UNCHANGED <<listVars, clientVars, batch, outcome, closerVars>>

\* wait() with nothing pending, or wait(timeout=poll) on a batch that is not full
\* and whose first request has not waited max_wait.
WorkerWait ==
  /\ worker = "top" /\ ~stopped
  /\ \/ pending = <<>> /\ worker' = "parked"
     \/ Len(pending) \in 1..(MaxBatch - 1) /\ worker' = "window"
  /\ UNCHANGED <<listVars, clientVars, batch, outcome, closerVars>>

Prefix(q) == SubSeq(q, 1, IF Len(q) < MaxBatch THEN Len(q) ELSE MaxBatch)

\* Mutant of Rest: the list is not shortened.
RestKept(q) == q

Rest(q) == SubSeq(q, Len(Prefix(q)) + 1, Len(q))

\* The window is over (full batch, or max_wait elapsed) or was never opened.
\* shutdown() may have emptied self._pending during the window: the batch is then
\* empty and dispatch is called all the same.
WorkerTakeBatch ==
  /\ worker = "window" \/ (worker = "top" /\ ~stopped /\ pending # <<>>)
  /\ batch' = Prefix(pending)
  /\ pending' = Rest(pending)
  /\ worker' = "dispatch"
  /\ UNCHANGED <<stopped, clientVars, outcome, closerVars>>

\* dispatch returns one result per request; raising, or returning another number
\* of results, is the error of the whole batch.
WorkerDispatched ==
  /\ worker = "dispatch"
  /\ outcome' \in {"result", "error"}
  /\ worker' = "resolve"
  /\ UNCHANGED <<listVars, clientVars, batch, closerVars>>

\* Every future of the batch has been handled.
WorkerNext ==
  /\ worker = "resolve" /\ batch = <<>>
  /\ worker' = "top"
  /\ outcome' = "none"
  /\ UNCHANGED <<listVars, clientVars, batch, closerVars>>

\* Mutant of ResolveHead: the outcome is forced on a future that is done.
ResolveHeadForced ==
  /\ future' = [future EXCEPT ![Head(batch)] = outcome]
  /\ batch' = Tail(batch)
  /\ worker' = "resolve"

\* set_result() / set_exception() on the first remaining future.  On one that is
\* done it raises InvalidStateError, which nothing catches: the worker thread
\* dies with the rest of the batch in its hands.
ResolveHead ==
  IF future[Head(batch)] = "pending"
  THEN /\ future' = [future EXCEPT ![Head(batch)] = outcome]
       /\ batch' = Tail(batch)
       /\ worker' = "resolve"
  ELSE /\ worker' = "crashed"
       /\ UNCHANGED <<future, batch>>

\* set_result is called at once; set_exception only after the done() test.
WorkerResolve ==
  /\ batch # <<>>
  /\ (worker = "resolve" /\ outcome = "result") \/ worker = "guarded"
  /\ ResolveHead
  /\ UNCHANGED <<listVars, caller, outcome, closerVars>>

WorkerTestDone ==
  /\ worker = "resolve" /\ outcome = "error" /\ batch # <<>>
  /\ IF future[Head(batch)] = "pending"
     THEN worker' = "guarded" /\ UNCHANGED batch
     ELSE batch' = Tail(batch) /\ UNCHANGED worker
  /\ UNCHANGED <<listVars, clientVars, outcome, closerVars>>

-----------------------------------------------------------------------------
(* shutdown()                                                              *)

\* Mutant of CloserDrain: self._pending is not reset.
CloserDrainKept(c) ==
  /\ closer[c] = "idle"
  /\ stopped' = TRUE
  /\ drained' = [drained EXCEPT ![c] = pending]
  /\ Notify
  /\ closer' = [closer EXCEPT ![c] = "draining"]
  /\ UNCHANGED <<pending, clientVars, batch, outcome>>

\* Under the lock: stop, take the whole list, wake the worker.
CloserDrain(c) ==
  /\ closer[c] = "idle"
  /\ stopped' = TRUE
  /\ drained' = [drained EXCEPT ![c] = pending]
  /\ pending' = <<>>
  /\ Notify
  /\ closer' = [closer EXCEPT ![c] = "draining"]
  /\ UNCHANGED <<clientVars, batch, outcome>>

\* set_exception() on one drained future; InvalidStateError ends the call.
CloserResolve(c) ==
  /\ closer[c] = "draining" /\ drained[c] # <<>>
  /\ IF future[Head(drained[c])] = "pending"
     THEN /\ future' = [future EXCEPT ![Head(drained[c])] = "error"]
          /\ drained' = [drained EXCEPT ![c] = Tail(@)]
          /\ UNCHANGED closer
     ELSE /\ closer' = [closer EXCEPT ![c] = "raised"]
          /\ UNCHANGED <<future, drained>>
  /\ UNCHANGED <<listVars, caller, workerVars>>

\* join(timeout=2.0) returns whether the worker is gone or not; a call made by
\* the worker thread itself does not join.
CloserReturn(c) ==
  /\ closer[c] = "draining" /\ drained[c] = <<>>
  /\ closer' = [closer EXCEPT ![c] = "returned"]
  /\ UNCHANGED <<listVars, clientVars, workerVars, drained>>

-----------------------------------------------------------------------------
CallerStep(r) == SubmitCheck(r) \/ SubmitAppend(r) \/ Cancel(r)
WorkerStep ==
  \/ WorkerExit \/ WorkerWait \/ WorkerTakeBatch \/ WorkerDispatched
  \/ WorkerNext \/ WorkerResolve \/ WorkerTestDone
CloserStep(c) == CloserResolve(c) \/ CloserReturn(c)

\* Every thread has ended: the process idles for good.
Terminating ==
  /\ worker \in {"parked", "exited", "crashed"}
  /\ \A r \in Requests : caller[r] \in {"returned", "refused"} /\ future[r] # "pending"
  /\ \A c \in Closers : closer[c] \in {"returned", "raised"}
  /\ UNCHANGED vars

Next ==
  \/ \E r \in Requests : CallerStep(r)
  \/ WorkerStep
  \/ \E c \in Closers : CloserDrain(c) \/ CloserStep(c)
  \/ Terminating

Spec == Init /\ [][Next]_vars

\* The worker thread runs, its timed wait ends (time.monotonic() grows), dispatch
\* returns, a shutdown() in progress goes on.  Nobody has to call submit, cancel
\* or shutdown.
Fairness ==
  /\ WF_vars(WorkerStep)
  /\ \A c \in Closers : WF_vars(CloserStep(c))

FairSpec == Spec /\ Fairness

-----------------------------------------------------------------------------
(* Properties                                                              *)

TypeOK ==
  /\ stopped \in BOOLEAN
  /\ pending \in Seq(Requests)
  /\ caller \in [Requests -> {"idle", "admitted", "returned", "refused"}]
  /\ future \in [Requests -> {"none", "pending", "result", "error", "cancelled"}]
  /\ worker \in {"top", "parked", "window", "dispatch", "resolve", "guarded", "exited",
                 "crashed"}
  /\ batch \in Seq(Requests)
  /\ outcome \in {"none", "result", "error"}
  /\ closer \in [Closers -> {"idle", "draining", "returned", "raised"}]
  /\ drained \in [Closers -> Seq(Requests)]

\* A request waits in one place only, once: in the list, in the worker's batch or
\* with one shutdown() call.  So the worker and a shutdown() call never both have
\* the same future to resolve (submit, _run and shutdown hand requests over).
OneHolder ==
  /\ IsInjective(pending)
  /\ IsInjective(batch)
  /\ \A c \in Closers : IsInjective(drained[c])
  /\ ToSet(pending) \cap ToSet(batch) = {}
  /\ \A c \in Closers : ToSet(drained[c]) \cap (ToSet(pending) \cup ToSet(batch)) = {}
  /\ \A c, d \in Closers : c # d => ToSet(drained[c]) \cap ToSet(drained[d]) = {}

Held == ToSet(pending) \cup ToSet(batch) \cup UNION {ToSet(drained[c]) : c \in Closers}

\* No future is dropped on a hand-over: one that is not done is still held by
\* someone, whatever the worker, the clients and the shutdown() calls did.
NoneDropped == \A r \in Requests : future[r] = "pending" => r \in Held

\* Who holds a request is about to act, and not asleep or gone: the worker never parks
\* over a list or past a shutdown (no wake-up is lost between its test and its wait), it
\* leaves only when stopped, and no shutdown() returns with what it took.
HoldersAct ==
  /\ worker = "parked" => pending = <<>> /\ ~stopped
  /\ worker = "exited" => stopped
  /\ batch # <<>> => worker \in {"dispatch", "resolve", "guarded", "crashed"}
  /\ \A c \in Closers : drained[c] # <<>> => closer[c] \in {"draining", "raised"}

\* A request on its way has one holder, and no more, who goes on with it.
HeldByOne == OneHolder /\ NoneDropped /\ HoldersAct

\* The only thing that kills the worker thread, or makes shutdown() raise, is a
\* client that cancelled the very future being resolved: the threads of the
\* batcher never get in each other's way.
FailsOnlyOnCancel ==
  /\ worker = "crashed" => batch # <<>> /\ future[Head(batch)] = "cancelled"
  /\ \A c \in Closers :
       closer[c] = "raised" => drained[c] # <<>> /\ future[Head(drained[c])] = "cancelled"

\* Liveness: a request in the list before any shutdown() is settled in the end,
\* unless a cancelled future killed the worker or a shutdown() call.
SubmittedSettles ==
  \A r \in Requests :
    (future[r] = "pending" /\ ~stopped)
      ~> \/ future[r] # "pending"
         \/ worker = "crashed"
         \/ \E c \in Closers : closer[c] = "raised"

\* Liveness: shutdown() stops the worker wherever it is (no lost wake-up: parked,
\* in its timed wait, or dispatching), and shutdown() itself ends.
ShutdownStops ==
  /\ stopped ~> worker \in {"exited", "crashed"}
  /\ \A c \in Closers : closer[c] = "draining" ~> closer[c] \in {"returned", "raised"}

\* Both: neither a request nor a shutdown() waits for ever.
EveryoneEnds == SubmittedSettles /\ ShutdownStops

\* The batcher implements FutureService: the admission test, the list, the
\* batches and the drains are steps of admitting, submitting and completing.
Service == INSTANCE FutureService WITH
  open <- ~stopped,
  admitted <- {r \in Requests : caller[r] \in {"admitted", "returned"}}

ImplementsService == Service!Spec
=============================================================================
