------------------------------ MODULE EventBus ------------------------------
(***************************************************************************)
(* cadgenesis.agents.event_bus.EventBus: publish/subscribe by priority     *)
(* with request/response correlation, and the SharedEventStore behind it.  *)
(*                                                                         *)
(* The heap, the subscriptions and the response buffers change under       *)
(* self._lock, one step each; handlers run outside it, in the thread that  *)
(* happened to pop the event, and may call the bus again.  Each thread     *)
(* therefore has a stack of the bus methods it is inside of.  An event is  *)
(* its sequence number.                                                    *)
(***************************************************************************)
EXTENDS Naturals, Sequences, SequencesExt, Lists

CONSTANTS
  Threads,
  Handlers,      \* the subscribers; Capture is the bus's own
  Capture,       \* capture_response, subscribed first and for responses only
  Picky,         \* the handlers whose filter_fn may raise
  Priorities,    \* of plain events
  ThreadCalls,   \* what each thread may call when it is in no method
  HandlerCalls,  \* what a handler may call
  MaxEvents,     \* bound: events published
  MaxStack       \* bound: methods a thread is inside of

Calls == {"publish", "request", "respond", "flush", "subscribe"}

ASSUME CaptureAssumption == Capture \notin Handlers
ASSUME PickyAssumption == Picky \subseteq Handlers
ASSUME CallsAssumption ==
  ThreadCalls \in [Threads -> SUBSET Calls] /\ HandlerCalls \subseteq Calls
ASSUME BoundAssumption ==
  Priorities \subseteq Nat /\ MaxEvents \in Nat /\ MaxStack \in Nat

VARIABLES
  autoFlush, \* _auto_flush, which the constructor fixes
  events,    \* the events by sequence number
  heap,      \* _pending_events
  subs,      \* _subs
  stack,     \* per thread: the methods it is inside of, innermost last
  buffer,    \* _pending_requests: per request, the captured responses
  replies,   \* per request: the list request() collects
  store,     \* the SharedEventStore
  received,  \* ghost: per handler, the events it was called with
  raised,    \* ghost: the events whose publish() raised, 0 for a flush()
  overlap    \* ghost: an event was popped while another one was being delivered

ghosts == <<received, raised, overlap>>
vars == <<autoFlush, events, heap, subs, stack, buffer, replies, store, ghosts>>

Id == 1 .. MaxEvents
Event == [prio : Nat, kind : {"event", "request", "response"}, corr : 0 .. MaxEvents]

\* A method in progress.  drain: publish(ev), or flush() when ev is 0, in _drain;
\* deliver and handle: _deliver(ev) with the subscriptions it has not come to yet,
\* between handlers and inside one; store: publish(ev) before store.append;
\* wait, take and done: the loop and the end of request(ev).
Frame == [pc : {"drain", "deliver", "handle", "store", "wait", "take", "done"},
          ev : 0 .. MaxEvents, rest : Seq(Handlers \cup {Capture})]

In(pc, e) == [pc |-> pc, ev |-> e, rest |-> <<>>]

Init ==
  /\ autoFlush \in BOOLEAN
  /\ events = <<>>
  /\ heap = {}
  /\ subs = <<Capture>>
  /\ stack = [t \in Threads |-> <<>>]
  /\ buffer = [e \in Id |-> <<>>]
  /\ replies = [e \in Id |-> <<>>]
  /\ store = <<>>
  /\ received = [h \in Handlers |-> <<>>]
  /\ raised = {}
  /\ overlap = FALSE

-----------------------------------------------------------------------------
(* The stack of a thread                                                   *)

Inside(t, pc) == stack[t] # <<>> /\ Last(stack[t]).pc = pc
Now(t) == Last(stack[t])
Enter(t, frames) == stack' = [stack EXCEPT ![t] = @ \o frames]
Leave(t) == stack' = [stack EXCEPT ![t] = Front(@)]
Become(t, frame) == stack' = [stack EXCEPT ![t] = Append(Front(@), frame)]

\* The thread may call a method of the bus: from outside, or from a handler.
May(t, call) ==
  \/ stack[t] = <<>> /\ call \in ThreadCalls[t]
  \/ Inside(t, "handle") /\ call \in HandlerCalls /\ Len(stack[t]) < MaxStack

\* An exception out of a filter ends every method up to the handler that called
\* the innermost of them: _deliver swallows what a handler raises.
Unwound(frames) ==
  LET hs == {i \in DOMAIN frames : frames[i].pc = "handle"}
  IN  IF hs = {} THEN <<>>
      ELSE LET top == CHOOSE i \in hs : \A j \in hs : j <= i
           IN  [SubSeq(frames, 1, top) EXCEPT ![top].pc = "deliver"]

\* The events whose publish() is among the frames from position n on.
Publishing(frames, n) ==
  {frames[i].ev : i \in {j \in n .. Len(frames) : frames[j].pc \in {"drain", "store"}}}

-----------------------------------------------------------------------------
(* publish, flush, request, respond                                        *)

\* Mutant of Push: leaves the delivery to a thread that is publishing already.
PushUnlessBusy(t, prio, kind, corr, outer) ==
  /\ Len(events) < MaxEvents
  /\ events' = Append(events, [prio |-> prio, kind |-> kind, corr |-> corr])
  /\ heap' = heap \cup {Len(events) + 1}
  /\ Enter(t, outer \o <<In(IF ~autoFlush \/ \E u \in Threads \ {t} : stack[u] # <<>> THEN "store" ELSE "drain",
                            Len(events) + 1)>>)
  /\ UNCHANGED <<autoFlush, subs, buffer, replies, store, ghosts>>

\* The head of publish(): number the event and push it, then drain if autoFlush.
Push(t, prio, kind, corr, outer) ==
  /\ Len(events) < MaxEvents
  /\ events' = Append(events, [prio |-> prio, kind |-> kind, corr |-> corr])
  /\ heap' = heap \cup {Len(events) + 1}
  /\ Enter(t, outer \o <<In(IF autoFlush THEN "drain" ELSE "store", Len(events) + 1)>>)
  /\ UNCHANGED <<autoFlush, subs, buffer, replies, store, ghosts>>

Publish(t) == May(t, "publish") /\ \E p \in Priorities : Push(t, p, "event", 0, <<>>)

\* The request is its own correlation id.
Request(t) ==
  /\ May(t, "request")
  /\ Push(t, 10, "request", Len(events) + 1, <<In("wait", Len(events) + 1)>>)

\* Whoever was handed a request may respond to it, at once or later.
Respond(t) ==
  /\ May(t, "respond")
  /\ \E h \in Handlers : \E r \in Range(received[h]) :
       events[r].kind = "request" /\ Push(t, 5, "response", r, <<>>)

Flush(t) ==
  /\ May(t, "flush")
  /\ Enter(t, <<In("drain", 0)>>)
  /\ UNCHANGED <<autoFlush, events, heap, subs, buffer, replies, store, ghosts>>

-----------------------------------------------------------------------------
(* _drain, _deliver, store.append                                          *)

Precedes(e, f) ==
  \/ events[e].prio > events[f].prio
  \/ events[e].prio = events[f].prio /\ e < f

\* The events that are being delivered by some thread.
Delivering ==
  UNION {{stack[t][i].ev : i \in {j \in DOMAIN stack[t] : stack[t][j].pc \in {"deliver", "handle"}}}
           : t \in Threads}

\* The copy of the subscriptions that an event is offered to.
Recipients(e) ==
  Filtered(subs, IF events[e].kind = "response" THEN Handlers \cup {Capture} ELSE Handlers)

\* Mutant of DrainPop: the heap orders by priority alone.
DrainPopAny(t) ==
  /\ Inside(t, "drain")
  /\ \E e \in heap :
       /\ \A f \in heap \ {e} : events[e].prio >= events[f].prio
       /\ heap' = heap \ {e}
       /\ Enter(t, <<[pc |-> "deliver", ev |-> e, rest |-> Recipients(e)]>>)
  /\ overlap' = (overlap \/ Delivering # {})
  /\ UNCHANGED <<autoFlush, events, subs, buffer, replies, store, received, raised>>

\* Pop the first event and copy the list of subscriptions for it.
DrainPop(t) ==
  /\ Inside(t, "drain")
  /\ \E e \in heap :
       /\ \A f \in heap \ {e} : Precedes(e, f)
       /\ heap' = heap \ {e}
       /\ Enter(t, <<[pc |-> "deliver", ev |-> e, rest |-> Recipients(e)]>>)
  /\ overlap' = (overlap \/ Delivering # {})
  /\ UNCHANGED <<autoFlush, events, subs, buffer, replies, store, received, raised>>

\* Mutant of DrainEmpty: flush() goes on like publish().
DrainEmptyStores(t) ==
  /\ Inside(t, "drain")
  /\ heap = {}
  /\ Become(t, In("store", Now(t).ev))
  /\ UNCHANGED <<autoFlush, events, heap, subs, buffer, replies, store, ghosts>>

\* _drain returns: to the end of publish(), or from flush().
DrainEmpty(t) ==
  /\ Inside(t, "drain")
  /\ heap = {}
  /\ IF Now(t).ev = 0 THEN Leave(t) ELSE Become(t, In("store", Now(t).ev))
  /\ UNCHANGED <<autoFlush, events, heap, subs, buffer, replies, store, ghosts>>

CallHandler(t) ==
  /\ Inside(t, "deliver") /\ Now(t).rest # <<>> /\ Head(Now(t).rest) # Capture
  /\ received' = [received EXCEPT ![Head(Now(t).rest)] = Append(@, Now(t).ev)]
  /\ Become(t, [Now(t) EXCEPT !.pc = "handle", !.rest = Tail(@)])
  /\ UNCHANGED <<autoFlush, events, heap, subs, buffer, replies, store, raised, overlap>>

CaptureResponse(t) ==
  /\ Inside(t, "deliver") /\ Now(t).rest # <<>> /\ Head(Now(t).rest) = Capture
  /\ buffer' = [buffer EXCEPT ![events[Now(t).ev].corr] = Append(@, Now(t).ev)]
  /\ Become(t, [Now(t) EXCEPT !.rest = Tail(@)])
  /\ UNCHANGED <<autoFlush, events, heap, subs, replies, store, ghosts>>

FilterRaises(t) ==
  /\ Inside(t, "deliver") /\ Now(t).rest # <<>> /\ Head(Now(t).rest) \in Picky
  /\ stack' = [stack EXCEPT ![t] = Unwound(@)]
  /\ raised' = raised \cup Publishing(stack[t], Len(Unwound(stack[t])) + 1)
  /\ UNCHANGED <<autoFlush, events, heap, subs, buffer, replies, store, received, overlap>>

\* The handler returns or raises: _deliver goes on either way.
HandlerEnds(t) ==
  /\ Inside(t, "handle")
  /\ Become(t, [Now(t) EXCEPT !.pc = "deliver"])
  /\ UNCHANGED <<autoFlush, events, heap, subs, buffer, replies, store, ghosts>>

DeliverEnds(t) ==
  /\ Inside(t, "deliver") /\ Now(t).rest = <<>>
  /\ Leave(t)
  /\ UNCHANGED <<autoFlush, events, heap, subs, buffer, replies, store, ghosts>>

StoreAppend(t) ==
  /\ Inside(t, "store")
  /\ store' = Append(store, Now(t).ev)
  /\ Leave(t)
  /\ UNCHANGED <<autoFlush, events, heap, subs, buffer, replies, ghosts>>

-----------------------------------------------------------------------------
(* The loop of request() with min_responses = 1                            *)

\* The loop flushes first.
RequestFlush(t) ==
  /\ Inside(t, "wait")
  /\ stack' = [stack EXCEPT ![t] = Front(@) \o <<In("take", Now(t).ev), In("drain", 0)>>]
  /\ UNCHANGED <<autoFlush, events, heap, subs, buffer, replies, store, ghosts>>

RequestTimesOut(t) ==
  /\ Inside(t, "wait")
  /\ Become(t, In("done", Now(t).ev))
  /\ UNCHANGED <<autoFlush, events, heap, subs, buffer, replies, store, ghosts>>

\* Mutant of TakeResponses: the buffered list is returned and not deleted.
TakeResponsesKept(r) ==
  replies' = [replies EXCEPT ![r] = @ \o buffer[r]] /\ UNCHANGED buffer

TakeResponses(r) ==
  /\ replies' = [replies EXCEPT ![r] = @ \o buffer[r]]
  /\ buffer' = [buffer EXCEPT ![r] = <<>>]

RequestTakes(t) ==
  /\ Inside(t, "take")
  /\ TakeResponses(Now(t).ev)
  /\ Become(t, In(IF replies'[Now(t).ev] # <<>> THEN "done" ELSE "wait", Now(t).ev))
  /\ UNCHANGED <<autoFlush, events, heap, subs, store, ghosts>>

RequestReturns(t) ==
  /\ Inside(t, "done")
  /\ TakeResponses(Now(t).ev)
  /\ Leave(t)
  /\ UNCHANGED <<autoFlush, events, heap, subs, store, ghosts>>

-----------------------------------------------------------------------------

Subscribe(t) ==
  /\ May(t, "subscribe")
  /\ \E h \in Handlers \ Range(subs) : subs' = Append(subs, h)
  /\ UNCHANGED <<autoFlush, events, heap, stack, buffer, replies, store, ghosts>>

Unsubscribe(t) ==
  /\ May(t, "subscribe")
  /\ \E h \in Handlers \cap Range(subs) : subs' = Filtered(subs, (Handlers \cup {Capture}) \ {h})
  /\ UNCHANGED <<autoFlush, events, heap, stack, buffer, replies, store, ghosts>>

\* A thread goes on with the methods it is inside of.
Continue(t) ==
  \/ DrainPop(t) \/ DrainEmpty(t)
  \/ CallHandler(t) \/ CaptureResponse(t) \/ FilterRaises(t) \/ HandlerEnds(t) \/ DeliverEnds(t)
  \/ StoreAppend(t)
  \/ RequestFlush(t) \/ RequestTimesOut(t) \/ RequestTakes(t) \/ RequestReturns(t)

Next ==
  \E t \in Threads :
    \/ Publish(t) \/ Request(t) \/ Respond(t) \/ Flush(t)
    \/ Subscribe(t) \/ Unsubscribe(t)
    \/ Continue(t)

Spec == Init /\ [][Next]_vars
\* Threads are scheduled and handlers return.
FairSpec == Spec /\ \A t \in Threads : WF_vars(Continue(t))

-----------------------------------------------------------------------------
(* Properties                                                              *)

TypeOK ==
  /\ events \in Seq(Event) /\ Len(events) <= MaxEvents
  /\ heap \subseteq DOMAIN events
  /\ subs \in Seq(Handlers \cup {Capture})
  /\ stack \in [Threads -> Seq(Frame)]
  /\ buffer \in [Id -> Seq(Id)] /\ replies \in [Id -> Seq(Id)]
  /\ store \in Seq(Id)
  /\ received \in [Handlers -> Seq(Id)]
  /\ raised \subseteq 0 .. MaxEvents
  /\ {autoFlush, overlap} \subseteq BOOLEAN

\* The store holds every event exactly once, the moment its publish() is over, and
\* misses only those whose publish() raised: replay() sees nothing twice, although
\* the event may have been delivered by another thread than the one that stores it.
StoreExact ==
  /\ IsInjective(store)
  /\ \A e \in DOMAIN events :
       \/ e \in Range(store)
       \/ e \in raised
       \/ \E t \in Threads : e \in Publishing(stack[t], 1)

\* Every response is queued, on its way to capture_response, or with its request,
\* once: none is lost to a filter that raises or to a request that takes the buffer
\* while another thread fills it.
ResponsesRouted ==
  /\ \A e \in DOMAIN events : events[e].kind = "response" =>
       \/ e \in heap
       \/ \E t \in Threads : Inside(t, "deliver") /\ Now(t).ev = e /\ Capture \in Range(Now(t).rest)
       \/ e \in Range(replies[events[e].corr] \o buffer[events[e].corr])
  /\ \A r \in Id : IsInjective(replies[r] \o buffer[r])

\* With auto_flush and until a filter raises, an event is never left in the heap for
\* the next publish() to find: some thread is still in _drain.
NothingStranded ==
  autoFlush /\ raised = {} /\ heap # {} =>
    \E t \in Threads : \E i \in DOMAIN stack[t] : stack[t][i].pc = "drain"

\* The three together: neither an event nor a response gets lost, comes twice, or is
\* left behind.
NoneLost == StoreExact /\ ResponsesRouted /\ NothingStranded

\* With auto_flush every queued event has been handed to all its subscribers some
\* time later, unless a filter raised.
EventuallyDelivered ==
  \A e \in Id :
    autoFlush /\ e \in heap ~> e \notin heap \cup Delivering \/ raised # {}

\* "Delivery order follows priority (higher first), then arrival order for equal
\* priorities".
InOrder(seq) ==
  \A i, j \in DOMAIN seq : i < j => seq[i] < seq[j] \/ Precedes(seq[i], seq[j])

\* As long as no delivery overlaps another one, nested in a handler or in another
\* thread, no subscriber gets an event after a later one that does not outrank it.
DeliveryOrder == ~overlap => \A h \in Handlers : InOrder(received[h])
=============================================================================
