----------------------------- MODULE MCEventBus -----------------------------
(***************************************************************************)
(* Small instances of EventBus for TLC: two threads, handlers that call    *)
(* the bus again, a filter that may raise, and three events.               *)
(***************************************************************************)
EXTENDS EventBus

CONSTANTS t1, t2, h1

TwoThreads == {t1, t2}
OneHandler == {h1}
TwoPriorities == {0, 7}

\* One thread publishes and flushes, the other one makes requests and subscribes.
MixedCalls ==
  [t \in TwoThreads |-> IF t = t1 THEN {"publish", "flush", "respond"} ELSE {"request", "subscribe"}]
Reactions == {"publish", "respond"}
=============================================================================
