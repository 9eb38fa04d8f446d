---------------------------- MODULE AlertManager ----------------------------
(***************************************************************************)
(* cadgenesis.monitoring.alerts.AlertManager, evaluated by several         *)
(* threads.  The rules are copied under the lock; the clock is read once   *)
(* per evaluation, and the time a rule last fired is tested and set        *)
(* without the lock.  The history and the handlers only receive.           *)
(***************************************************************************)
EXTENDS Integers

CONSTANTS
  Rules,
  Evaluators,   \* threads that call evaluate()
  Cooldown,
  MaxTick       \* bound: the clock

ASSUME AlertAssumption == Cooldown \in Nat /\ MaxTick \in Nat

VARIABLES
  rules,        \* the registered rules
  tick,
  lastFired,    \* per rule; Never at first
  evaluation,   \* what each thread is doing
  overlapped,   \* ghost: the threads whose evaluation had another one beside it
  heard,        \* ghost: when each rule last fired in an evaluation that ran alone
  early         \* ghost: the rules that fired too soon after one they had to hear of

alertVars == <<rules, tick, lastFired, evaluation, overlapped, heard, early>>

Never == -1
NeverFired == [r \in Rules |-> Never]
NoEvaluation == [busy |-> FALSE, now |-> 0, todo |-> {}, firing |-> {}, fired |-> {}, heard |-> NeverFired]

AlertsInit ==
  /\ rules = {} /\ tick = 0
  /\ lastFired = NeverFired
  /\ evaluation = [e \in Evaluators |-> NoEvaluation]
  /\ overlapped = {} /\ heard = NeverFired /\ early = {}

AddRule(r) ==
  /\ r \notin rules /\ rules' = rules \cup {r}
  /\ UNCHANGED <<tick, lastFired, evaluation, overlapped, heard, early>>

\* An evaluation that has begun still has the rule.
RemoveRule(r) ==
  /\ r \in rules /\ rules' = rules \ {r}
  /\ UNCHANGED <<tick, lastFired, evaluation, overlapped, heard, early>>

Busy == {e \in Evaluators : evaluation[e].busy}

BeginEvaluation(e) ==
  /\ ~evaluation[e].busy
  /\ evaluation' = [evaluation EXCEPT ![e] = [busy |-> TRUE, now |-> tick, todo |-> rules, firing |-> {},
                                                 fired |-> {}, heard |-> heard]]
  /\ overlapped' = IF Busy = {} THEN overlapped \ {e} ELSE overlapped \cup Busy \cup {e}
  /\ UNCHANGED <<rules, tick, lastFired, heard, early>>

Within(now, last) == last # Never /\ now - last < Cooldown

\* The rule does not match or raises, or fired too recently.
PassOver(e) ==
  \E r \in evaluation[e].todo :
    /\ evaluation[e].firing = {}
    /\ evaluation' = [evaluation EXCEPT ![e].todo = @ \ {r}]
    /\ UNCHANGED <<rules, tick, lastFired, overlapped, heard, early>>

\* It matches, and the cooldown is over.
Match(e) ==
  \E r \in evaluation[e].todo :
    /\ evaluation[e].firing = {} /\ ~Within(evaluation[e].now, lastFired[r])
    /\ evaluation' = [evaluation EXCEPT ![e].todo = @ \ {r}, ![e].firing = {r}]
    /\ UNCHANGED <<rules, tick, lastFired, overlapped, heard, early>>

Fired(e, r) ==
  /\ evaluation' = [evaluation EXCEPT ![e].firing = {}, ![e].fired = @ \cup {r}]
  /\ early' = IF Within(evaluation[e].now, evaluation[e].heard[r]) THEN early \cup {r} ELSE early

\* Mutant of Fire: the time is kept for the first alert only.
FireKeepingFirst(e) ==
  \E r \in evaluation[e].firing :
    /\ lastFired' = [lastFired EXCEPT ![r] = IF @ = Never THEN evaluation[e].now ELSE @]
    /\ Fired(e, r)
    /\ UNCHANGED <<rules, tick, overlapped, heard>>

\* The time is set, whatever another thread set meanwhile, and the alert goes out.
Fire(e) ==
  \E r \in evaluation[e].firing :
    /\ lastFired' = [lastFired EXCEPT ![r] = evaluation[e].now]
    /\ Fired(e, r)
    /\ UNCHANGED <<rules, tick, overlapped, heard>>

EndEvaluation(e) ==
  /\ evaluation[e].busy /\ evaluation[e].todo = {} /\ evaluation[e].firing = {}
  /\ evaluation' = [evaluation EXCEPT ![e] = NoEvaluation]
  /\ heard' = [r \in Rules |-> IF r \in evaluation[e].fired /\ e \notin overlapped
                               THEN evaluation[e].now ELSE heard[r]]
  /\ UNCHANGED <<rules, tick, lastFired, overlapped, early>>

Tick ==
  /\ tick < MaxTick /\ tick' = tick + 1
  /\ UNCHANGED <<rules, lastFired, evaluation, overlapped, heard, early>>

AlertsNext ==
  \/ \E r \in Rules : AddRule(r) \/ RemoveRule(r)
  \/ \E e \in Evaluators :
       BeginEvaluation(e) \/ PassOver(e) \/ Match(e) \/ Fire(e) \/ EndEvaluation(e)
  \/ Tick

AlertsSpec == AlertsInit /\ [][AlertsNext]_alertVars

-----------------------------------------------------------------------------
(* Properties                                                              *)

AlertTypeOK ==
  /\ rules \subseteq Rules /\ tick \in 0 .. MaxTick
  /\ lastFired \in [Rules -> Never .. tick] /\ heard \in [Rules -> Never .. tick]
  /\ \A e \in Evaluators : evaluation[e].todo \cup evaluation[e].firing \cup evaluation[e].fired \subseteq Rules

\* Two evaluations at once may fire one rule twice, and set its time back.  But a rule
\* that fired in an evaluation with no other beside it stays quiet for the cooldown in
\* every evaluation that begins later, whatever those do to each other.
CooldownKept == early = {}
=============================================================================
