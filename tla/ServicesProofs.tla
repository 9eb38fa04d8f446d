--------------------------- MODULE ServicesProofs ---------------------------
(***************************************************************************)
(* Theorems about the services around the models, each component for any   *)
(* number of its threads, files, rules, plugins, people, datasets, records *)
(* and calls.  They share no variable: there is one invariant and one      *)
(* argument for each.                                                      *)
(***************************************************************************)
EXTENDS ServiceLayer, ListProofs, SequenceTheorems, FiniteSetTheorems, TLAPS

-----------------------------------------------------------------------------
(* AlertManager                                                            *)

Evaluation == [busy : BOOLEAN, now : Nat, todo : SUBSET Rules, firing : SUBSET Rules,
               fired : SUBSET Rules, heard : [Rules -> Int]]

AlertsTyped ==
  /\ rules \subseteq Rules /\ tick \in Nat
  /\ lastFired \in [Rules -> Int] /\ heard \in [Rules -> Int]
  /\ evaluation \in [Evaluators -> Evaluation] /\ overlapped \subseteq Evaluators

\* What had to be heard of is never later than what the manager keeps, nor than any
\* evaluation under way, all of which heard of it.
HeardIsKept ==
  /\ \A r \in Rules : Never <= heard[r] /\ heard[r] <= lastFired[r] /\ heard[r] <= tick
  /\ \A e \in Busy :
       /\ evaluation[e].now <= tick /\ evaluation[e].heard = heard
       /\ \A r \in Rules : heard[r] <= evaluation[e].now

\* An evaluation that nothing overlapped is the only one, and what it fired is kept.
AloneIsAlone ==
  \A e \in Busy : e \notin overlapped =>
    /\ Busy = {e}
    /\ \A r \in evaluation[e].fired : lastFired[r] = evaluation[e].now

\* A rule that is about to fire is past the cooldown that it had to hear of.
FiringIsDue ==
  \A e \in Evaluators :
    /\ ~evaluation[e].busy => evaluation[e].firing = {} /\ evaluation[e].todo = {}
    /\ \A r \in evaluation[e].firing : ~Within(evaluation[e].now, evaluation[e].heard[r])

AlertInv == AlertsTyped /\ HeardIsKept /\ AloneIsAlone /\ FiringIsDue /\ early = {}

LEMMA AlertsStart == AlertsInit => AlertInv
<1> SUFFICES ASSUME AlertsInit PROVE AlertInv
  OBVIOUS
<1> USE DEF AlertsInit, NeverFired, NoEvaluation, Never
<1>1. AlertsTyped
  BY DEF AlertsTyped, Evaluation
<1>2. Busy = {}
  BY DEF Busy
<1>3. HeardIsKept /\ AloneIsAlone /\ FiringIsDue
  BY <1>2 DEF HeardIsKept, AloneIsAlone, FiringIsDue
<1>4. QED
  BY <1>1, <1>3 DEF AlertInv

\* The evaluation of one thread changes, and the others do not.
LEMMA OneEvaluation ==
  ASSUME AlertsTyped, NEW e \in Evaluators, NEW v \in Evaluation,
         evaluation' = [evaluation EXCEPT ![e] = v]
  PROVE  /\ evaluation' \in [Evaluators -> Evaluation] /\ evaluation'[e] = v
         /\ \A d \in Evaluators : d # e => evaluation'[d] = evaluation[d]
         /\ v.busy = evaluation[e].busy => Busy' = Busy
  BY DEF AlertsTyped, Busy

LEMMA BeginKeeps ==
  ASSUME AlertInv, NEW e \in Evaluators, BeginEvaluation(e)
  PROVE  AlertInv'
<1> DEFINE v == [busy |-> TRUE, now |-> tick, todo |-> rules, firing |-> {}, fired |-> {}, heard |-> heard]
<1>1. v.busy /\ v.now = tick /\ v.todo = rules /\ v.firing = {} /\ v.fired = {} /\ v.heard = heard
  OBVIOUS
<1>2. v \in Evaluation
  BY <1>1 DEF AlertInv, AlertsTyped, Evaluation
<1>3. evaluation' = [evaluation EXCEPT ![e] = v]
  BY DEF BeginEvaluation
<1> HIDE DEF v
<1>4. /\ evaluation' \in [Evaluators -> Evaluation] /\ evaluation'[e] = v
      /\ \A d \in Evaluators : d # e => evaluation'[d] = evaluation[d]
  BY <1>2, <1>3, OneEvaluation DEF AlertInv
<1>5. Busy' = Busy \cup {e} /\ e \notin Busy
  BY <1>1, <1>4 DEF Busy, BeginEvaluation
<1>6. UNCHANGED <<rules, tick, lastFired, heard, early>>
  BY DEF BeginEvaluation
<1>7. overlapped' = IF Busy = {} THEN overlapped \ {e} ELSE overlapped \cup Busy \cup {e}
  BY DEF BeginEvaluation
<1>8. AlertsTyped'
  BY <1>4, <1>6, <1>7 DEF AlertInv, AlertsTyped, Busy
<1>9. HeardIsKept'
  BY <1>1, <1>4, <1>5, <1>6 DEF AlertInv, AlertsTyped, HeardIsKept, Busy
<1>10. AloneIsAlone'
  BY <1>1, <1>4, <1>5, <1>6, <1>7 DEF AlertInv, AloneIsAlone
<1>11. FiringIsDue'
  BY <1>1, <1>4 DEF AlertInv, FiringIsDue
<1>12. QED
  BY <1>6, <1>8, <1>9, <1>10, <1>11 DEF AlertInv

LEMMA PassOverKeeps ==
  ASSUME AlertInv, NEW e \in Evaluators, PassOver(e)
  PROVE  AlertInv'
<1>1. PICK r \in evaluation[e].todo :
        /\ evaluation[e].firing = {}
        /\ evaluation' = [evaluation EXCEPT ![e].todo = @ \ {r}]
        /\ UNCHANGED <<rules, tick, lastFired, overlapped, heard, early>>
  BY DEF PassOver
<1> DEFINE v == [evaluation[e] EXCEPT !.todo = @ \ {r}]
<1>2. evaluation[e] \in Evaluation
  BY DEF AlertInv, AlertsTyped
<1>3. v \in Evaluation /\ v.busy = evaluation[e].busy /\ v.now = evaluation[e].now
      /\ v.firing = evaluation[e].firing /\ v.fired = evaluation[e].fired
      /\ v.heard = evaluation[e].heard /\ v.todo \subseteq evaluation[e].todo
  BY <1>2 DEF Evaluation
<1>4. evaluation' = [evaluation EXCEPT ![e] = v]
  BY <1>1
<1> HIDE DEF v
<1>5. /\ evaluation' \in [Evaluators -> Evaluation] /\ evaluation'[e] = v
      /\ \A d \in Evaluators : d # e => evaluation'[d] = evaluation[d]
      /\ Busy' = Busy
  BY <1>3, <1>4, OneEvaluation DEF AlertInv
<1>6. AlertsTyped'
  BY <1>1, <1>5 DEF AlertInv, AlertsTyped
<1>7. HeardIsKept'
  BY <1>1, <1>3, <1>5 DEF AlertInv, HeardIsKept, Busy
<1>8. AloneIsAlone'
  BY <1>1, <1>3, <1>5 DEF AlertInv, AloneIsAlone, Busy
<1>9. FiringIsDue'
  BY <1>3, <1>5 DEF AlertInv, FiringIsDue
<1>10. QED
  BY <1>1, <1>6, <1>7, <1>8, <1>9 DEF AlertInv

\* Whatever was heard of is not later than what the manager keeps: a rule past the
\* cooldown of the latter is past that of the former.
LEMMA MatchKeeps ==
  ASSUME AlertInv, NEW e \in Evaluators, Match(e)
  PROVE  AlertInv'
<1>1. PICK r \in evaluation[e].todo :
        /\ evaluation[e].firing = {} /\ ~Within(evaluation[e].now, lastFired[r])
        /\ evaluation' = [evaluation EXCEPT ![e].todo = @ \ {r}, ![e].firing = {r}]
        /\ UNCHANGED <<rules, tick, lastFired, overlapped, heard, early>>
  BY DEF Match
<1> DEFINE v == [evaluation[e] EXCEPT !.todo = @ \ {r}, !.firing = {r}]
<1>2. evaluation[e] \in Evaluation /\ r \in Rules
  BY DEF AlertInv, AlertsTyped, Evaluation
<1>3. v \in Evaluation /\ v.busy = evaluation[e].busy /\ v.now = evaluation[e].now
      /\ v.firing = {r} /\ v.fired = evaluation[e].fired
      /\ v.heard = evaluation[e].heard /\ v.todo \subseteq evaluation[e].todo
  BY <1>2 DEF Evaluation
<1>4. evaluation' = [evaluation EXCEPT ![e] = v]
  BY <1>1
<1> HIDE DEF v
<1>5. /\ evaluation' \in [Evaluators -> Evaluation] /\ evaluation'[e] = v
      /\ \A d \in Evaluators : d # e => evaluation'[d] = evaluation[d]
      /\ Busy' = Busy
  BY <1>3, <1>4, OneEvaluation DEF AlertInv
<1>6. AlertsTyped'
  BY <1>1, <1>5 DEF AlertInv, AlertsTyped
<1>7. HeardIsKept'
  BY <1>1, <1>3, <1>5 DEF AlertInv, HeardIsKept, Busy
<1>8. AloneIsAlone'
  BY <1>1, <1>3, <1>5 DEF AlertInv, AloneIsAlone, Busy
<1>9. evaluation[e].busy
  BY DEF AlertInv, FiringIsDue
<1>10. evaluation[e].heard = heard /\ heard[r] <= lastFired[r] /\ Never <= heard[r]
       /\ heard[r] \in Int /\ lastFired[r] \in Int /\ evaluation[e].now \in Int
  BY <1>2, <1>9 DEF AlertInv, AlertsTyped, Evaluation, HeardIsKept, Busy
<1>11. ~Within(evaluation[e].now, evaluation[e].heard[r])
  BY <1>1, <1>10, AlertAssumption DEF Within, Never
<1>12. FiringIsDue'
  <2>1. ~Within(evaluation'[e].now, evaluation'[e].heard[r]) /\ evaluation'[e].firing = {r}
        /\ evaluation'[e].busy
    BY <1>3, <1>5, <1>9, <1>11
  <2>2. QED
    BY <1>5, <2>1 DEF AlertInv, FiringIsDue
<1>13. QED
  BY <1>1, <1>6, <1>7, <1>8, <1>12 DEF AlertInv

LEMMA FireKeeps ==
  ASSUME AlertInv, NEW e \in Evaluators, Fire(e)
  PROVE  AlertInv'
<1>1. PICK r \in evaluation[e].firing :
        /\ lastFired' = [lastFired EXCEPT ![r] = evaluation[e].now]
        /\ Fired(e, r)
        /\ UNCHANGED <<rules, tick, overlapped, heard>>
  BY DEF Fire
<1> DEFINE v == [evaluation[e] EXCEPT !.firing = {}, !.fired = @ \cup {r}]
<1>2. evaluation[e] \in Evaluation /\ r \in Rules
  BY DEF AlertInv, AlertsTyped, Evaluation
<1>3. v \in Evaluation /\ v.busy = evaluation[e].busy /\ v.now = evaluation[e].now
      /\ v.firing = {} /\ v.fired = evaluation[e].fired \cup {r}
      /\ v.heard = evaluation[e].heard /\ v.todo = evaluation[e].todo
  BY <1>2 DEF Evaluation
<1>4. evaluation' = [evaluation EXCEPT ![e] = v]
  BY <1>1 DEF Fired
<1> HIDE DEF v
<1>5. /\ evaluation' \in [Evaluators -> Evaluation] /\ evaluation'[e] = v
      /\ \A d \in Evaluators : d # e => evaluation'[d] = evaluation[d]
      /\ Busy' = Busy
  BY <1>3, <1>4, OneEvaluation DEF AlertInv
<1>6. /\ evaluation[e].busy /\ e \in Busy
      /\ ~Within(evaluation[e].now, evaluation[e].heard[r])
  BY DEF AlertInv, FiringIsDue, Busy
<1>7. early' = {}
  BY <1>1, <1>6 DEF Fired, AlertInv
<1>8. /\ lastFired' \in [Rules -> Int] /\ lastFired'[r] = evaluation[e].now
      /\ \A q \in Rules : q # r => lastFired'[q] = lastFired[q]
  BY <1>1, <1>2 DEF AlertInv, AlertsTyped, Evaluation
<1>9. AlertsTyped'
  BY <1>1, <1>5, <1>8 DEF AlertInv, AlertsTyped
<1>10. \A q \in Rules : heard[q] <= lastFired'[q]
  BY <1>6, <1>8 DEF AlertInv, HeardIsKept
<1>11. HeardIsKept'
  BY <1>1, <1>3, <1>5, <1>10 DEF AlertInv, HeardIsKept, Busy
<1>12. AloneIsAlone'
  <2> SUFFICES ASSUME NEW d \in Busy, d \notin overlapped
               PROVE  Busy = {d} /\ \A q \in evaluation'[d].fired : lastFired'[q] = evaluation'[d].now
    BY <1>1, <1>5 DEF AloneIsAlone
  <2>1. Busy = {d} /\ \A q \in evaluation[d].fired : lastFired[q] = evaluation[d].now
    BY DEF AlertInv, AloneIsAlone
  <2>2. d = e
    BY <1>6, <2>1
  <2>3. evaluation[e].fired \subseteq Rules
    BY <1>2 DEF Evaluation
  <2>4. QED
    BY <1>3, <1>5, <1>8, <2>1, <2>2, <2>3
<1>13. FiringIsDue'
  BY <1>3, <1>5, <1>6 DEF AlertInv, FiringIsDue
<1>14. QED
  BY <1>7, <1>9, <1>11, <1>12, <1>13 DEF AlertInv

LEMMA EndKeeps ==
  ASSUME AlertInv, NEW e \in Evaluators, EndEvaluation(e)
  PROVE  AlertInv'
<1>1. NoEvaluation \in Evaluation /\ ~NoEvaluation.busy /\ NoEvaluation.firing = {}
      /\ NoEvaluation.todo = {}
  BY DEF NoEvaluation, Evaluation, NeverFired, Never
<1>2. evaluation' = [evaluation EXCEPT ![e] = NoEvaluation] /\ evaluation[e].busy
  BY DEF EndEvaluation
<1>3. /\ evaluation' \in [Evaluators -> Evaluation] /\ evaluation'[e] = NoEvaluation
      /\ \A d \in Evaluators : d # e => evaluation'[d] = evaluation[d]
  BY <1>1, <1>2, OneEvaluation DEF AlertInv
<1>4. Busy' = Busy \ {e} /\ e \in Busy
  BY <1>1, <1>2, <1>3 DEF Busy
<1>5. /\ UNCHANGED <<rules, tick, lastFired, overlapped, early>>
      /\ heard' = [r \in Rules |-> IF r \in evaluation[e].fired /\ e \notin overlapped
                                   THEN evaluation[e].now ELSE heard[r]]
  BY DEF EndEvaluation
<1>6. evaluation[e].now \in Nat /\ evaluation[e].now <= tick
  BY <1>4 DEF AlertInv, AlertsTyped, Evaluation, HeardIsKept
<1>7. AlertsTyped'
  BY <1>3, <1>5, <1>6 DEF AlertInv, AlertsTyped
<1>8. heard' = heard \/ Busy' = {}
  <2>1. CASE e \in overlapped
    BY <1>5, <2>1 DEF AlertInv, AlertsTyped
  <2>2. CASE e \notin overlapped
    BY <1>4, <2>2 DEF AlertInv, AloneIsAlone
  <2>3. QED
    BY <2>1, <2>2
<1>9. \A r \in Rules : Never <= heard'[r] /\ heard'[r] <= lastFired[r] /\ heard'[r] <= tick
  <2> TAKE r \in Rules
  <2>1. Never <= heard[r] /\ heard[r] <= lastFired[r] /\ heard[r] <= tick
    BY DEF AlertInv, HeardIsKept
  <2>2. CASE r \in evaluation[e].fired /\ e \notin overlapped
    <3>1. lastFired[r] = evaluation[e].now
      BY <1>4, <2>2 DEF AlertInv, AloneIsAlone
    <3>2. QED
      BY <1>5, <1>6, <2>2, <3>1 DEF Never
  <2>3. CASE ~(r \in evaluation[e].fired /\ e \notin overlapped)
    BY <1>5, <2>1, <2>3
  <2>4. QED
    BY <2>2, <2>3
<1>10. HeardIsKept'
  BY <1>3, <1>4, <1>5, <1>8, <1>9 DEF AlertInv, HeardIsKept, Busy
<1>11. AloneIsAlone'
  BY <1>3, <1>4, <1>5 DEF AlertInv, AloneIsAlone, Busy
<1>12. FiringIsDue'
  BY <1>1, <1>3 DEF AlertInv, FiringIsDue
<1>13. QED
  BY <1>5, <1>7, <1>10, <1>11, <1>12 DEF AlertInv

LEMMA AlertsStep == AlertInv /\ [AlertsNext]_alertVars => AlertInv'
<1> SUFFICES ASSUME AlertInv, [AlertsNext]_alertVars PROVE AlertInv'
  OBVIOUS
<1>1. CASE (\E r \in Rules : AddRule(r) \/ RemoveRule(r)) \/ UNCHANGED alertVars
  BY <1>1 DEF AlertInv, AlertsTyped, HeardIsKept, AloneIsAlone, FiringIsDue, Busy, AddRule,
              RemoveRule, alertVars
<1>2. CASE Tick
  <2>1. tick' = tick + 1 /\ UNCHANGED <<rules, lastFired, evaluation, overlapped, heard, early>>
    BY <1>2 DEF Tick
  <2>2. AlertsTyped' /\ AloneIsAlone' /\ FiringIsDue' /\ early' = {}
    BY <2>1 DEF AlertInv, AlertsTyped, AloneIsAlone, FiringIsDue, Busy
  <2>3. HeardIsKept'
    BY <2>1 DEF AlertInv, AlertsTyped, Evaluation, HeardIsKept, Busy
  <2>4. QED
    BY <2>2, <2>3 DEF AlertInv
<1>3. CASE \E e \in Evaluators :
             BeginEvaluation(e) \/ PassOver(e) \/ Match(e) \/ Fire(e) \/ EndEvaluation(e)
  BY <1>3, BeginKeeps, PassOverKeeps, MatchKeeps, FireKeeps, EndKeeps
<1>4. QED
  BY <1>1, <1>2, <1>3 DEF AlertsNext

\* A rule that fired in an evaluation that ran alone stays quiet for its cooldown in every
\* evaluation that begins later, for any number of threads that evaluate at once.
THEOREM QuietForTheCooldown == AlertsSpec => []CooldownKept
<1>1. AlertInv => CooldownKept
  BY DEF AlertInv, CooldownKept
<1>2. QED
  BY <1>1, AlertsStart, AlertsStep, PTL DEF AlertsSpec

-----------------------------------------------------------------------------
(* ConfigStore                                                             *)

ConfigTyped ==
  /\ file \in [Layers -> Settings \cup {Garbage, Absent}] /\ environ \in EnvSettings
  /\ digests \in [Layers -> Settings \cup {Garbage}]
  /\ combined \in [Layers -> Settings \cup {Absent}]
  /\ data.layers \in [Layers -> Settings] /\ data.env \in EnvSettings
  /\ data = Merged(data.layers, data.env)
  /\ reading \in 0 .. Len(Sources) + 1 /\ changed \in BOOLEAN

\* What this reload has read is what it hashed, and could be parsed.
ReadIsHashed ==
  \A f \in Layers : f < reading => combined[f] = digests[f] /\ digests[f] \in Settings

\* As long as nothing is excused, a reload that saw no change has the digests of what is
\* in force.
HashedInForce == ~excused /\ (reading = 0 \/ ~changed) => digests = data.layers

ConfigInv == ConfigTyped /\ ReadIsHashed /\ HashedInForce /\ ListenersKnow

LEMMA ConfigStart == ConfigInit => ConfigInv
<1> SUFFICES ASSUME ConfigInit PROVE ConfigInv
  OBVIOUS
<1>1. data.layers = file /\ data.env = environ /\ digests = file /\ told = data
  BY DEF ConfigInit, Merged
<1>2. combined = [f \in Layers |-> Absent] /\ reading = 0 /\ changed = FALSE
  BY DEF ConfigInit, NoLayers
<1>3. file \in [Layers -> Settings] /\ environ \in EnvSettings
  BY DEF ConfigInit
<1>4. ConfigTyped
  <2>1. data = Merged(data.layers, data.env)
    BY <1>1 DEF ConfigInit
  <2>2. combined \in [Layers -> Settings \cup {Absent}]
    BY <1>2
  <2>3. reading \in 0 .. Len(Sources) + 1
    BY <1>2, ConfigAssumption
  <2>4. file \in [Layers -> Settings \cup {Garbage, Absent}] /\ file \in [Layers -> Settings \cup {Garbage}]
    BY <1>3
  <2>5. QED
    BY <1>1, <1>2, <1>3, <2>1, <2>2, <2>3, <2>4 DEF ConfigTyped
<1>5. ReadIsHashed
  BY <1>2, ConfigAssumption DEF ReadIsHashed, Layers
<1>6. QED
  BY <1>1, <1>4, <1>5 DEF ConfigInv, HashedInForce, ListenersKnow

LEMMA EditKeeps ==
  ASSUME ConfigInv,
         \/ \E f \in Layers, s \in Settings \cup {Garbage, Absent} : EditFile(f, s)
         \/ \E e \in EnvSettings : EditEnvironment(e)
  PROVE  ConfigInv'
<1>1. UNCHANGED <<data, digests, reading, combined, changed, told, excused>>
  BY DEF EditFile, EditEnvironment
<1>2. file' \in [Layers -> Settings \cup {Garbage, Absent}] /\ environ' \in EnvSettings
  BY DEF EditFile, EditEnvironment, ConfigInv, ConfigTyped
<1>3. QED
  BY <1>1, <1>2 DEF ConfigInv, ConfigTyped, ReadIsHashed, HashedInForce, ListenersKnow, Merged, Layers

LEMMA BeginReloadKeeps ==
  ASSUME ConfigInv, BeginReload
  PROVE  ConfigInv'
<1>1. ConfigTyped' /\ ListenersKnow'
  <2>1. UNCHANGED <<file, environ, data, digests, told, excused>>
    BY DEF BeginReload
  <2>2. reading' = 1 /\ changed' = FALSE /\ combined' \in [Layers -> Settings \cup {Absent}]
    BY DEF BeginReload, NoLayers
  <2>3. reading' \in 0 .. Len(Sources) + 1
    BY <2>2, ConfigAssumption
  <2>4. QED
    BY <2>1, <2>2, <2>3 DEF ConfigInv, ConfigTyped, ListenersKnow, Merged
<1>2. ReadIsHashed'
  BY ConfigAssumption DEF BeginReload, ReadIsHashed, Layers
<1>3. HashedInForce'
  BY DEF BeginReload, ConfigInv, HashedInForce
<1>4. QED
  BY <1>1, <1>2, <1>3 DEF ConfigInv

LEMMA RaiseKeeps ==
  ASSUME ConfigInv, ReadMissing \/ ReadGarbage
  PROVE  ConfigInv'
<1>1. reading' = 0 /\ excused' = TRUE /\ UNCHANGED <<data, told, file, environ, combined>>
  BY DEF ReadMissing, ReadGarbage, ReloadRaises
<1>2. digests' \in [Layers -> Settings \cup {Garbage}] /\ changed' \in BOOLEAN
  BY DEF ReadMissing, ReadGarbage, Hashed, ConfigInv, ConfigTyped
<1>3. ConfigTyped'
  BY <1>1, <1>2, ConfigAssumption DEF ConfigInv, ConfigTyped, Merged, Layers
<1>4. ReadIsHashed'
  BY <1>1, ConfigAssumption DEF ReadIsHashed, Layers
<1>5. QED
  BY <1>1, <1>3, <1>4 DEF ConfigInv, HashedInForce, ListenersKnow

LEMMA ReadKeeps ==
  ASSUME ConfigInv, ReadFile
  PROVE  ConfigInv'
<1>1. /\ reading \in Layers /\ file[reading] \in Settings
      /\ digests' = [digests EXCEPT ![reading] = file[reading]]
      /\ changed' = (changed \/ digests[reading] # file[reading])
      /\ combined' = [combined EXCEPT ![reading] = file[reading]]
      /\ reading' = reading + 1
      /\ UNCHANGED <<file, environ, data, told, excused>>
  BY DEF ReadFile, Hashed
<1>2. digests' \in [Layers -> Settings \cup {Garbage}] /\ combined' \in [Layers -> Settings \cup {Absent}]
  BY <1>1 DEF ConfigInv, ConfigTyped
<1>3. reading' \in 0 .. Len(Sources) + 1 /\ changed' \in BOOLEAN /\ reading' # 0
  BY <1>1, ConfigAssumption DEF ConfigInv, ConfigTyped, Layers
<1>4. ConfigTyped'
  BY <1>1, <1>2, <1>3 DEF ConfigInv, ConfigTyped, Merged, Layers
<1>5. ReadIsHashed'
  BY <1>1, ConfigAssumption DEF ConfigInv, ConfigTyped, ReadIsHashed, Layers
<1>6. ~changed' => digests' = digests /\ ~changed
  BY <1>1 DEF ConfigInv, ConfigTyped
<1>7. QED
  BY <1>1, <1>3, <1>4, <1>5, <1>6 DEF ConfigInv, HashedInForce, ListenersKnow

LEMMA EndReloadKeeps ==
  ASSUME ConfigInv, EndReload
  PROVE  ConfigInv'
<1>1. combined = digests /\ combined \in [Layers -> Settings]
  BY ConfigAssumption DEF EndReload, ConfigInv, ConfigTyped, ReadIsHashed, Layers
<1>2. reading' = 0 /\ data' = Merged(combined, environ) /\ UNCHANGED <<file, environ, digests, combined, changed>>
  BY DEF EndReload
<1>3. data'.layers = digests /\ data'.env = environ
  BY <1>1, <1>2 DEF Merged
<1>4. ConfigTyped'
  BY <1>1, <1>2, <1>3, ConfigAssumption DEF ConfigInv, ConfigTyped, Merged, Layers
<1>5. ReadIsHashed'
  BY <1>2, ConfigAssumption DEF ReadIsHashed, Layers
<1>6. HashedInForce'
  BY <1>2, <1>3 DEF HashedInForce
<1>7. ListenersKnow'
  <2>1. CASE changed \/ environ # Absent
    BY <2>1 DEF EndReload, ListenersKnow
  <2>2. CASE ~changed /\ environ = Absent
    <3>1. told' = told /\ excused' = (excused \/ data.env # Absent)
      BY <2>2 DEF EndReload
    <3>2. ~excused' => data' = data /\ told = data
      BY <1>1, <1>2, <2>2, <3>1 DEF ConfigInv, ConfigTyped, HashedInForce, ListenersKnow
    <3>3. QED
      BY <3>1, <3>2 DEF ListenersKnow
  <2>3. QED
    BY <2>1, <2>2 DEF ConfigInv, ConfigTyped
<1>8. QED
  BY <1>4, <1>5, <1>6, <1>7 DEF ConfigInv

LEMMA ConfigStep == ConfigInv /\ [ConfigNext]_configVars => ConfigInv'
<1> SUFFICES ASSUME ConfigInv, [ConfigNext]_configVars PROVE ConfigInv'
  OBVIOUS
<1>1. CASE UNCHANGED configVars
  BY <1>1 DEF ConfigInv, ConfigTyped, ReadIsHashed, HashedInForce, ListenersKnow, Merged, Layers, configVars
<1>2. QED
  BY <1>1, EditKeeps, BeginReloadKeeps, RaiseKeeps, ReadKeeps, EndReloadKeeps DEF ConfigNext

\* Whatever the files, the environment and the reloads do, and in the middle of a reload
\* too, the listeners know the configuration in force, but for the two excuses.
THEOREM ListenersKnowTheConfiguration == ConfigSpec => []ListenersKnow
<1>1. ConfigInv => ListenersKnow
  BY DEF ConfigInv
<1>2. QED
  BY <1>1, ConfigStart, ConfigStep, PTL DEF ConfigSpec

-----------------------------------------------------------------------------
(* DatasetMarketplace                                                      *)

Directories == [People -> Emails \cup {NoEmail}]
Catalogues == [Datasets -> People \cup {NoOwner}]
Publication == [at : {"idle", "known", "written"}, who : People \cup {NoOwner},
                dataset : Datasets \cup {"none"}]

MarketTyped ==
  /\ email \in Directories /\ credits \subseteq People \X Datasets /\ owner \in Catalogues
  /\ stored \in [email : Directories, credits : SUBSET (People \X Datasets), owner : Catalogues]
  /\ publishing \in [Publishers -> Publication] /\ issued \subseteq Datasets
  /\ backup \in [email : Directories, credits : SUBSET (People \X Datasets), cutOff : SUBSET People]
  /\ cutOff \subseteq People /\ deleted \subseteq People /\ uncredited \subseteq Datasets
  /\ unread \subseteq MarketFiles /\ mixed \in BOOLEAN /\ stops \in 0..MaxStops

\* The lock of the marketplace admits one publication.  Nobody owns its dataset before the
\* metadata are written, and then memory and file say the same.
OnePublication ==
  \A t \in Publishers : publishing[t] # NotPublishing =>
    /\ publishing[t].who \in People /\ publishing[t].dataset \in Datasets
    /\ publishing[t].dataset \in issued
    /\ \A u \in Publishers : u # t => publishing[u] = NotPublishing
    /\ \/ /\ publishing[t].at = "known"
          /\ owner[publishing[t].dataset] = NoOwner /\ stored.owner[publishing[t].dataset] = NoOwner
       \/ /\ publishing[t].at = "written"
          /\ owner[publishing[t].dataset] = publishing[t].who
          /\ stored.owner[publishing[t].dataset] = publishing[t].who

\* The parts of RecordsAgree, of a catalogue o, records c and a directory e, be they those
\* in memory or those of a file.
Excused(o, d) ==
  \/ o[d] \in deleted \/ d \in uncredited
  \/ "contributions" \in unread \/ \E t \in Publishers : publishing[t].dataset = d
Credited(o, c) == \A d \in Datasets : o[d] # NoOwner => <<o[d], d>> \in c \/ Excused(o, d)
Contributed(e, c) == \A r \in c : e[r[1]] # NoEmail \/ r[1] \in cutOff \/ "contributors" \in unread
Owned(o, c) == \A r \in c : o[r[2]] = r[1] \/ "metadata" \in unread
Apart(e) == \A p, q \in People : e[p] # NoEmail /\ e[p] = e[q] => p = q \/ mixed

DatasetsCredited ==
  /\ Credited(owner, credits) /\ Credited(owner, stored.credits)
  /\ Credited(stored.owner, credits) /\ Credited(stored.owner, stored.credits)
\* Of a backup this held when it was made.  Who is registered is so on file, or cut off.
RecordsContributed ==
  /\ Contributed(email, credits) /\ Contributed(email, stored.credits)
  /\ Contributed(stored.email, credits) /\ Contributed(stored.email, stored.credits)
  /\ \A r \in backup.credits :
       backup.email[r[1]] # NoEmail \/ r[1] \in backup.cutOff \/ "contributors" \in unread
  /\ \A p \in People : email[p] # NoEmail => stored.email[p] # NoEmail \/ p \in cutOff
RecordsOwned ==
  /\ \A c \in {credits, stored.credits, backup.credits} : Owned(owner, c) /\ Owned(stored.owner, c)
  /\ \A d \in Datasets : owner[d] # NoOwner \/ stored.owner[d] # NoOwner => d \in issued
EmailsApart == Apart(email) /\ Apart(stored.email)

MarketInv ==
  MarketTyped /\ OnePublication /\ DatasetsCredited /\ RecordsContributed /\ RecordsOwned /\ EmailsApart

LEMMA MarketStart == MarketInit => MarketInv
<1> SUFFICES ASSUME MarketInit PROVE MarketInv
  OBVIOUS
<1> USE DEF MarketInit, Nobody, NoDatasets, NoBackup
<1>1. MarketTyped
  <2>1. stops \in 0..MaxStops
    BY MarketAssumption
  <2>2. NotPublishing \in Publication
    BY DEF NotPublishing, Publication
  <2>3. Nobody \in Directories /\ NoDatasets \in Catalogues
    BY DEF Directories, Catalogues
  <2>4. QED
    BY <2>1, <2>2, <2>3 DEF MarketTyped
<1>2. OnePublication
  BY DEF OnePublication
<1>3. DatasetsCredited /\ RecordsContributed /\ RecordsOwned /\ EmailsApart
  BY DEF DatasetsCredited, Credited, RecordsContributed, Contributed, RecordsOwned, Owned, EmailsApart, Apart
<1>4. QED
  BY <1>1, <1>2, <1>3 DEF MarketInv

\* What a step that does not publish leaves alone, when records only leave with their owner.
LEMMA CatalogueStays ==
  ASSUME MarketInv, UNCHANGED <<owner, publishing, issued, backup, uncredited, unread>>,
         stored'.owner = stored.owner, deleted \subseteq deleted',
         \A r \in credits : r \in credits' \/ r[1] \in deleted',
         stored'.credits \in {stored.credits, credits'},
         credits' \subseteq credits \cup backup.credits
  PROVE  OnePublication' /\ DatasetsCredited' /\ RecordsOwned'
<1>1. OnePublication'
  BY DEF MarketInv, OnePublication
<1>2. ASSUME NEW o \in {owner, stored.owner}, NEW d \in Datasets, o[d] # NoOwner
      PROVE  Excused(o, d)' \/ (<<o[d], d>> \in credits' /\ <<o[d], d>> \in stored'.credits)
  BY <1>2 DEF MarketInv, DatasetsCredited, Credited, Excused
<1>3. DatasetsCredited'
  BY <1>2 DEF DatasetsCredited, Credited, Excused
<1>4. RecordsOwned'
  BY DEF MarketInv, RecordsOwned, Owned
<1>5. QED
  BY <1>1, <1>3, <1>4

LEMMA RegisterKeeps ==
  ASSUME MarketInv, NEW p \in People, NEW m \in Emails, RegisterOrUpdate(p, m)
  PROVE  MarketInv'
<1>1. /\ m = email[p] \/ \A q \in Registered : email[q] # m
      /\ email' = [email EXCEPT ![p] = m]
      /\ UNCHANGED <<credits, owner, publishing, issued, backup, uncredited, deleted, unread, mixed>>
  BY DEF RegisterOrUpdate
<1>2. /\ email' \in Directories /\ email'[p] # NoEmail
      /\ \A q \in People : q # p => email'[q] = email[q]
  BY <1>1, MarketAssumption DEF MarketInv, MarketTyped, Directories
<1>3. /\ stored'.credits = stored.credits /\ stored'.owner = stored.owner
      /\ \/ stored'.email = email' /\ cutOff' = cutOff \ {p}
         \/ stored'.email = stored.email /\ cutOff' = cutOff \cup ({p} \ Registered)
      /\ stored' \in [email : Directories, credits : SUBSET (People \X Datasets), owner : Catalogues]
  BY <1>2 DEF MarketInv, MarketTyped, RegisterOrUpdate
<1>4. stops' \in 0..MaxStops
  BY MarketAssumption DEF MarketInv, MarketTyped, RegisterOrUpdate, NoStop, OneStop
<1>5. MarketTyped'
  BY <1>1, <1>2, <1>3, <1>4 DEF MarketInv, MarketTyped
<1>6. OnePublication' /\ DatasetsCredited' /\ RecordsOwned'
  BY <1>1, <1>3, CatalogueStays
<1>7. \A q \in People : email[q] # NoEmail => email'[q] # NoEmail
  BY <1>2
<1>8. RecordsContributed'
  <2>1. \A r \in credits \cup stored.credits : r[1] \in People
    BY DEF MarketInv, MarketTyped
  <2>2. CASE stored'.email = email' /\ cutOff' = cutOff \ {p}
    BY <1>1, <1>2, <1>3, <1>7, <2>1, <2>2 DEF MarketInv, RecordsContributed, Contributed
  <2>3. CASE stored'.email = stored.email /\ cutOff' = cutOff \cup ({p} \ Registered)
    BY <1>1, <1>2, <1>3, <1>7, <2>1, <2>3 DEF MarketInv, RecordsContributed, Contributed, Registered
  <2>4. QED
    BY <1>3, <2>2, <2>3
<1>9. Apart(email)'
  BY <1>1, <1>2 DEF MarketInv, MarketTyped, Directories, EmailsApart, Apart, Registered
<1>10. Apart(stored.email)'
  <2>1. stored'.email \in {stored.email, email'} /\ Apart(stored.email)
    BY <1>3 DEF MarketInv, EmailsApart
  <2>2. QED
    BY <1>1, <1>9, <2>1 DEF Apart
<1>11. QED
  BY <1>5, <1>6, <1>8, <1>9, <1>10 DEF MarketInv, EmailsApart

LEMMA DeleteKeeps ==
  ASSUME MarketInv, NEW p \in People, Delete(p)
  PROVE  MarketInv'
<1>1. /\ email' = [email EXCEPT ![p] = NoEmail]
      /\ credits' = credits \ CreditsOf(p) /\ deleted' = deleted \cup {p}
      /\ UNCHANGED <<owner, publishing, issued, backup, uncredited, unread, mixed>>
  BY DEF Delete
<1>2. /\ email' \in Directories /\ email'[p] = NoEmail
      /\ \A q \in People : q # p => email'[q] = email[q]
      /\ credits' \subseteq credits /\ \A r \in credits : r[1] # p <=> r \in credits'
  BY <1>1 DEF MarketInv, MarketTyped, Directories, CreditsOf
<1>3. /\ \/ stored'.email = email' /\ stored'.credits = credits' /\ cutOff' = cutOff \ {p}
         \/ stored'.email \in {stored.email, email'} /\ stored'.credits = stored.credits /\ cutOff' = cutOff \cup {p}
      /\ stored'.owner = stored.owner
      /\ stored' \in [email : Directories, credits : SUBSET (People \X Datasets), owner : Catalogues]
  <2>1. \/ /\ stored' = [stored EXCEPT !.email = email', !.credits = credits']
           /\ cutOff' = cutOff \ {p}
        \/ /\ stored' = stored \/ stored' = [stored EXCEPT !.email = email']
           /\ cutOff' = cutOff \cup {p}
    BY DEF Delete
  <2>2. /\ stored \in [email : Directories, credits : SUBSET (People \X Datasets), owner : Catalogues]
        /\ credits' \subseteq People \X Datasets
    BY <1>2 DEF MarketInv, MarketTyped
  <2>3. CASE stored' = [stored EXCEPT !.email = email', !.credits = credits']
    BY <1>2, <2>1, <2>2, <2>3
  <2>4. CASE stored' = stored \/ stored' = [stored EXCEPT !.email = email']
    BY <1>2, <2>1, <2>2, <2>4
  <2>5. QED
    BY <2>1, <2>3, <2>4
<1>4. stops' \in 0..MaxStops
  BY MarketAssumption DEF MarketInv, MarketTyped, Delete, NoStop, OneStop
<1>5. MarketTyped'
  BY <1>1, <1>2, <1>3, <1>4 DEF MarketInv, MarketTyped
<1>6. OnePublication' /\ DatasetsCredited' /\ RecordsOwned'
  BY <1>1, <1>2, <1>3, CatalogueStays
<1>7. RecordsContributed'
  <2>1. \A r \in credits \cup stored.credits : r[1] \in People
    BY DEF MarketInv, MarketTyped
  <2>2. CASE stored'.email = email' /\ stored'.credits = credits' /\ cutOff' = cutOff \ {p}
    BY <1>1, <1>2, <2>1, <2>2 DEF MarketInv, RecordsContributed, Contributed
  <2>3. CASE stored'.email \in {stored.email, email'} /\ stored'.credits = stored.credits /\ cutOff' = cutOff \cup {p}
    BY <1>1, <1>2, <2>1, <2>3 DEF MarketInv, RecordsContributed, Contributed
  <2>4. QED
    BY <1>3, <2>2, <2>3
<1>8. Apart(email)'
  BY <1>1, <1>2 DEF MarketInv, EmailsApart, Apart
<1>9. Apart(stored.email)'
  <2>1. stored'.email \in {stored.email, email'} /\ Apart(stored.email)
    BY <1>3 DEF MarketInv, EmailsApart
  <2>2. QED
    BY <1>1, <1>8, <2>1 DEF Apart
<1>10. QED
  BY <1>5, <1>6, <1>7, <1>8, <1>9 DEF MarketInv, EmailsApart

LEMMA ImportKeeps ==
  ASSUME MarketInv, NEW overwrite \in BOOLEAN, ImportRegistry(overwrite)
  PROVE  MarketInv'
<1> DEFINE back == {p \in People : backup.email[p] # NoEmail}
<1>1. /\ email' = [p \in People |-> IF p \in back /\ (overwrite \/ p \notin Registered)
                                    THEN backup.email[p] ELSE email[p]]
      /\ credits' = credits \cup backup.credits /\ mixed' = TRUE
      /\ UNCHANGED <<owner, publishing, issued, backup, uncredited, deleted, unread>>
  BY DEF ImportRegistry
<1>2. /\ email' \in Directories /\ credits' \subseteq People \X Datasets
      /\ \A q \in People : email'[q] # NoEmail <=> email[q] # NoEmail \/ q \in back
  BY <1>1 DEF MarketInv, MarketTyped, Directories, Registered
<1>3. /\ \/ /\ stored'.email = email' /\ stored'.credits = credits'
            /\ cutOff' = (cutOff \cup backup.cutOff) \ back
         \/ /\ stored'.email \in {stored.email, email'} /\ stored'.credits = stored.credits
            /\ cutOff' = cutOff \cup backup.cutOff \cup (back \ Registered)
      /\ stored'.owner = stored.owner
      /\ stored' \in [email : Directories, credits : SUBSET (People \X Datasets), owner : Catalogues]
  <2>1. \/ /\ stored' = [stored EXCEPT !.email = email', !.credits = credits']
           /\ cutOff' = (cutOff \cup backup.cutOff) \ back
        \/ /\ stored' = stored \/ stored' = [stored EXCEPT !.email = email']
           /\ cutOff' = cutOff \cup backup.cutOff \cup (back \ Registered)
    BY DEF ImportRegistry
  <2> HIDE DEF back
  <2>2. stored \in [email : Directories, credits : SUBSET (People \X Datasets), owner : Catalogues]
    BY DEF MarketInv, MarketTyped
  <2>3. CASE stored' = [stored EXCEPT !.email = email', !.credits = credits']
    BY <1>2, <2>1, <2>2, <2>3
  <2>4. CASE stored' = stored \/ stored' = [stored EXCEPT !.email = email']
    BY <1>2, <2>1, <2>2, <2>4
  <2>5. QED
    BY <2>1, <2>3, <2>4
<1>4. stops' \in 0..MaxStops
  BY MarketAssumption DEF MarketInv, MarketTyped, ImportRegistry, OneStop
<1>5. MarketTyped'
  BY <1>1, <1>2, <1>3, <1>4 DEF MarketInv, MarketTyped
<1>6. OnePublication' /\ DatasetsCredited' /\ RecordsOwned'
  BY <1>1, <1>3, CatalogueStays
<1>7. RecordsContributed'
  <2>1. \A r \in credits \cup stored.credits \cup backup.credits : r[1] \in People
    BY DEF MarketInv, MarketTyped
  <2>2. \A r \in backup.credits : r[1] \in back \/ r[1] \in backup.cutOff \/ "contributors" \in unread
    BY <2>1 DEF MarketInv, RecordsContributed
  <2>3. \A q \in back : email'[q] # NoEmail
    BY <1>2
  <2>4. \A q \in Registered : stored.email[q] # NoEmail \/ q \in cutOff
    BY DEF MarketInv, RecordsContributed, Registered
  <2> HIDE DEF back
  <2>5. CASE /\ stored'.email = email' /\ stored'.credits = credits'
             /\ cutOff' = (cutOff \cup backup.cutOff) \ back
    BY <1>1, <1>2, <2>1, <2>2, <2>3, <2>5 DEF MarketInv, RecordsContributed, Contributed
  <2>6. CASE /\ stored'.email \in {stored.email, email'} /\ stored'.credits = stored.credits
             /\ cutOff' = cutOff \cup backup.cutOff \cup (back \ Registered)
    BY <1>1, <1>2, <2>1, <2>2, <2>3, <2>4, <2>6 DEF MarketInv, RecordsContributed, Contributed, Registered
  <2>7. QED
    BY <1>3, <2>5, <2>6
<1>8. EmailsApart'
  BY <1>1 DEF EmailsApart, Apart
<1>9. QED
  BY <1>5, <1>6, <1>7, <1>8 DEF MarketInv

\* A step that leaves the contributors and the records alone.
LEMMA RegistryStays ==
  ASSUME MarketInv, UNCHANGED <<email, credits, cutOff, mixed>>, unread \subseteq unread',
         stored'.email = stored.email, stored'.credits = stored.credits, backup' = backup
  PROVE  RecordsContributed' /\ EmailsApart'
  BY DEF MarketInv, RecordsContributed, Contributed, EmailsApart, Apart

LEMMA BeginPublishKeeps ==
  ASSUME MarketInv, NEW t \in Publishers, NEW p \in People, NEW d \in Datasets, BeginPublish(t, p, d)
  PROVE  MarketInv'
<1> DEFINE v == [at |-> "known", who |-> p, dataset |-> d]
<1>1. /\ \A u \in Publishers : publishing[u] = NotPublishing
      /\ d \notin issued /\ issued' = issued \cup {d} /\ stops' = stops
      /\ publishing' = [publishing EXCEPT ![t] = v]
      /\ UNCHANGED <<email, credits, owner, stored, backup, cutOff, uncredited, deleted, unread, mixed>>
  BY DEF BeginPublish, MarketFree, NoStop
<1>2. v \in Publication /\ v.at = "known" /\ v.who = p /\ v.dataset = d
  BY DEF Publication
<1> HIDE DEF v
<1>3. publishing'[t] = v /\ \A u \in Publishers : u # t => publishing'[u] = NotPublishing
  BY <1>1 DEF MarketInv, MarketTyped
<1>4. MarketTyped'
  BY <1>1, <1>2 DEF MarketInv, MarketTyped
<1>5. owner[d] = NoOwner /\ stored.owner[d] = NoOwner
  BY <1>1 DEF MarketInv, RecordsOwned
<1>6. OnePublication'
  BY <1>1, <1>2, <1>3, <1>5 DEF OnePublication
<1>7. DatasetsCredited'
  <2>1. \A e \in Datasets : ~\E u \in Publishers : publishing[u].dataset = e
    BY <1>1, MarketAssumption DEF NotPublishing
  <2>2. QED
    BY <1>1, <2>1 DEF MarketInv, DatasetsCredited, Credited, Excused
<1>8. RecordsOwned'
  BY <1>1 DEF MarketInv, RecordsOwned, Owned
<1>9. QED
  BY <1>1, <1>4, <1>6, <1>7, <1>8, RegistryStays DEF MarketInv

\* While one thread publishes, no other is about any dataset.
LEMMA OnlyThatDataset ==
  ASSUME MarketInv, NEW t \in Publishers, publishing[t] # NotPublishing,
         NEW e \in Datasets, e # publishing[t].dataset
  PROVE  ~\E u \in Publishers : publishing[u].dataset = e
  BY MarketAssumption DEF MarketInv, OnePublication, NotPublishing

LEMMA WriteMetadataKeeps ==
  ASSUME MarketInv, NEW t \in Publishers, WriteMetadata(t)
  PROVE  MarketInv'
<1> DEFINE p == publishing[t].who
           d == publishing[t].dataset
           v == [publishing[t] EXCEPT !.at = "written"]
<1>1. /\ publishing[t].at = "known"
      /\ owner' = [owner EXCEPT ![d] = p]
      /\ \/ /\ stored' = [stored EXCEPT !.owner = owner'] /\ publishing' = [publishing EXCEPT ![t] = v]
            /\ uncredited' = uncredited
         \/ /\ stored' = stored /\ publishing' = [publishing EXCEPT ![t] = NotPublishing]
            /\ uncredited' = uncredited \cup {d}
      /\ UNCHANGED <<email, credits, issued, backup, cutOff, deleted, unread, mixed>>
  BY DEF WriteMetadata
<1>2. /\ p \in People /\ d \in Datasets /\ d \in issued
      /\ owner[d] = NoOwner /\ stored.owner[d] = NoOwner
      /\ publishing[t] # NotPublishing /\ \A u \in Publishers : u # t => publishing[u] = NotPublishing
  BY <1>1 DEF MarketInv, OnePublication, NotPublishing
<1>3. v \in Publication /\ v.at = "written" /\ v.who = p /\ v.dataset = d
  BY DEF MarketInv, MarketTyped, Publication
<1> HIDE DEF v, p, d
<1>4. /\ owner' \in Catalogues /\ owner'[d] = p
      /\ \A e \in Datasets : e # d => owner'[e] = owner[e]
  BY <1>1, <1>2 DEF MarketInv, MarketTyped, Catalogues
<1>5. /\ stored'.email = stored.email /\ stored'.credits = stored.credits
      /\ \/ stored'.owner = owner' /\ publishing'[t] = v /\ uncredited' = uncredited
         \/ /\ stored'.owner = stored.owner /\ publishing'[t] = NotPublishing
            /\ uncredited' = uncredited \cup {d}
      /\ \A u \in Publishers : u # t => publishing'[u] = NotPublishing
      /\ stored' \in [email : Directories, credits : SUBSET (People \X Datasets), owner : Catalogues]
  BY <1>1, <1>2, <1>4 DEF MarketInv, MarketTyped
<1>6. MarketTyped'
  <2>1. stops' \in 0..MaxStops
    BY MarketAssumption DEF MarketInv, MarketTyped, WriteMetadata, NoStop, OneStop
  <2>2. NotPublishing \in Publication
    BY DEF NotPublishing, Publication
  <2>3. publishing' \in [Publishers -> Publication] /\ uncredited' \subseteq Datasets
    BY <1>1, <1>2, <1>3, <2>2 DEF MarketInv, MarketTyped
  <2>4. QED
    BY <1>1, <1>4, <1>5, <2>1, <2>3 DEF MarketInv, MarketTyped
<1>7. OnePublication'
  <2>1. CASE stored'.owner = owner' /\ publishing'[t] = v
    BY <1>1, <1>2, <1>3, <1>4, <1>5, <2>1 DEF OnePublication
  <2>2. CASE publishing'[t] = NotPublishing
    BY <1>5, <2>2 DEF OnePublication
  <2>3. QED
    BY <1>5, <2>1, <2>2
<1>8. DatasetsCredited'
  <2>1. ASSUME NEW o \in {owner', stored'.owner}, NEW e \in Datasets, e # d, o[e] # NoOwner
        PROVE  \/ o[e] \in deleted \/ e \in uncredited \/ "contributions" \in unread
               \/ <<o[e], e>> \in credits /\ <<o[e], e>> \in stored.credits
    <3>1. ~\E u \in Publishers : publishing[u].dataset = e
      BY <1>2, <2>1, OnlyThatDataset DEF d
    <3>2. QED
      BY <1>4, <1>5, <2>1, <3>1 DEF MarketInv, DatasetsCredited, Credited, Excused
  <2>2. d \in uncredited' \/ \E u \in Publishers : publishing'[u].dataset = d
    BY <1>3, <1>5
  <2>3. QED
    BY <1>1, <1>5, <2>1, <2>2 DEF DatasetsCredited, Credited, Excused
<1>9. RecordsOwned'
  <2>1. \A c \in {credits, stored.credits, backup.credits} : \A r \in c : r[1] \in People /\ r[2] \in Datasets
    BY DEF MarketInv, MarketTyped
  <2>2. "metadata" \notin unread => \A c \in {credits, stored.credits, backup.credits} : \A r \in c : r[2] # d
    BY <1>2, <2>1, MarketAssumption DEF MarketInv, RecordsOwned, Owned
  <2>3. ASSUME NEW c \in {credits, stored.credits, backup.credits}, NEW r \in c, "metadata" \notin unread
        PROVE  owner'[r[2]] = r[1] /\ stored'.owner[r[2]] = r[1]
    BY <1>4, <1>5, <2>1, <2>2, <2>3 DEF MarketInv, RecordsOwned, Owned
  <2>4. \A e \in Datasets : owner'[e] # NoOwner \/ stored'.owner[e] # NoOwner => e \in issued
    BY <1>2, <1>4, <1>5 DEF MarketInv, RecordsOwned
  <2>5. QED
    BY <1>1, <1>5, <2>3, <2>4 DEF RecordsOwned, Owned
<1>10. QED
  BY <1>1, <1>5, <1>6, <1>7, <1>8, <1>9, RegistryStays DEF MarketInv

LEMMA AddContributionKeeps ==
  ASSUME MarketInv, NEW t \in Publishers, AddContribution(t)
  PROVE  MarketInv'
<1> DEFINE p == publishing[t].who
           d == publishing[t].dataset
<1>1. /\ publishing[t].at = "written"
      /\ publishing' = [publishing EXCEPT ![t] = NotPublishing]
      /\ \/ /\ p \in Registered /\ credits' = credits \cup {<<p, d>>}
            /\ \/ stored' = [stored EXCEPT !.credits = credits'] /\ uncredited' = uncredited
               \/ stored' = stored /\ uncredited' = uncredited \cup {d}
         \/ credits' = credits /\ stored' = stored /\ uncredited' = uncredited \cup {d}
      /\ UNCHANGED <<email, owner, issued, backup, cutOff, deleted, unread, mixed>>
  BY DEF AddContribution, Credit
<1>2. /\ p \in People /\ d \in Datasets /\ owner[d] = p /\ stored.owner[d] = p
      /\ publishing[t] # NotPublishing /\ \A u \in Publishers : u # t => publishing[u] = NotPublishing
  BY <1>1 DEF MarketInv, OnePublication, NotPublishing
<1> HIDE DEF p, d
<1>3. \A u \in Publishers : publishing'[u] = NotPublishing
  BY <1>1, <1>2 DEF MarketInv, MarketTyped
<1>4. /\ stored'.email = stored.email /\ stored'.owner = stored.owner
      /\ \/ /\ p \in Registered /\ credits' = credits \cup {<<p, d>>}
            /\ \/ stored'.credits = credits' /\ uncredited' = uncredited
               \/ stored'.credits = stored.credits /\ uncredited' = uncredited \cup {d}
         \/ credits' = credits /\ stored'.credits = stored.credits /\ uncredited' = uncredited \cup {d}
      /\ stored' \in [email : Directories, credits : SUBSET (People \X Datasets), owner : Catalogues]
  BY <1>1, <1>2 DEF MarketInv, MarketTyped
<1>5. MarketTyped'
  <2>1. stops' \in 0..MaxStops
    BY MarketAssumption DEF MarketInv, MarketTyped, AddContribution, Credit, NoStop, OneStop
  <2>2. NotPublishing \in Publication
    BY DEF NotPublishing, Publication
  <2>3. publishing' \in [Publishers -> Publication] /\ uncredited' \subseteq Datasets
        /\ credits' \subseteq People \X Datasets
    BY <1>1, <1>2, <2>2 DEF MarketInv, MarketTyped
  <2>4. QED
    BY <1>1, <1>4, <2>1, <2>3 DEF MarketInv, MarketTyped
<1>6. OnePublication'
  BY <1>3 DEF OnePublication
<1>7. DatasetsCredited'
  <2>1. ASSUME NEW o \in {owner, stored.owner}, NEW e \in Datasets, e # d, o[e] # NoOwner
        PROVE  \/ o[e] \in deleted \/ e \in uncredited \/ "contributions" \in unread
               \/ <<o[e], e>> \in credits /\ <<o[e], e>> \in stored.credits
    <3>1. ~\E u \in Publishers : publishing[u].dataset = e
      BY <1>2, <2>1, OnlyThatDataset DEF d
    <3>2. QED
      BY <2>1, <3>1 DEF MarketInv, DatasetsCredited, Credited, Excused
  <2>2. d \in uncredited' \/ (<<p, d>> \in credits' /\ <<p, d>> \in stored'.credits)
    BY <1>4
  <2>3. /\ credits \subseteq credits' /\ uncredited \subseteq uncredited'
        /\ stored'.credits = stored.credits \/ stored'.credits = credits'
    BY <1>4
  <2>4. owner' = owner /\ stored'.owner = stored.owner /\ deleted' = deleted /\ unread' = unread
    BY <1>1, <1>4
  <2>5. QED
    BY <1>2, <2>1, <2>2, <2>3, <2>4 DEF DatasetsCredited, Credited, Excused
<1>8. RecordsContributed'
  BY <1>1, <1>2, <1>4 DEF MarketInv, RecordsContributed, Contributed, Registered
<1>9. RecordsOwned'
  BY <1>1, <1>2, <1>4 DEF MarketInv, RecordsOwned, Owned
<1>10. EmailsApart'
  BY <1>1, <1>4 DEF MarketInv, EmailsApart, Apart
<1>11. QED
  BY <1>5, <1>6, <1>7, <1>8, <1>9, <1>10 DEF MarketInv

LEMMA RewriteKeeps ==
  ASSUME MarketInv, RewriteContributions \/ RewriteMetadata
  PROVE  MarketInv'
<1>1. /\ UNCHANGED <<email, credits, owner, publishing, issued, backup, cutOff, uncredited, deleted, unread, mixed>>
      /\ stops' = stops
  BY DEF RewriteContributions, RewriteMetadata, Tables, NoStop
<1>2. \/ stored'.credits = credits /\ stored'.owner = stored.owner
      \/ MarketFree /\ stored'.credits = stored.credits /\ stored'.owner = owner
  BY DEF MarketInv, MarketTyped, RewriteContributions, RewriteMetadata
<1>3. /\ stored'.email = stored.email
      /\ stored' \in [email : Directories, credits : SUBSET (People \X Datasets), owner : Catalogues]
  BY DEF MarketInv, MarketTyped, RewriteContributions, RewriteMetadata
<1>4. MarketTyped'
  BY <1>1, <1>3 DEF MarketInv, MarketTyped
<1>5. OnePublication'
  BY <1>1, <1>2 DEF MarketInv, OnePublication, MarketFree
<1>6. DatasetsCredited'
  BY <1>1, <1>2 DEF MarketInv, DatasetsCredited, Credited, Excused
<1>7. RecordsContributed' /\ EmailsApart'
  BY <1>1, <1>2, <1>3 DEF MarketInv, RecordsContributed, Contributed, EmailsApart, Apart
<1>8. RecordsOwned'
  BY <1>1, <1>2 DEF MarketInv, RecordsOwned, Owned
<1>9. QED
  BY <1>4, <1>5, <1>6, <1>7, <1>8 DEF MarketInv

LEMMA ExportKeeps ==
  ASSUME MarketInv, ExportRegistry
  PROVE  MarketInv'
<1>1. /\ backup' = [email |-> email, credits |-> credits, cutOff |-> cutOff]
      /\ UNCHANGED <<email, credits, owner, stored, publishing, issued, cutOff, uncredited, deleted, unread, mixed>>
  BY DEF ExportRegistry
<1>2. backup'.email = email /\ backup'.credits = credits /\ backup'.cutOff = cutOff
  BY <1>1
<1>3. stops' \in 0..MaxStops
  BY MarketAssumption DEF MarketInv, MarketTyped, ExportRegistry, OneStop
<1>4. MarketTyped'
  BY <1>1, <1>3 DEF MarketInv, MarketTyped
<1>5. OnePublication' /\ DatasetsCredited' /\ EmailsApart'
  BY <1>1 DEF MarketInv, OnePublication, DatasetsCredited, Credited, Excused, EmailsApart, Apart
<1>6. RecordsContributed' /\ RecordsOwned'
  BY <1>1, <1>2 DEF MarketInv, RecordsContributed, Contributed, RecordsOwned, Owned
<1>7. QED
  BY <1>4, <1>5, <1>6 DEF MarketInv

\* What the files say of each other is what memory says of itself after a restart, but for
\* the files that are unreadable.
LEMMA RestartKeeps ==
  ASSUME MarketInv, NEW bad \in SUBSET MarketFiles, RestartMarket(bad)
  PROVE  MarketInv'
<1>1. /\ email' = IF "contributors" \in bad THEN Nobody ELSE stored.email
      /\ credits' = IF "contributions" \in bad THEN {} ELSE stored.credits
      /\ owner' = IF "metadata" \in bad THEN NoDatasets ELSE stored.owner
      /\ publishing' = [t \in Publishers |-> NotPublishing]
      /\ uncredited' = uncredited \cup {publishing[t].dataset : t \in {t \in Publishers : publishing[t].at = "written"}}
      /\ unread' = unread \cup bad
      /\ UNCHANGED <<stored, issued, backup, cutOff, deleted, mixed>>
  BY DEF RestartMarket
<1>2. uncredited' \subseteq Datasets
  BY <1>1 DEF MarketInv, MarketTyped, OnePublication, NotPublishing
<1>3. MarketTyped'
  <2>1. stops' \in 0..MaxStops
    BY MarketAssumption DEF MarketInv, MarketTyped, RestartMarket, OneStop
  <2>2. publishing' \in [Publishers -> Publication]
    BY <1>1 DEF NotPublishing, Publication
  <2>3. email' \in Directories /\ owner' \in Catalogues /\ credits' \subseteq People \X Datasets
    BY <1>1 DEF MarketInv, MarketTyped, Directories, Catalogues, Nobody, NoDatasets
  <2>4. QED
    BY <1>1, <1>2, <2>1, <2>2, <2>3 DEF MarketInv, MarketTyped
<1>4. OnePublication'
  BY <1>1 DEF OnePublication
<1>5. DatasetsCredited'
  <2>1. ASSUME NEW d \in Datasets, stored.owner[d] # NoOwner
        PROVE  \/ <<stored.owner[d], d>> \in stored.credits \/ stored.owner[d] \in deleted
               \/ d \in uncredited' \/ "contributions" \in unread
    <3>1. ASSUME NEW t \in Publishers, publishing[t].dataset = d
          PROVE  d \in uncredited'
      BY <1>1, <2>1, <3>1, MarketAssumption DEF MarketInv, OnePublication, NotPublishing
    <3>2. QED
      BY <1>1, <2>1, <3>1 DEF MarketInv, DatasetsCredited, Credited, Excused
  <2>2. \A d \in Datasets : owner'[d] # NoOwner => owner'[d] = stored.owner[d]
    BY <1>1 DEF NoDatasets
  <2>3. credits' = stored.credits \/ "contributions" \in unread'
    BY <1>1
  <2>4. unread \subseteq unread' /\ deleted' = deleted /\ stored' = stored
    BY <1>1
  <2>5. QED
    BY <2>1, <2>2, <2>3, <2>4 DEF DatasetsCredited, Credited, Excused
<1>6. RecordsContributed'
  BY <1>1 DEF MarketInv, MarketTyped, RecordsContributed, Contributed, Nobody
<1>7. RecordsOwned'
  BY <1>1 DEF MarketInv, MarketTyped, RecordsOwned, Owned, NoDatasets
<1>8. EmailsApart'
  BY <1>1 DEF MarketInv, EmailsApart, Apart, Nobody
<1>9. QED
  BY <1>3, <1>4, <1>5, <1>6, <1>7, <1>8 DEF MarketInv

LEMMA MarketStep == MarketInv /\ [MarketNext]_marketVars => MarketInv'
<1> SUFFICES ASSUME MarketInv, [MarketNext]_marketVars PROVE MarketInv'
  OBVIOUS
<1>1. CASE UNCHANGED marketVars
  BY <1>1 DEF MarketInv, MarketTyped, OnePublication, DatasetsCredited, Credited, Excused,
              RecordsContributed, Contributed, RecordsOwned, Owned, EmailsApart, Apart, marketVars
<1>2. QED
  BY <1>1, RegisterKeeps, DeleteKeeps, BeginPublishKeeps, WriteMetadataKeeps, AddContributionKeeps,
     RewriteKeeps, ExportKeeps, ImportKeeps, RestartKeeps DEF MarketNext

\* Contributors, contribution records and datasets agree but for what RecordsAgree names,
\* for any number of threads, people and datasets, across writes that raise, deaths of the
\* process and files that are unreadable.
THEOREM RegistriesAgree == MarketSpec => []RecordsAgree
<1>1. MarketInv => RecordsAgree
  <2> SUFFICES ASSUME MarketInv PROVE RecordsAgree
    OBVIOUS
  <2>1. \A c \in credits : c[1] \in People
    BY DEF MarketInv, MarketTyped
  <2>2. QED
    BY <2>1 DEF MarketInv, DatasetsCredited, Credited, Excused, RecordsContributed, Contributed,
                RecordsOwned, Owned, EmailsApart, Apart, Registered, Published, RecordsAgree
<1>2. QED
  BY <1>1, MarketStart, MarketStep, PTL DEF MarketSpec

-----------------------------------------------------------------------------
(* PluginManager                                                           *)

LoadFrame == [plugin : Plugins, wants : SUBSET Plugins, left : SUBSET Plugins, activating : BOOLEAN]

PluginsTyped ==
  /\ manifests \in Manifests /\ plugins \subseteq Plugins
  /\ needs \in [Plugins -> SUBSET Plugins] /\ gone \in [Plugins -> SUBSET Plugins]
  /\ stack \in [Callers -> Seq(LoadFrame)]

\* The load() calls a thread is in: each of another plugin; what one has looked at is in
\* table P or gone (G) since, but for the plugin itself and the one that is being loaded
\* for it; and only the innermost is activating, which the next one finds or knows gone.
FramesOK(s, P, G) ==
  /\ \A i, j \in DOMAIN s : s[i].plugin = s[j].plugin => i = j
  /\ \A i \in DOMAIN s :
       s[i].wants \ s[i].left
         \subseteq P \cup G[s[i].plugin] \cup {s[i].plugin} \cup (IF i = 1 THEN {} ELSE {s[i - 1].plugin})
  /\ \A i \in DOMAIN s :
       s[i].activating =>
         /\ i = 1 /\ s[i].left = {}
         /\ 2 \in DOMAIN s => s[1].plugin \in P \cup G[s[2].plugin]

PluginInv ==
  PluginsTyped /\ (\A c \in Callers : FramesOK(stack[c], plugins, gone)) /\ DependenciesBeside

\* The members of a thread's list of calls.
LEMMA FrameTyped ==
  ASSUME NEW s \in Seq(LoadFrame), NEW i \in DOMAIN s
  PROVE  s[i] \in LoadFrame /\ s[i].plugin \in Plugins
<1>1. s[i] \in LoadFrame
  BY ElementOfSeq, LenProperties
<1> QED
  BY <1>1 DEF LoadFrame

\* A thread in no load() has nothing to keep.
LEMMA NoFrames == ASSUME NEW P, NEW G PROVE FramesOK(<<>>, P, G)
BY DEF FramesOK

LEMMA PluginsStart == PluginsInit => PluginInv
<1> SUFFICES ASSUME PluginsInit PROVE PluginInv
  OBVIOUS
<1>1. PluginsTyped
  <2>1. <<>> \in Seq(LoadFrame)
    OBVIOUS
  <2> QED
    BY <2>1 DEF PluginsInit, PluginsTyped
<1>2. \A c \in Callers : FramesOK(stack[c], plugins, gone)
  BY NoFrames DEF PluginsInit
<1> QED
  BY <1>1, <1>2 DEF PluginInv, PluginsInit, DependenciesBeside

\* The calls of a thread keep what they have looked at when the table and the gone ones
\* lose nothing that concerns their plugins.
LEMMA FramesStay ==
  ASSUME NEW s \in Seq(LoadFrame), NEW P, NEW G, NEW Q, NEW H, FramesOK(s, P, G),
         \A i \in DOMAIN s :
           P \cup G[s[i].plugin] \subseteq Q \cup H[s[i].plugin] \cup {s[i].plugin}
  PROVE  FramesOK(s, Q, H)
<1>1. \A i, j \in DOMAIN s : s[i].plugin = s[j].plugin => i = j
  BY DEF FramesOK
<1>2. ASSUME NEW i \in DOMAIN s
      PROVE  s[i].wants \ s[i].left
               \subseteq Q \cup H[s[i].plugin] \cup {s[i].plugin} \cup (IF i = 1 THEN {} ELSE {s[i - 1].plugin})
  <2> DEFINE inner == IF i = 1 THEN {} ELSE {s[i - 1].plugin}
  <2>1. s[i].wants \ s[i].left \subseteq P \cup G[s[i].plugin] \cup {s[i].plugin} \cup inner
    BY DEF FramesOK
  <2> HIDE DEF inner
  <2>2. s[i].wants \ s[i].left \subseteq Q \cup H[s[i].plugin] \cup {s[i].plugin} \cup inner
    BY <2>1
  <2> QED
    BY <2>2 DEF inner
<1>3. ASSUME NEW i \in DOMAIN s, s[i].activating
      PROVE  /\ i = 1 /\ s[i].left = {}
             /\ 2 \in DOMAIN s => s[1].plugin \in Q \cup H[s[2].plugin]
  <2>1. /\ i = 1 /\ s[i].left = {}
        /\ 2 \in DOMAIN s => s[1].plugin \in P \cup G[s[2].plugin]
    BY <1>3 DEF FramesOK
  <2>2. 2 \in DOMAIN s => s[1].plugin # s[2].plugin
    <3>1. 1 \in DOMAIN s /\ 1 # 2
      BY <2>1
    <3> QED
      BY <1>1, <3>1
  <2> QED
    BY <2>1, <2>2
<1> QED
  BY <1>1, <1>2, <1>3 DEF FramesOK

\* A step of one thread.
LEMMA OneCaller ==
  ASSUME PluginsTyped, NEW c \in Callers, NEW s \in Seq(LoadFrame), stack' = [stack EXCEPT ![c] = s]
  PROVE  /\ stack' \in [Callers -> Seq(LoadFrame)] /\ stack'[c] = s
         /\ \A d \in Callers : d # c => stack'[d] = stack[d]
BY DEF PluginsTyped

\* A plugin that leaves the table is gone for every other one.
LEMMA LeavesKeeps ==
  ASSUME PluginInv, NEW p \in Plugins, Leaves(p)
  PROVE  /\ plugins' \subseteq Plugins /\ gone' \in [Plugins -> SUBSET Plugins]
         /\ \A c \in Callers : FramesOK(stack[c], plugins', gone')
         /\ UNCHANGED needs => DependenciesBeside'
<1>1. /\ plugins' = plugins \ {p} /\ plugins \subseteq Plugins
      /\ gone' = [q \in Plugins |-> IF q = p THEN gone[q] ELSE gone[q] \cup {p}]
      /\ gone \in [Plugins -> SUBSET Plugins]
  BY DEF Leaves, PluginInv, PluginsTyped
<1>2. \A q \in Plugins : plugins \cup gone[q] \subseteq plugins' \cup gone'[q] \cup {q}
  BY <1>1
<1>3. ASSUME NEW c \in Callers PROVE FramesOK(stack[c], plugins', gone')
  <2>1. stack[c] \in Seq(LoadFrame) /\ FramesOK(stack[c], plugins, gone)
    BY DEF PluginInv, PluginsTyped
  <2>2. \A i \in DOMAIN stack[c] : stack[c][i].plugin \in Plugins
    BY <2>1, FrameTyped
  <2> QED
    BY <1>2, <2>1, <2>2, FramesStay
<1>4. ASSUME UNCHANGED needs PROVE DependenciesBeside'
  <2>1. ASSUME NEW q \in plugins' PROVE needs'[q] \subseteq plugins' \cup gone'[q]
    <3>1. q \in plugins /\ q # p /\ q \in Plugins /\ needs[q] \subseteq plugins \cup gone[q]
      BY <1>1 DEF PluginInv, DependenciesBeside
    <3> QED
      BY <1>1, <1>4, <3>1
  <2> QED
    BY <2>1 DEF DependenciesBeside
<1>5. plugins' \subseteq Plugins /\ gone' \in [Plugins -> SUBSET Plugins]
  BY <1>1
<1> QED
  BY <1>3, <1>4, <1>5

\* A load() that begins: of a plugin that is not in the table, on calls s of its thread
\* which it is not one of.
LEMMA BeginKept ==
  ASSUME PluginInv, NEW c \in Callers, NEW p \in Plugins, NEW s \in Seq(LoadFrame),
         Begin(c, p, s), p \notin plugins,
         \A i \in DOMAIN s : s[i].plugin # p /\ ~s[i].activating,
         \A i \in DOMAIN s : InLoad(c, s[i].plugin),
         \A i, j \in DOMAIN s : s[i].plugin = s[j].plugin => i = j,
         \A i \in DOMAIN s :
           s[i].wants \ s[i].left
             \subseteq plugins \cup gone[s[i].plugin] \cup {s[i].plugin}
                         \cup {IF i = 1 THEN p ELSE s[i - 1].plugin},
         UNCHANGED <<manifests, plugins, needs>>
  PROVE  PluginInv'
<1> DEFINE F == Frame(p)
           t == <<F>> \o s
<1>1. F \in LoadFrame /\ F.plugin = p /\ F.wants \ F.left = {} /\ F.activating = FALSE
  <2>1. manifests[p] \in [deps : SUBSET Plugins, suits : BOOLEAN]
    BY PluginsAssumption DEF PluginInv, PluginsTyped
  <2> QED
    BY <2>1 DEF Frame, LoadFrame
<1> HIDE DEF F
<1>2. /\ t \in Seq(LoadFrame) /\ Len(t) = Len(s) + 1 /\ Len(s) \in Nat
      /\ DOMAIN t = 1 .. (Len(s) + 1) /\ DOMAIN s = 1 .. Len(s) /\ t[1] = F
      /\ \A i \in 1 .. Len(s) : t[i + 1] = s[i]
  <2>1. <<F>> \in Seq(LoadFrame) /\ Len(<<F>>) = 1 /\ <<F>>[1] = F
    BY <1>1
  <2>2. \A i \in 1 .. Len(s) : t[1 + i] = s[i]
    BY <2>1, ConcatProperties
  <2> QED
    BY <2>1, <2>2, ConcatProperties, LenProperties
<1> HIDE DEF t
<1>3. ASSUME NEW i \in DOMAIN t, i # 1 PROVE i - 1 \in DOMAIN s /\ t[i] = s[i - 1]
  BY <1>2, <1>3
<1>4. /\ stack' = [stack EXCEPT ![c] = t]
      /\ gone' = IF \E d \in Callers : InLoad(d, p) THEN gone ELSE [gone EXCEPT ![p] = {}]
  BY DEF Begin, t, F
<1>5. PluginsTyped /\ gone \in [Plugins -> SUBSET Plugins]
  BY DEF PluginInv, PluginsTyped
<1>6. /\ stack' \in [Callers -> Seq(LoadFrame)] /\ stack'[c] = t
      /\ \A d \in Callers : d # c => stack'[d] = stack[d]
  BY <1>2, <1>4, <1>5, OneCaller
<1>7. PluginsTyped'
  BY <1>4, <1>5, <1>6 DEF PluginsTyped
<1>8. ASSUME NEW d \in Callers, NEW q \in Plugins, InLoad(d, q) PROVE gone'[q] = gone[q]
  BY <1>4, <1>5, <1>8
<1>9. ASSUME NEW d \in Callers, d # c PROVE FramesOK(stack'[d], plugins', gone')
  <2>1. stack[d] \in Seq(LoadFrame) /\ FramesOK(stack[d], plugins, gone)
    BY DEF PluginInv, PluginsTyped
  <2>3. \A i \in DOMAIN stack[d] : stack[d][i].plugin \in Plugins /\ InLoad(d, stack[d][i].plugin)
    BY <2>1, FrameTyped DEF InLoad
  <2>2. \A i \in DOMAIN stack[d] : gone'[stack[d][i].plugin] = gone[stack[d][i].plugin]
    BY <1>8, <2>3
  <2> QED
    BY <1>6, <1>9, <2>1, <2>2, FramesStay, SMTT(30)
<1>10. FramesOK(t, plugins', gone')
  <2>1. ASSUME NEW i \in DOMAIN t, NEW j \in DOMAIN t, t[i].plugin = t[j].plugin PROVE i = j
    BY <1>1, <1>2, <1>3, <2>1, SMTT(30)
  <2>2. ASSUME NEW i \in DOMAIN t
        PROVE  t[i].wants \ t[i].left
                 \subseteq plugins' \cup gone'[t[i].plugin] \cup {t[i].plugin}
                             \cup (IF i = 1 THEN {} ELSE {t[i - 1].plugin})
    <3>1. CASE i = 1
      BY <1>1, <1>2, <3>1
    <3>2. CASE i # 1
      <4>1. i - 1 \in DOMAIN s /\ t[i] = s[i - 1] /\ s[i - 1].plugin \in Plugins
        BY <1>3, <3>2, FrameTyped
      <4>2. gone'[t[i].plugin] = gone[t[i].plugin]
        BY <1>8, <4>1
      <4>3. t[i - 1].plugin = IF i - 1 = 1 THEN p ELSE s[(i - 1) - 1].plugin
        <5>1. CASE i - 1 = 1
          BY <1>1, <1>2, <5>1
        <5>2. CASE i - 1 # 1
          BY <1>2, <1>3, <3>2, <5>2
        <5> QED
          BY <5>1, <5>2
      <4>4. s[i - 1].wants \ s[i - 1].left
              \subseteq plugins \cup gone[s[i - 1].plugin] \cup {s[i - 1].plugin} \cup {t[i - 1].plugin}
        BY <4>1, <4>3
      <4> QED
        BY <3>2, <4>1, <4>2, <4>4
    <3> QED
      BY <3>1, <3>2
  <2>3. \A i \in DOMAIN t : ~t[i].activating
    BY <1>1, <1>2, <1>3
  <2> QED
    BY <2>1, <2>2, <2>3 DEF FramesOK
<1>11. DependenciesBeside'
  <2>1. ASSUME NEW q \in plugins PROVE needs[q] \subseteq plugins \cup gone'[q]
    <3>1. q # p /\ q \in Plugins
      BY DEF PluginInv, PluginsTyped
    <3>2. gone'[q] = gone[q]
      BY <1>4, <1>5, <3>1
    <3> QED
      BY <3>2 DEF PluginInv, DependenciesBeside
  <2> QED
    BY <2>1 DEF DependenciesBeside
<1> QED
  BY <1>6, <1>7, <1>9, <1>10, <1>11 DEF PluginInv

LEMMA LoadPluginKeeps == ASSUME PluginInv, NEW c \in Callers, LoadPlugin(c) PROVE PluginInv'
<1>1. PICK p \in Plugins : /\ CanBegin(p) /\ Begin(c, p, <<>>)
                           /\ UNCHANGED <<manifests, plugins, needs, scans, unloads>>
  BY DEF LoadPlugin
<1>2. <<>> \in Seq(LoadFrame) /\ DOMAIN <<>> = {}
  OBVIOUS
<1> QED
  BY <1>1, <1>2, BeginKept DEF CanBegin

\* A load() that ends by an exception ends all those around it.
LEMMA RaisesKeeps ==
  ASSUME PluginInv, NEW c \in Callers, Raises(c), PluginsTyped' \/ UNCHANGED <<manifests, plugins, needs, gone>>,
         \A d \in Callers : FramesOK(stack[d], plugins', gone'), DependenciesBeside'
  PROVE  PluginInv'
<1>1. PluginsTyped /\ <<>> \in Seq(LoadFrame) /\ stack' = [stack EXCEPT ![c] = <<>>]
  BY DEF PluginInv, Raises
<1>2. /\ stack' \in [Callers -> Seq(LoadFrame)] /\ stack'[c] = <<>>
      /\ \A d \in Callers : d # c => stack'[d] = stack[d]
  BY <1>1, OneCaller
<1>3. \A d \in Callers : FramesOK(stack'[d], plugins', gone')
  BY <1>2, NoFrames
<1>4. PluginsTyped'
  BY <1>1, <1>2 DEF PluginsTyped
<1> QED
  BY <1>3, <1>4 DEF PluginInv

LEMMA LoadDependencyKeeps == ASSUME PluginInv, NEW c \in Callers, LoadDependency(c) PROVE PluginInv'
<1> DEFINE s == stack[c]
<1>1. PICK d \in Head(s).left :
        LET rest == [s EXCEPT ![1].left = @ \ {d}] IN
        CASE d \in plugins -> stack' = [stack EXCEPT ![c] = rest] /\ UNCHANGED gone
          [] CanBegin(d) /\ ~InLoad(c, d) -> Begin(c, d, rest)
          [] OTHER -> Raises(c) /\ UNCHANGED gone
  BY DEF LoadDependency
<1>2. s # <<>> /\ UNCHANGED <<manifests, plugins, needs, scans, unloads>>
  BY DEF LoadDependency
<1>3. /\ PluginsTyped /\ s \in Seq(LoadFrame) /\ FramesOK(s, plugins, gone)
      /\ Len(s) \in Nat /\ DOMAIN s = 1 .. Len(s)
  BY LenProperties DEF PluginInv, PluginsTyped
<1>4. 1 \in DOMAIN s /\ Head(s) = s[1] /\ s[1] \in LoadFrame
  BY <1>2, <1>3, EmptySeq
<1> DEFINE f == [s[1] EXCEPT !.left = @ \ {d}]
           rest == [s EXCEPT ![1].left = @ \ {d}]
<1>5. /\ f \in LoadFrame /\ f.plugin = s[1].plugin /\ f.wants = s[1].wants
      /\ f.left = s[1].left \ {d} /\ f.activating = s[1].activating
      /\ d \in s[1].left /\ d \in Plugins
  BY <1>1, <1>4 DEF LoadFrame
<1>6. rest = [s EXCEPT ![1] = f]
  BY <1>3, <1>4
<1>6a. /\ d \in plugins => stack' = [stack EXCEPT ![c] = rest] /\ UNCHANGED gone
       /\ CanBegin(d) /\ ~InLoad(c, d) => Begin(c, d, rest)
       /\ d \notin plugins /\ ~(CanBegin(d) /\ ~InLoad(c, d)) => Raises(c) /\ UNCHANGED gone
  <2>1. CanBegin(d) => d \notin plugins
    BY DEF CanBegin
  <2> QED
    BY <1>1, <2>1
<1> HIDE DEF f, rest
<1>7. /\ rest \in Seq(LoadFrame) /\ DOMAIN rest = DOMAIN s /\ rest[1] = f
      /\ \A i \in DOMAIN s : i # 1 => rest[i] = s[i]
      /\ \A i \in DOMAIN s : rest[i].plugin = s[i].plugin /\ rest[i].wants = s[i].wants
                             /\ rest[i].activating = s[i].activating
  BY <1>3, <1>4, <1>5, <1>6, ExceptSeq
<1>8. \A i \in DOMAIN s : ~s[i].activating
  <2>1. ASSUME NEW i \in DOMAIN s, s[i].activating PROVE FALSE
    <3>1. i = 1 /\ s[i].left = {}
      BY <1>3, <2>1 DEF FramesOK
    <3> QED
      BY <1>5, <3>1
  <2> QED
    BY <2>1
<1>9. ASSUME NEW i \in DOMAIN s
      PROVE  rest[i].wants \ rest[i].left
               \subseteq plugins \cup gone[rest[i].plugin] \cup {rest[i].plugin}
                           \cup {IF i = 1 THEN d ELSE rest[i - 1].plugin}
  <2>1. s[i].wants \ s[i].left
          \subseteq plugins \cup gone[s[i].plugin] \cup {s[i].plugin} \cup (IF i = 1 THEN {} ELSE {s[i - 1].plugin})
    BY <1>3 DEF FramesOK
  <2>2. CASE i = 1
    BY <1>4, <1>5, <1>7, <2>1, <2>2
  <2>3. CASE i # 1
    <3>1. i - 1 \in DOMAIN s
      BY <1>3, <2>3
    <3> QED
      BY <1>7, <2>1, <2>3, <3>1
  <2> QED
    BY <2>2, <2>3
<1>10. \A i, j \in DOMAIN rest : rest[i].plugin = rest[j].plugin => i = j
  <2>1. \A i, j \in DOMAIN s : s[i].plugin = s[j].plugin => i = j
    BY <1>3 DEF FramesOK
  <2> QED
    BY <1>7, <2>1
<1>11. CASE d \in plugins
  <2>1. stack' = [stack EXCEPT ![c] = rest] /\ UNCHANGED gone
    BY <1>11, <1>6a
  <2>2. /\ stack' \in [Callers -> Seq(LoadFrame)] /\ stack'[c] = rest
        /\ \A e \in Callers : e # c => stack'[e] = stack[e]
    BY <1>3, <1>7, <2>1, OneCaller
  <2>3. FramesOK(rest, plugins, gone)
    <3>1. \A i \in DOMAIN rest :
            rest[i].wants \ rest[i].left
              \subseteq plugins \cup gone[rest[i].plugin] \cup {rest[i].plugin}
                          \cup (IF i = 1 THEN {} ELSE {rest[i - 1].plugin})
      BY <1>7, <1>9, <1>11
    <3>2. \A i \in DOMAIN rest : ~rest[i].activating
      BY <1>7, <1>8
    <3> QED
      BY <1>10, <3>1, <3>2 DEF FramesOK
  <2>4. PluginsTyped'
    BY <1>2, <1>3, <2>1, <2>2 DEF PluginsTyped
  <2>5. \A e \in Callers : FramesOK(stack'[e], plugins', gone')
    BY <1>2, <2>1, <2>2, <2>3 DEF PluginInv
  <2> QED
    BY <1>2, <2>1, <2>4, <2>5 DEF PluginInv, DependenciesBeside
<1>12. CASE d \notin plugins /\ CanBegin(d) /\ ~InLoad(c, d)
  <2>1. Begin(c, d, rest)
    BY <1>12, <1>6a
  <2>2. \A i \in DOMAIN rest : rest[i].plugin # d /\ ~rest[i].activating /\ InLoad(c, rest[i].plugin)
    BY <1>7, <1>8, <1>12 DEF InLoad
  <2> QED
    BY <1>2, <1>5, <1>7, <1>9, <1>10, <1>12, <2>1, <2>2, BeginKept
<1>13. CASE d \notin plugins /\ ~(CanBegin(d) /\ ~InLoad(c, d))
  <2>1. Raises(c) /\ UNCHANGED gone
    BY <1>13, <1>6a
  <2> QED
    BY <1>2, <2>1, RaisesKeeps DEF PluginInv, DependenciesBeside
<1> QED
  BY <1>11, <1>12, <1>13

\* All that the plugin wants is beside it when it enters the table.
LEMMA EnterTableKeeps == ASSUME PluginInv, NEW c \in Callers, EnterTable(c) PROVE PluginInv'
<1> DEFINE s == stack[c]
<1>1. /\ s # <<>> /\ Head(s).left = {}
      /\ plugins' = plugins \cup {Head(s).plugin}
      /\ needs' = [needs EXCEPT ![Head(s).plugin] = Head(s).wants]
      /\ stack' = [stack EXCEPT ![c][1].activating = TRUE]
      /\ UNCHANGED <<manifests, gone, scans, unloads>>
  BY DEF EnterTable, Enter
<1>2. /\ PluginsTyped /\ s \in Seq(LoadFrame) /\ FramesOK(s, plugins, gone)
      /\ Len(s) \in Nat /\ DOMAIN s = 1 .. Len(s)
  BY LenProperties DEF PluginInv, PluginsTyped
<1>3. 1 \in DOMAIN s /\ Head(s) = s[1] /\ s[1] \in LoadFrame
  BY <1>1, <1>2, EmptySeq
<1> DEFINE f == [s[1] EXCEPT !.activating = TRUE]
           t == [s EXCEPT ![1] = f]
<1>4. stack' = [stack EXCEPT ![c] = t]
  BY <1>1, <1>2
<1>5. /\ f \in LoadFrame /\ f.plugin = s[1].plugin /\ f.wants = s[1].wants /\ f.left = s[1].left
      /\ s[1].plugin \in Plugins /\ s[1].wants \subseteq Plugins
  BY <1>3 DEF LoadFrame
<1> HIDE DEF f
<1>6. /\ t \in Seq(LoadFrame) /\ DOMAIN t = DOMAIN s /\ t[1] = f
      /\ \A i \in DOMAIN s : i # 1 => t[i] = s[i]
      /\ \A i \in DOMAIN s : t[i].plugin = s[i].plugin /\ t[i].wants = s[i].wants /\ t[i].left = s[i].left
  BY <1>2, <1>3, <1>5, ExceptSeq
<1> HIDE DEF t
<1>7. /\ stack' \in [Callers -> Seq(LoadFrame)] /\ stack'[c] = t
      /\ \A e \in Callers : e # c => stack'[e] = stack[e]
  BY <1>2, <1>4, <1>6, OneCaller
<1>8. PluginsTyped'
  BY <1>1, <1>2, <1>3, <1>5, <1>7 DEF PluginsTyped
<1>9. ASSUME NEW e \in Callers PROVE FramesOK(stack[e], plugins', gone')
  <2>1. stack[e] \in Seq(LoadFrame) /\ FramesOK(stack[e], plugins, gone)
    BY DEF PluginInv, PluginsTyped
  <2> QED
    BY <1>1, <2>1, FramesStay
<1>10. FramesOK(t, plugins', gone')
  <2>1. FramesOK(s, plugins', gone')
    BY <1>9
  <2>2. \A i, j \in DOMAIN t : t[i].plugin = t[j].plugin => i = j
    BY <1>6, <2>1 DEF FramesOK
  <2>3. ASSUME NEW i \in DOMAIN t
        PROVE  t[i].wants \ t[i].left
                 \subseteq plugins' \cup gone'[t[i].plugin] \cup {t[i].plugin}
                             \cup (IF i = 1 THEN {} ELSE {t[i - 1].plugin})
    <3>1. s[i].wants \ s[i].left
            \subseteq plugins' \cup gone'[s[i].plugin] \cup {s[i].plugin}
                        \cup (IF i = 1 THEN {} ELSE {s[i - 1].plugin})
      BY <1>6, <2>1 DEF FramesOK
    <3>2. i # 1 => i - 1 \in DOMAIN s
      BY <1>2, <1>6
    <3> QED
      BY <1>6, <3>1, <3>2
  <2>4. ASSUME NEW i \in DOMAIN t, t[i].activating
        PROVE  /\ i = 1 /\ t[i].left = {}
               /\ 2 \in DOMAIN t => t[1].plugin \in plugins' \cup gone'[t[2].plugin]
    <3>1. i = 1
      <4>1. CASE i # 1
        BY <1>6, <2>1, <2>4, <4>1 DEF FramesOK
      <4> QED
        BY <4>1
    <3> QED
      BY <1>1, <1>3, <1>6, <3>1
  <2> QED
    BY <2>2, <2>3, <2>4 DEF FramesOK
<1>11. DependenciesBeside'
  <2>1. s[1].wants \subseteq plugins \cup gone[s[1].plugin] \cup {s[1].plugin}
    BY <1>1, <1>2, <1>3 DEF FramesOK
  <2>2. needs' = [needs EXCEPT ![s[1].plugin] = s[1].wants] /\ needs \in [Plugins -> SUBSET Plugins]
    BY <1>1, <1>2, <1>3 DEF PluginsTyped
  <2>3. ASSUME NEW q \in plugins' PROVE needs'[q] \subseteq plugins' \cup gone'[q]
    <3>1. CASE q = s[1].plugin
      BY <1>1, <1>3, <1>5, <2>1, <2>2, <3>1
    <3>2. CASE q # s[1].plugin
      <4>1. q \in plugins /\ q \in Plugins
        BY <1>1, <1>3, <3>2 DEF PluginInv, PluginsTyped
      <4> QED
        BY <1>1, <2>2, <3>2, <4>1 DEF PluginInv, DependenciesBeside
    <3> QED
      BY <3>1, <3>2
  <2> QED
    BY <2>3 DEF DependenciesBeside
<1>12. \A e \in Callers : FramesOK(stack'[e], plugins', gone')
  BY <1>7, <1>9, <1>10
<1> QED
  BY <1>8, <1>11, <1>12 DEF PluginInv

\* The load() around the one that returns finds its plugin in the table, or gone.
LEMMA ActivatedKeeps == ASSUME PluginInv, NEW c \in Callers, Activated(c) PROVE PluginInv'
<1> DEFINE s == stack[c]
           t == Tail(s)
<1>1. /\ s # <<>> /\ Head(s).activating /\ stack' = [stack EXCEPT ![c] = t]
      /\ UNCHANGED <<manifests, plugins, needs, gone, scans, unloads>>
  BY DEF Activated
<1>2. /\ PluginsTyped /\ s \in Seq(LoadFrame) /\ FramesOK(s, plugins, gone)
      /\ Len(s) \in Nat /\ DOMAIN s = 1 .. Len(s)
  BY LenProperties DEF PluginInv, PluginsTyped
<1>3. /\ 1 \in DOMAIN s /\ Head(s) = s[1] /\ Len(s) >= 1
      /\ t \in Seq(LoadFrame) /\ Len(t) = Len(s) - 1 /\ DOMAIN t = 1 .. (Len(s) - 1)
      /\ \A i \in 1 .. (Len(s) - 1) : t[i] = s[i + 1] /\ i + 1 \in DOMAIN s
  BY <1>1, <1>2, EmptySeq, HeadTailProperties, LenProperties
<1> HIDE DEF t
<1>4. 2 \in DOMAIN s => s[1].plugin \in plugins \cup gone[s[2].plugin]
  BY <1>1, <1>2, <1>3 DEF FramesOK
<1>5. FramesOK(t, plugins, gone)
  <2>1. ASSUME NEW i \in DOMAIN t, NEW j \in DOMAIN t, t[i].plugin = t[j].plugin PROVE i = j
    <3>1. i + 1 \in DOMAIN s /\ j + 1 \in DOMAIN s /\ s[i + 1].plugin = s[j + 1].plugin
      BY <1>3, <2>1
    <3>2. i + 1 = j + 1
      BY <1>2, <3>1 DEF FramesOK
    <3> QED
      BY <1>3, <3>2
  <2>2. ASSUME NEW i \in DOMAIN t
        PROVE  t[i].wants \ t[i].left
                 \subseteq plugins \cup gone[t[i].plugin] \cup {t[i].plugin}
                             \cup (IF i = 1 THEN {} ELSE {t[i - 1].plugin})
    <3>1. i + 1 \in DOMAIN s /\ t[i] = s[i + 1] /\ i + 1 # 1 /\ (i + 1) - 1 = i /\ i \in Nat
      BY <1>3
    <3>2. s[i + 1].wants \ s[i + 1].left
            \subseteq plugins \cup gone[s[i + 1].plugin] \cup {s[i + 1].plugin} \cup {s[i].plugin}
      <4>1. s[i + 1].wants \ s[i + 1].left
              \subseteq plugins \cup gone[s[i + 1].plugin] \cup {s[i + 1].plugin}
                          \cup (IF i + 1 = 1 THEN {} ELSE {s[(i + 1) - 1].plugin})
        BY <1>2, <3>1 DEF FramesOK
      <4> QED
        BY <3>1, <4>1
    <3>3. CASE i = 1
      BY <1>4, <3>1, <3>2, <3>3
    <3>4. CASE i # 1
      <4>1. i - 1 \in 1 .. (Len(s) - 1) /\ (i - 1) + 1 = i
        <5>1. i \in 1 .. (Len(s) - 1) /\ Len(s) \in Nat
          BY <1>2, <1>3
        <5> QED
          BY <3>4, <5>1, SMTT(30)
      <4>2. t[i - 1] = s[i]
        BY <1>3, <4>1, Zenon
      <4> QED
        BY <3>1, <3>2, <3>4, <4>2
    <3> QED
      BY <3>3, <3>4
  <2>3. ASSUME NEW i \in DOMAIN t, t[i].activating PROVE FALSE
    <3>1. i + 1 \in DOMAIN s /\ s[i + 1].activating /\ i + 1 # 1
      BY <1>3, <2>3
    <3> QED
      BY <1>2, <3>1 DEF FramesOK
  <2> QED
    BY <2>1, <2>2, <2>3 DEF FramesOK
<1>6. /\ stack' \in [Callers -> Seq(LoadFrame)] /\ stack'[c] = t
      /\ \A e \in Callers : e # c => stack'[e] = stack[e]
  BY <1>1, <1>2, <1>3, OneCaller
<1>7. PluginsTyped'
  BY <1>1, <1>2, <1>6 DEF PluginsTyped
<1>8. \A e \in Callers : FramesOK(stack'[e], plugins', gone')
  BY <1>1, <1>5, <1>6 DEF PluginInv
<1> QED
  BY <1>1, <1>7, <1>8 DEF PluginInv, DependenciesBeside

LEMMA ActivationFailsKeeps ==
  ASSUME PluginInv, NEW c \in Callers, ActivationFails(c) PROVE PluginInv'
<1>1. /\ stack[c] # <<>> /\ Leaves(Head(stack[c]).plugin) /\ Raises(c)
      /\ UNCHANGED <<manifests, needs, scans, unloads>>
  BY DEF ActivationFails
<1>2. Head(stack[c]).plugin \in Plugins
  <2>1. stack[c] \in Seq(LoadFrame)
    BY DEF PluginInv, PluginsTyped
  <2>2. Head(stack[c]) \in LoadFrame
    BY <1>1, <2>1, HeadTailProperties
  <2> QED
    BY <2>2 DEF LoadFrame
<1>3. /\ plugins' \subseteq Plugins /\ gone' \in [Plugins -> SUBSET Plugins]
      /\ \A d \in Callers : FramesOK(stack[d], plugins', gone')
      /\ DependenciesBeside'
  BY <1>1, <1>2, LeavesKeeps
<1>4. PluginsTyped'
  <2>1. stack' \in [Callers -> Seq(LoadFrame)]
    BY <1>1 DEF Raises, PluginInv, PluginsTyped
  <2> QED
    BY <1>1, <1>3, <2>1 DEF PluginInv, PluginsTyped
<1> QED
  BY <1>1, <1>3, <1>4, RaisesKeeps

LEMMA PluginsStep == PluginInv /\ [PluginsNext]_pluginVars => PluginInv'
<1> SUFFICES ASSUME PluginInv, [PluginsNext]_pluginVars PROVE PluginInv'
  OBVIOUS
<1>1. CASE Discover
  BY <1>1 DEF Discover, PluginInv, PluginsTyped, DependenciesBeside
<1>2. CASE UnloadPlugin
  <2>1. PICK p \in plugins : Leaves(p) /\ UNCHANGED <<manifests, stack, needs, scans>>
    BY <1>2 DEF UnloadPlugin
  <2>2. p \in Plugins
    BY DEF PluginInv, PluginsTyped
  <2>3. /\ plugins' \subseteq Plugins /\ gone' \in [Plugins -> SUBSET Plugins]
        /\ \A c \in Callers : FramesOK(stack[c], plugins', gone')
        /\ DependenciesBeside'
    BY <2>1, <2>2, LeavesKeeps
  <2> QED
    BY <2>1, <2>3 DEF PluginInv, PluginsTyped
<1>3. ASSUME NEW c \in Callers,
             LoadPlugin(c) \/ LoadDependency(c) \/ EnterTable(c) \/ Activated(c) \/ ActivationFails(c)
      PROVE  PluginInv'
  BY <1>3, LoadPluginKeeps, LoadDependencyKeeps, EnterTableKeeps, ActivatedKeeps, ActivationFailsKeeps
<1>4. CASE UNCHANGED pluginVars
  BY <1>4 DEF pluginVars, PluginInv, PluginsTyped, DependenciesBeside
<1> QED
  BY <1>1, <1>2, <1>3, <1>4 DEF PluginsNext

\* A plugin in the table has every plugin it depends on beside it, except for those that
\* were unloaded or failed to activate since its load() began, with any number of threads.
THEOREM DependenciesAreBeside == PluginsSpec => []DependenciesBeside
<1>1. PluginInv => DependenciesBeside
  BY DEF PluginInv
<1> QED
  BY <1>1, PluginsStart, PluginsStep, PTL DEF PluginsSpec

-----------------------------------------------------------------------------
(* TrustChain                                                              *)

Hash == ({"none"} \cup Objects) \X Nat
TrustRecord == [object : Objects, imported : BOOLEAN, hash : Hash, previous : Hash]
Exported == [valid : BOOLEAN, record : TrustRecord]

TrustTyped ==
  /\ content \in [Objects -> 0 .. MaxChanges]
  /\ records \in Seq(TrustRecord) /\ Len(records) <= MaxRecords
  /\ archive \in Seq(Exported)
  /\ lastHash \in Hash /\ relinked \in BOOLEAN

\* The layer goes on from the record it holds last, an imported one as well.
GoesOn == lastHash = IF records = <<>> THEN NoHash ELSE records[Len(records)].hash

TrustInv == TrustTyped /\ GoesOn /\ ChainUnbroken

LEMMA NoHashIsHash == NoHash \in Hash
BY DEF NoHash, Hash

LEMMA TrustStarts == TrustInit => TrustInv
<1> SUFFICES ASSUME TrustInit PROVE TrustInv
  OBVIOUS
<1>1. TrustTyped
  <2>1. records \in Seq(TrustRecord) /\ archive \in Seq(Exported) /\ Len(records) = 0
    BY EmptySeq DEF TrustInit
  <2>2. lastHash \in Hash
    BY NoHashIsHash DEF TrustInit
  <2>3. 0 \in 0 .. MaxChanges /\ 0 <= MaxRecords
    BY TrustAssumption
  <2>4. content \in [Objects -> 0 .. MaxChanges] /\ relinked \in BOOLEAN
    BY <2>3 DEF TrustInit
  <2> QED
    BY <2>1, <2>2, <2>3, <2>4 DEF TrustTyped
<1>2. GoesOn /\ ChainUnbroken
  BY DEF TrustInit, GoesOn, ChainUnbroken, ChainLinked, Linked
<1> QED
  BY <1>1, <1>2 DEF TrustInv

\* What import_records() takes in is a list of records.
LEMMA IncomingIsList == ASSUME TrustTyped PROVE Incoming \in Seq(TrustRecord)
<1> DEFINE valid == Filtered(archive, {x \in {archive[i] : i \in DOMAIN archive} : x.valid})
<1>1. valid \in Seq(Exported)
  BY FilteredPicks DEF TrustTyped
<1> HIDE DEF valid
<1>2. ASSUME NEW i \in DOMAIN valid PROVE [valid[i].record EXCEPT !.imported = TRUE] \in TrustRecord
  <2>1. valid[i] \in Exported
    BY <1>1, ElementOfSeq
  <2>2. valid[i].record \in TrustRecord
    BY <2>1 DEF Exported
  <2> QED
    BY <2>2 DEF TrustRecord
<1>3. [i \in DOMAIN valid |-> [valid[i].record EXCEPT !.imported = TRUE]] \in Seq(TrustRecord)
  <2>1. DOMAIN valid = 1 .. Len(valid) /\ Len(valid) \in Nat
    BY <1>1
  <2> QED
    BY <1>2, <2>1
<1> QED
  BY <1>3 DEF Incoming, valid

\* A list linked to the end of a linked one makes a linked one.
LEMMA LinkedTogether ==
  ASSUME NEW rs \in Seq(TrustRecord), NEW more \in Seq(TrustRecord), NEW end \in Hash,
         Linked(rs, NoHash), Linked(more, end),
         end = IF rs = <<>> THEN NoHash ELSE rs[Len(rs)].hash
  PROVE  Linked(rs \o more, NoHash)
<1> DEFINE all == rs \o more
<1>1. /\ Len(rs) \in Nat /\ Len(more) \in Nat /\ Len(all) = Len(rs) + Len(more)
      /\ all \in Seq(TrustRecord) /\ DOMAIN all = 1 .. Len(all)
      /\ \A i \in 1 .. Len(rs) : all[i] = rs[i]
      /\ \A i \in 1 .. Len(more) : all[Len(rs) + i] = more[i]
  BY ConcatProperties, LenProperties
<1> HIDE DEF all
<1>2. ASSUME NEW i \in 1 .. Len(all)
      PROVE  all[i].previous = IF i = 1 THEN NoHash ELSE all[i - 1].hash
  <2>1. CASE i \in 1 .. Len(rs)
    <3>1. rs[i].previous = IF i = 1 THEN NoHash ELSE rs[i - 1].hash
      BY <2>1 DEF Linked
    <3>2. i # 1 => i - 1 \in 1 .. Len(rs)
      BY <1>1, <2>1
    <3> QED
      BY <1>1, <2>1, <3>1, <3>2
  <2>2. CASE i = Len(rs) + 1
    <3>1. 1 \in 1 .. Len(more) /\ all[i] = more[1]
      BY <1>1, <2>2
    <3>2. more[1].previous = end
      BY <3>1 DEF Linked
    <3>3. rs = <<>> <=> i = 1
      BY <1>1, <2>2, EmptySeq
    <3>4. CASE i = 1
      BY <3>1, <3>2, <3>3, <3>4
    <3>5. CASE i # 1
      <4>1. i - 1 = Len(rs) /\ i - 1 \in 1 .. Len(rs)
        BY <1>1, <2>2, <3>5
      <4>2. all[i - 1] = rs[Len(rs)]
        BY <1>1, <4>1
      <4> QED
        BY <3>1, <3>2, <3>3, <3>5, <4>2
    <3> QED
      BY <3>4, <3>5
  <2>3. CASE i > Len(rs) + 1
    <3>1. i - Len(rs) \in 2 .. Len(more) /\ i - Len(rs) - 1 \in 1 .. Len(more)
      BY <1>1, <2>3
    <3>2. all[i] = more[i - Len(rs)] /\ all[i - 1] = more[i - Len(rs) - 1]
      <4>1. Len(rs) + (i - Len(rs)) = i /\ Len(rs) + (i - Len(rs) - 1) = i - 1
        BY <1>1, <2>3
      <4>2. i - Len(rs) \in 1 .. Len(more)
        BY <3>1
      <4> QED
        BY <1>1, <3>1, <4>1, <4>2
    <3>3. more[i - Len(rs)].previous = more[i - Len(rs) - 1].hash
      <4>1. i - Len(rs) \in DOMAIN more /\ i - Len(rs) # 1
        BY <1>1, <3>1
      <4> QED
        BY <4>1 DEF Linked
    <3> QED
      BY <1>1, <2>3, <3>2, <3>3
  <2> QED
    BY <1>1, <2>1, <2>2, <2>3
<1> QED
  BY <1>1, <1>2 DEF Linked, all

\* A record of its own continues the chain, whatever its payload becomes.
LEMMA CreateRecordKeeps == ASSUME TrustInv, NEW o \in Objects, CreateRecord(o) PROVE TrustInv'
<1> DEFINE r == RecordOf(o, lastHash)
<1>1. /\ Len(records) < MaxRecords /\ records' = Append(records, r)
      /\ lastHash' = <<o, content[o]>> /\ UNCHANGED <<content, archive, relinked>>
  BY DEF CreateRecord
<1>2. r \in TrustRecord /\ r.hash = <<o, content[o]>> /\ r.previous = lastHash
  <2>1. <<o, content[o]>> \in Hash /\ lastHash \in Hash
    BY TrustAssumption DEF TrustInv, TrustTyped, Hash
  <2> QED
    BY <2>1 DEF RecordOf, TrustRecord
<1> HIDE DEF r
<1>3. /\ records \in Seq(TrustRecord) /\ Len(records) \in Nat
      /\ records' \in Seq(TrustRecord) /\ Len(records') = Len(records) + 1
      /\ records'[Len(records) + 1] = r /\ records' # <<>>
      /\ records' = records \o <<r>> /\ <<r>> \in Seq(TrustRecord)
  BY <1>1, <1>2, AppendProperties, LenProperties, EmptySeq DEF TrustInv, TrustTyped
<1>4. TrustTyped'
  <2>1. lastHash' \in Hash
    BY <1>1, TrustAssumption DEF TrustInv, TrustTyped, Hash
  <2>2. Len(records') <= MaxRecords
    BY <1>1, <1>3, TrustAssumption
  <2> QED
    BY <1>1, <1>3, <2>1, <2>2 DEF TrustInv, TrustTyped
<1>5. GoesOn'
  BY <1>1, <1>2, <1>3 DEF GoesOn
<1>6. ChainUnbroken'
  <2>1. SUFFICES ASSUME ~relinked PROVE Linked(records \o <<r>>, NoHash)
    BY <1>1, <1>3 DEF ChainUnbroken, ChainLinked
  <2>2. Linked(records, NoHash) /\ lastHash \in Hash
    BY <2>1 DEF TrustInv, TrustTyped, ChainUnbroken, ChainLinked
  <2>3. Linked(<<r>>, lastHash)
    BY <1>2 DEF Linked
  <2> QED
    BY <1>3, <2>2, <2>3, LinkedTogether DEF TrustInv, GoesOn
<1> QED
  BY <1>4, <1>5, <1>6 DEF TrustInv

\* Imported records continue the chain when they follow on its end.
LEMMA ImportRecordsKeeps == ASSUME TrustInv, ImportRecords PROVE TrustInv'
<1>1. /\ Incoming # <<>> /\ Len(records) + Len(Incoming) <= MaxRecords
      /\ records' = records \o Incoming /\ lastHash' = Incoming[Len(Incoming)].hash
      /\ relinked' = (relinked \/ ~Linked(Incoming, lastHash)) /\ UNCHANGED <<content, archive>>
  BY DEF ImportRecords
<1>2. Incoming \in Seq(TrustRecord) /\ records \in Seq(TrustRecord)
  BY IncomingIsList DEF TrustInv, TrustTyped
<1> DEFINE more == Incoming
<1> HIDE DEF more
<1>3. /\ Len(more) \in Nat \ {0} /\ Len(records) \in Nat /\ records' \in Seq(TrustRecord)
      /\ Len(records') = Len(records) + Len(more) /\ records' # <<>>
      /\ records'[Len(records) + Len(more)] = more[Len(more)]
  BY <1>1, <1>2, ConcatProperties, LenProperties, EmptySeq DEF more
<1>4. TrustTyped'
  <2>1. more[Len(more)] \in TrustRecord
    BY <1>2, <1>3 DEF more
  <2>2. lastHash' \in Hash
    BY <1>1, <2>1 DEF more, TrustRecord
  <2> QED
    BY <1>1, <1>3, <2>2 DEF TrustInv, TrustTyped, more
<1>5. GoesOn'
  BY <1>1, <1>3 DEF GoesOn, more
<1>6. ChainUnbroken'
  <2>1. SUFFICES ASSUME ~relinked, Linked(more, lastHash) PROVE Linked(records \o more, NoHash)
    BY <1>1 DEF ChainUnbroken, ChainLinked, more
  <2>2. Linked(records, NoHash) /\ lastHash \in Hash /\ more \in Seq(TrustRecord)
    BY <1>2, <2>1 DEF TrustInv, TrustTyped, ChainUnbroken, ChainLinked, more
  <2> QED
    BY <1>2, <2>1, <2>2, LinkedTogether DEF TrustInv, GoesOn
<1> QED
  BY <1>4, <1>5, <1>6 DEF TrustInv

\* The chain does not depend on the payloads, nor on what is exported.
LEMMA TrustStep == TrustInv /\ [TrustNext]_trustVars => TrustInv'
<1> SUFFICES ASSUME TrustInv, [TrustNext]_trustVars PROVE TrustInv'
  OBVIOUS
<1>1. ASSUME NEW o \in Objects, CreateRecord(o) PROVE TrustInv'
  BY <1>1, CreateRecordKeeps
<1>2. ASSUME NEW o \in Objects, ChangeProvenance(o) PROVE TrustInv'
  <2>1. content' \in [Objects -> 0 .. MaxChanges]
    BY <1>2, TrustAssumption DEF TrustInv, TrustTyped, ChangeProvenance
  <2> QED
    BY <1>2, <2>1
       DEF TrustInv, TrustTyped, GoesOn, ChainUnbroken, ChainLinked, Linked, ChangeProvenance
<1>3. CASE ExportRecords
  <2>1. ASSUME NEW i \in DOMAIN records
        PROVE  [valid |-> Verifies(records[i]), record |-> records[i]] \in Exported
    <3>1. records[i] \in TrustRecord
      BY DEF TrustInv, TrustTyped
    <3>2. Verifies(records[i]) \in BOOLEAN
      BY <3>1 DEF Verifies, TrustRecord
    <3> QED
      BY <3>1, <3>2 DEF Exported
  <2>2. DOMAIN records = 1 .. Len(records) /\ Len(records) \in Nat
    BY DEF TrustInv, TrustTyped
  <2>3. archive' \in Seq(Exported)
    BY <1>3, <2>1, <2>2 DEF ExportRecords
  <2> QED
    BY <1>3, <2>3
       DEF TrustInv, TrustTyped, GoesOn, ChainUnbroken, ChainLinked, Linked, ExportRecords
<1>4. CASE ImportRecords
  BY <1>4, ImportRecordsKeeps
<1>5. CASE Reopen
  <2>1. TrustTyped'
    <3>1. records' \in Seq(TrustRecord) /\ Len(records') = 0
      BY <1>5, EmptySeq DEF Reopen
    <3>2. lastHash' \in Hash
      BY <1>5, NoHashIsHash DEF Reopen
    <3>3. 0 <= MaxRecords
      BY TrustAssumption
    <3> QED
      BY <1>5, <3>1, <3>2, <3>3 DEF TrustInv, TrustTyped, Reopen
  <2> QED
    BY <1>5, <2>1 DEF TrustInv, GoesOn, ChainUnbroken, ChainLinked, Linked, Reopen
<1>6. CASE UNCHANGED trustVars
  BY <1>6 DEF TrustInv, TrustTyped, GoesOn, ChainUnbroken, ChainLinked, Linked, trustVars
<1> QED
  BY <1>1, <1>2, <1>3, <1>4, <1>5, <1>6 DEF TrustNext

\* The chain has no gap, whatever becomes of the payloads, unless records were imported
\* that do not follow on what was there.
THEOREM ChainHasNoGap == TrustSpec => []ChainUnbroken
<1>1. TrustInv => ChainUnbroken
  BY DEF TrustInv
<1> QED
  BY <1>1, TrustStarts, TrustStep, PTL DEF TrustSpec

-----------------------------------------------------------------------------
(* CreditLedger                                                            *)

\* Only calls that were made are anywhere in the files.
Known == \A s \in Stores : s.applied \cup s.usage \cup s.grants \subseteq 1 .. Len(calls)

\* What the call in progress has done before it writes the next file.
Progress ==
  current # NoCall =>
    /\ current.file = "grants" => calls[current.id].kind = "grant" /\ current.id \in mem.grants
    /\ current.file # "grants" => current.id \in mem.applied
    /\ current.file = "usage" => current.id \in mem.usage /\ disk.applied = mem.applied

\* Memory is ahead of each file that never was unreadable.
Ahead ==
  up => /\ "balances" \notin lost => disk.applied \subseteq mem.applied
        /\ "usage" \notin lost => disk.usage \subseteq mem.usage
        /\ "grants" \notin lost => disk.grants \subseteq mem.grants

\* A grant is in its file before its amount is in the balance.
GrantsFirst ==
  up /\ "grants" \notin lost =>
    \A id \in mem.applied : calls[id].kind = "grant" => id \in disk.grants

LedgerIInv ==
  /\ TypeOK
  /\ Known /\ Progress /\ Ahead /\ GrantsFirst
  /\ NonNegative /\ UsageIsApplied /\ GrantsKnown /\ ReturnedIsRecorded

LEMMA EmptyStore == Empty \in Store
  BY DEF Empty, Store

LEMMA LedgerStarts == Init => LedgerIInv
<1> SUFFICES ASSUME Init PROVE LedgerIInv
  OBVIOUS
<1>1. calls \in Seq(Call) /\ Len(calls) = 0
  BY EmptySeq DEF Init
<1>2. TypeOK
  BY <1>1, EmptyStore, LedgerAssumption DEF Init, TypeOK
<1>3. QED
  BY <1>1, <1>2 DEF Init, LedgerIInv, Known, Progress, Ahead, GrantsFirst, NonNegative,
     UsageIsApplied, GrantsKnown, ReturnedIsRecorded, Records, Stores, Empty

LEMMA DeltaType ==
  ASSUME NEW c \in Call
  PROVE  /\ Delta(c) \in Int /\ c.account \in Accounts /\ c.amount \in Int
         /\ Delta(c) = IF c.kind = "deduct" THEN 0 - c.amount ELSE c.amount
<1>1. c.account \in Accounts /\ c.amount \in Amounts
  BY DEF Call
<1>2. c.amount \in Int
  BY <1>1, LedgerAssumption
<1>3. QED
  BY <1>1, <1>2 DEF Delta

\* Crediting or charging a call changes its own account and nothing else.
LEMMA AppliedBalance ==
  ASSUME NEW s \in Store, NEW id \in Ids, NEW c \in Call, NEW new, new = Applied(s, id, c)
  PROVE  new.balance = [s.balance EXCEPT ![c.account] = s.balance[c.account] + Delta(c)]
BY DEF Applied, Store

LEMMA AppliedFields ==
  ASSUME NEW s \in Store, NEW id \in Ids, NEW c \in Call, NEW new, new = Applied(s, id, c)
  PROVE  /\ new \in Store
         /\ new.applied = s.applied \cup {id}
         /\ new.usage = s.usage
         /\ new.grants = s.grants
<1> DEFINE balance == [s.balance EXCEPT ![c.account] = s.balance[c.account] + Delta(c)]
<1>1. Delta(c) \in Int /\ c.account \in Accounts
  BY DeltaType
<1>2. new = [s EXCEPT !.balance = balance, !.applied = s.applied \cup {id}]
  BY DEF Applied, Store
<1>3. balance \in [Accounts -> Int]
  BY <1>1 DEF Store
<1>4. s.applied \cup {id} \in SUBSET Ids /\ s.usage \in SUBSET Ids /\ s.grants \in SUBSET Ids
  BY DEF Store
<1> HIDE DEF balance
<1>5. new = [balance |-> balance, applied |-> s.applied \cup {id},
             usage |-> s.usage, grants |-> s.grants]
  BY <1>2 DEF Store
<1>6. QED
  BY <1>3, <1>4, <1>5 DEF Store, balance

\* An account is not overdrawn by a call that is affordable, unless the call itself, or one
\* before, adds something negative to it.
LEMMA AppliedNonNegative ==
  ASSUME NEW s \in Store, NEW id \in Ids, NEW c \in Call, NEW new, new = Applied(s, id, c),
         NEW made, NEW n \in 1 .. Len(made), made[n] = c,
         \A a \in Accounts : s.balance[a] >= 0 \/ Reduced(made, a),
         c.kind = "deduct" => s.balance[c.account] >= c.amount
  PROVE  \A a \in Accounts : new.balance[a] >= 0 \/ Reduced(made, a)
<1>1. /\ Delta(c) \in Int /\ c.account \in Accounts /\ c.amount \in Int
      /\ Delta(c) = IF c.kind = "deduct" THEN 0 - c.amount ELSE c.amount
  BY DeltaType
<1>2. s.balance \in [Accounts -> Int]
  BY DEF Store
<1>3. s.balance[c.account] + Delta(c) >= 0 \/ Reduced(made, c.account)
  <2>1. CASE c.kind = "deduct"
    BY <1>1, <1>2, <2>1
  <2>2. CASE c.kind # "deduct" /\ c.amount < 0
    BY <2>2 DEF Reduced
  <2>3. CASE c.kind # "deduct" /\ ~(c.amount < 0)
    BY <1>1, <1>2, <2>3
  <2>4. QED
    BY <2>1, <2>2, <2>3
<1>4. new.balance = [s.balance EXCEPT ![c.account] = s.balance[c.account] + Delta(c)]
  BY AppliedBalance
<1>5. QED
  BY <1>1, <1>2, <1>3, <1>4

\* Later calls take back nothing of what was added.
LEMMA ReducedStays ==
  ASSUME NEW made, NEW later, Len(made) \in Nat, Len(later) = Len(made) + 1,
         \A i \in 1 .. Len(made) : later[i] = made[i], NEW a, Reduced(made, a)
  PROVE  Reduced(later, a)
<1>1. PICK i \in 1 .. Len(made) : made[i].account = a /\ made[i].kind # "deduct" /\ made[i].amount < 0
  BY DEF Reduced
<1>2. i \in 1 .. Len(later) /\ later[i] = made[i]
  BY <1>1
<1>3. QED
  BY <1>1, <1>2 DEF Reduced

\* A new call gets the next number, and the earlier ones keep theirs.
LEMMA StartedStep ==
  ASSUME LedgerIInv, NEW c \in Call, NEW first \in Files, Started(c, first)
  PROVE  /\ calls' \in Seq(Call) /\ Len(calls) \in Nat /\ Len(calls') = Len(calls) + 1
         /\ Len(calls') <= MaxCalls /\ Len(calls) + 1 \in Ids
         /\ \A i \in 1 .. Len(calls) : calls'[i] = calls[i]
         /\ calls'[Len(calls) + 1] = c
         /\ current'.id = Len(calls) + 1 /\ current'.file = first
         /\ current' \in [id : 1 .. Len(calls'), file : Files]
<1>1. calls \in Seq(Call) /\ calls' = Append(calls, c) /\ Len(calls) < MaxCalls
  BY DEF LedgerIInv, TypeOK, Started
<1>2. Len(calls) \in Nat /\ Len(calls') = Len(calls) + 1
      /\ calls' \in Seq(Call) /\ calls'[Len(calls) + 1] = c
      /\ \A i \in 1 .. Len(calls) : calls'[i] = calls[i]
  BY <1>1, LenProperties, AppendProperties
<1>3. Len(calls) + 1 \in Ids /\ Len(calls') <= MaxCalls
  BY <1>1, <1>2, LedgerAssumption DEF Ids
<1>4. current' = [id |-> Len(calls) + 1, file |-> first]
  BY DEF Started
<1>5. Len(calls) + 1 \in 1 .. Len(calls')
  BY <1>2
<1>6. QED
  BY <1>1, <1>2, <1>3, <1>4, <1>5

LEMMA AddOrDeductIInv == ASSUME LedgerIInv, AddOrDeduct PROVE LedgerIInv'
<1>1. PICK c \in Call : /\ c.kind # "grant" /\ Affordable(c) /\ Started(c, "balances")
                        /\ mem' = Applied(mem, Len(calls) + 1, c)
  BY DEF AddOrDeduct
<1> DEFINE n == Len(calls) + 1
<1>2. /\ calls' \in Seq(Call) /\ Len(calls) \in Nat /\ Len(calls') = n
      /\ Len(calls') <= MaxCalls /\ n \in Ids
      /\ \A i \in 1 .. Len(calls) : calls'[i] = calls[i]
      /\ calls'[n] = c
      /\ current'.id = n /\ current'.file = "balances"
      /\ current' \in [id : 1 .. Len(calls'), file : Files]
  BY <1>1, StartedStep DEF Files
<1>3. up /\ UNCHANGED <<up, disk, returned, lost, faults>> /\ mem \in Store /\ disk \in Store
  BY <1>1 DEF Started, LedgerIInv, TypeOK
<1>4. /\ mem' \in Store
      /\ mem'.applied = mem.applied \cup {n}
      /\ mem'.usage = mem.usage /\ mem'.grants = mem.grants
  <2>1. mem' = Applied(mem, n, c)
    BY <1>1
  <2> HIDE DEF n
  <2>2. mem \in Store /\ n \in Ids /\ c \in Call
    BY <1>2, <1>3
  <2>3. QED
    BY <2>1, <2>2, AppliedFields
<1>5. \A a \in Accounts : mem'.balance[a] >= 0 \/ Reduced(calls', a)
  <2>1. \A a \in Accounts : mem.balance[a] >= 0 \/ Reduced(calls', a)
    <3>1. \A a \in Accounts : mem.balance[a] >= 0 \/ Reduced(calls, a)
      BY DEF LedgerIInv, NonNegative, Stores
    <3>2. QED
      BY <1>2, <3>1, ReducedStays
  <2>2. c.kind = "deduct" => mem.balance[c.account] >= c.amount
    BY <1>1 DEF Affordable
  <2>3. n \in 1 .. Len(calls') /\ mem' = Applied(mem, n, c)
    BY <1>1, <1>2
  <2> HIDE DEF n
  <2>4. QED
    BY <1>2, <1>3, <2>1, <2>2, <2>3, AppliedNonNegative
<1> HIDE DEF n
<1>6. TypeOK'
  <2>1. returned \subseteq 1 .. Len(calls')
    BY <1>2 DEF LedgerIInv, TypeOK, n
  <2>2. QED
    BY <1>2, <1>3, <1>4, <2>1 DEF LedgerIInv, TypeOK
<1>7. Known'
  BY <1>2, <1>3, <1>4 DEF LedgerIInv, Known, Stores, n
<1>8. Progress' /\ Ahead'
  BY <1>2, <1>3, <1>4 DEF LedgerIInv, Progress, Ahead
<1>9. n \notin 1 .. Len(calls) /\ mem.applied \subseteq 1 .. Len(calls) /\ disk.applied \subseteq 1 .. Len(calls)
      /\ returned \subseteq 1 .. Len(calls)
  BY <1>2 DEF LedgerIInv, TypeOK, Known, Stores, n
<1>10. GrantsFirst' /\ GrantsKnown'
  BY <1>1, <1>2, <1>3, <1>4, <1>9 DEF LedgerIInv, GrantsFirst, GrantsKnown, Stores
<1>11. NonNegative' /\ UsageIsApplied'
  <2>1. \A a \in Accounts : disk.balance[a] >= 0 \/ Reduced(calls', a)
    BY <1>2, ReducedStays DEF LedgerIInv, NonNegative, Stores, n
  <2>2. QED
    BY <1>3, <1>4, <1>5, <2>1 DEF LedgerIInv, NonNegative, UsageIsApplied, Stores
<1>12. ReturnedIsRecorded'
  BY <1>2, <1>3, <1>4, <1>9 DEF LedgerIInv, ReturnedIsRecorded, Records
<1>13. QED
  BY <1>6, <1>7, <1>8, <1>10, <1>11, <1>12 DEF LedgerIInv

LEMMA CreateGrantIInv == ASSUME LedgerIInv, CreateGrant PROVE LedgerIInv'
<1>1. PICK c \in Call : /\ c.kind = "grant" /\ Started(c, "grants")
                        /\ mem' = [mem EXCEPT !.grants = @ \cup {Len(calls) + 1}]
  BY DEF CreateGrant
<1> DEFINE n == Len(calls) + 1
<1>2. /\ calls' \in Seq(Call) /\ Len(calls) \in Nat /\ Len(calls') = n
      /\ Len(calls') <= MaxCalls /\ n \in Ids
      /\ \A i \in 1 .. Len(calls) : calls'[i] = calls[i]
      /\ calls'[n] = c
      /\ current'.id = n /\ current'.file = "grants"
      /\ current' \in [id : 1 .. Len(calls'), file : Files]
  BY <1>1, StartedStep DEF Files
<1>3. up /\ UNCHANGED <<up, disk, returned, lost, faults>> /\ mem \in Store /\ disk \in Store
  BY <1>1 DEF Started, LedgerIInv, TypeOK
<1> HIDE DEF n
<1>4. /\ mem' \in Store
      /\ mem'.grants = mem.grants \cup {n} /\ mem'.balance = mem.balance
      /\ mem'.usage = mem.usage /\ mem'.applied = mem.applied
  BY <1>1, <1>2, <1>3 DEF Store, n
<1>6. TypeOK'
  <2>1. returned \subseteq 1 .. Len(calls')
    BY <1>2 DEF LedgerIInv, TypeOK, n
  <2>2. QED
    BY <1>2, <1>3, <1>4, <2>1 DEF LedgerIInv, TypeOK
<1>7. Known'
  BY <1>2, <1>3, <1>4 DEF LedgerIInv, Known, Stores, n
<1>8. Progress' /\ Ahead'
  BY <1>1, <1>2, <1>3, <1>4 DEF LedgerIInv, Progress, Ahead
<1>9. mem.applied \subseteq 1 .. Len(calls) /\ disk.applied \subseteq 1 .. Len(calls)
      /\ returned \subseteq 1 .. Len(calls)
  BY <1>2 DEF LedgerIInv, TypeOK, Known, Stores
<1>10. GrantsFirst' /\ GrantsKnown'
  BY <1>2, <1>3, <1>4, <1>9 DEF LedgerIInv, GrantsFirst, GrantsKnown, Stores
<1>11. NonNegative' /\ UsageIsApplied'
  <2>1. \A s \in Stores, a \in Accounts : s.balance[a] >= 0 \/ Reduced(calls', a)
    BY <1>2, ReducedStays DEF LedgerIInv, NonNegative, n
  <2>2. QED
    BY <1>3, <1>4, <2>1 DEF LedgerIInv, NonNegative, UsageIsApplied, Stores
<1>12. ReturnedIsRecorded'
  BY <1>2, <1>3, <1>4, <1>9 DEF LedgerIInv, ReturnedIsRecorded, Records
<1>13. QED
  BY <1>6, <1>7, <1>8, <1>10, <1>11, <1>12 DEF LedgerIInv

\* The call in progress is one of those made.
LEMMA CurrentCall ==
  ASSUME LedgerIInv, current # NoCall
  PROVE  /\ current \in [id : 1 .. Len(calls), file : Files]
         /\ current.id \in 1 .. Len(calls) /\ current.id \in Ids /\ current.file \in Files
         /\ calls[current.id] \in Call
<1>1. current \in [id : 1 .. Len(calls), file : Files] /\ calls \in Seq(Call) /\ Len(calls) <= MaxCalls
  BY DEF LedgerIInv, TypeOK
<1>2. Len(calls) \in Nat
  BY <1>1, LenProperties
<1>3. current.id \in 1 .. Len(calls) /\ current.file \in Files
  BY <1>1
<1>4. current.id \in Ids
  BY <1>1, <1>2, <1>3, LedgerAssumption DEF Ids
<1>5. calls[current.id] \in Call
  BY <1>1, <1>3, ElementOfSeq
<1>6. QED
  BY <1>1, <1>3, <1>4, <1>5

LEMMA WriteGrantsIInv == ASSUME LedgerIInv, WriteGrants PROVE LedgerIInv'
<1> DEFINE id == current.id
           c == calls[current.id]
<1>1. /\ up /\ current # NoCall /\ current.file = "grants"
      /\ disk' = [disk EXCEPT !.grants = mem.grants]
      /\ mem' = Applied(mem, id, c)
      /\ current' = [current EXCEPT !.file = "balances"]
      /\ UNCHANGED <<up, calls, returned, lost, faults>>
  BY DEF WriteGrants, Writing
<1>2. /\ current \in [id : 1 .. Len(calls), file : Files]
      /\ id \in 1 .. Len(calls) /\ id \in Ids /\ c \in Call
  BY <1>1, CurrentCall
<1>3. mem \in Store /\ disk \in Store /\ c.kind = "grant" /\ id \in mem.grants
  BY <1>1 DEF LedgerIInv, TypeOK, Progress
<1> HIDE DEF id, c
<1>4. /\ mem' \in Store /\ mem'.applied = mem.applied \cup {id}
      /\ mem'.usage = mem.usage /\ mem'.grants = mem.grants
  BY <1>1, <1>2, <1>3, AppliedFields
<1>5. /\ disk' \in Store /\ disk'.grants = mem.grants /\ disk'.balance = disk.balance
      /\ disk'.usage = disk.usage /\ disk'.applied = disk.applied
  BY <1>1, <1>3 DEF Store
<1>6. \A a \in Accounts : mem'.balance[a] >= 0 \/ Reduced(calls, a)
  <2>1. \A a \in Accounts : mem.balance[a] >= 0 \/ Reduced(calls, a)
    BY DEF LedgerIInv, NonNegative, Stores
  <2>2. calls[id] = c
    BY DEF id, c
  <2>3. QED
    BY <1>1, <1>2, <1>3, <2>1, <2>2, AppliedNonNegative
<1>7. current' \in [id : 1 .. Len(calls), file : Files] /\ current'.id = id /\ current'.file = "balances"
  BY <1>1, <1>2 DEF Files, id
<1>8. TypeOK'
  BY <1>1, <1>4, <1>5, <1>7 DEF LedgerIInv, TypeOK
<1>9. Known' /\ Progress' /\ Ahead'
  BY <1>1, <1>2, <1>4, <1>5, <1>7 DEF LedgerIInv, Known, Progress, Ahead, Stores
<1>10. GrantsFirst' /\ GrantsKnown'
  BY <1>1, <1>3, <1>4, <1>5 DEF LedgerIInv, GrantsFirst, GrantsKnown, Ahead, Stores
<1>11. NonNegative' /\ UsageIsApplied'
  BY <1>1, <1>4, <1>5, <1>6 DEF LedgerIInv, NonNegative, UsageIsApplied, Stores
<1>12. ReturnedIsRecorded'
  BY <1>1, <1>4, <1>5 DEF LedgerIInv, ReturnedIsRecorded, Records, Ahead
<1>13. QED
  BY <1>8, <1>9, <1>10, <1>11, <1>12 DEF LedgerIInv

LEMMA WriteBalancesIInv == ASSUME LedgerIInv, WriteBalances PROVE LedgerIInv'
<1> DEFINE id == current.id
<1>1. /\ up /\ current # NoCall /\ current.file = "balances"
      /\ disk' = [disk EXCEPT !.balance = mem.balance, !.applied = mem.applied]
      /\ mem' = [mem EXCEPT !.usage = mem.usage \cup {id}]
      /\ current' = [current EXCEPT !.file = "usage"]
      /\ UNCHANGED <<up, calls, returned, lost, faults>>
  BY DEF WriteBalances, Writing
<1>2. /\ current \in [id : 1 .. Len(calls), file : Files]
      /\ id \in 1 .. Len(calls) /\ id \in Ids
  BY <1>1, CurrentCall
<1>3. mem \in Store /\ disk \in Store /\ id \in mem.applied
  BY <1>1 DEF LedgerIInv, TypeOK, Progress
<1> HIDE DEF id
<1>4. /\ mem' \in Store /\ mem'.applied = mem.applied /\ mem'.balance = mem.balance
      /\ mem'.usage = mem.usage \cup {id} /\ mem'.grants = mem.grants
  BY <1>1, <1>2, <1>3 DEF Store
<1>5. /\ disk' \in Store /\ disk'.grants = disk.grants /\ disk'.balance = mem.balance
      /\ disk'.usage = disk.usage /\ disk'.applied = mem.applied
  BY <1>1, <1>3 DEF Store
<1>6. current' \in [id : 1 .. Len(calls), file : Files] /\ current'.id = id /\ current'.file = "usage"
  BY <1>1, <1>2 DEF Files, id
<1>7. TypeOK'
  BY <1>1, <1>4, <1>5, <1>6 DEF LedgerIInv, TypeOK
<1>8. Known' /\ Progress' /\ Ahead'
  BY <1>1, <1>2, <1>3, <1>4, <1>5, <1>6 DEF LedgerIInv, Known, Progress, Ahead, Stores
<1>9. GrantsFirst' /\ GrantsKnown'
  BY <1>1, <1>4, <1>5 DEF LedgerIInv, GrantsFirst, GrantsKnown, Stores
<1>10. NonNegative' /\ UsageIsApplied'
  BY <1>1, <1>3, <1>4, <1>5 DEF LedgerIInv, NonNegative, UsageIsApplied, Ahead, Stores
<1>11. ReturnedIsRecorded'
  BY <1>1, <1>4, <1>5 DEF LedgerIInv, ReturnedIsRecorded, Records
<1>12. QED
  BY <1>7, <1>8, <1>9, <1>10, <1>11 DEF LedgerIInv

LEMMA WriteUsageIInv == ASSUME LedgerIInv, WriteUsage PROVE LedgerIInv'
<1> DEFINE id == current.id
<1>1. /\ up /\ current # NoCall /\ current.file = "usage"
      /\ disk' = [disk EXCEPT !.usage = mem.usage]
      /\ current' = NoCall /\ returned' = returned \cup {id}
      /\ UNCHANGED <<up, mem, calls, lost, faults>>
  BY DEF WriteUsage, Writing
<1>2. id \in 1 .. Len(calls)
  BY <1>1, CurrentCall
<1>3. mem \in Store /\ disk \in Store /\ id \in mem.applied /\ id \in mem.usage /\ disk.applied = mem.applied
  BY <1>1 DEF LedgerIInv, TypeOK, Progress
<1> HIDE DEF id
<1>5. /\ disk' \in Store /\ disk'.grants = disk.grants /\ disk'.balance = disk.balance
      /\ disk'.usage = mem.usage /\ disk'.applied = disk.applied
  BY <1>1, <1>3 DEF Store
<1>7. TypeOK'
  BY <1>1, <1>2, <1>3, <1>5 DEF LedgerIInv, TypeOK
<1>8. Known' /\ Progress' /\ Ahead'
  BY <1>1, <1>5 DEF LedgerIInv, Known, Progress, Ahead, Stores
<1>9. GrantsFirst' /\ GrantsKnown'
  BY <1>1, <1>5 DEF LedgerIInv, GrantsFirst, GrantsKnown, Stores
<1>10. NonNegative' /\ UsageIsApplied'
  BY <1>1, <1>3, <1>5 DEF LedgerIInv, NonNegative, UsageIsApplied, Stores
<1>11. ReturnedIsRecorded'
  BY <1>1, <1>3, <1>5 DEF LedgerIInv, ReturnedIsRecorded, Records, GrantsFirst, Ahead, GrantsKnown, Stores
<1>12. QED
  BY <1>7, <1>8, <1>9, <1>10, <1>11 DEF LedgerIInv

LEMMA FaultIInv == ASSUME LedgerIInv, WriteFails \/ Crash PROVE LedgerIInv'
<1>1. /\ UNCHANGED <<mem, disk, calls, returned, lost>> /\ current' = NoCall
      /\ up /\ faults < MaxFaults /\ faults' = faults + 1 /\ (up' = up \/ up' = FALSE)
  BY DEF WriteFails, Crash, Fault
<1>2. TypeOK'
  <2>1. faults' \in 0 .. MaxFaults
    BY <1>1, LedgerAssumption DEF LedgerIInv, TypeOK
  <2>2. up' \in BOOLEAN
    BY <1>1 DEF LedgerIInv, TypeOK
  <2>3. QED
    BY <1>1, <2>1, <2>2 DEF LedgerIInv, TypeOK
<1>3. QED
  BY <1>1, <1>2 DEF LedgerIInv, Known, Progress, Ahead, GrantsFirst, NonNegative, UsageIsApplied,
                    GrantsKnown, ReturnedIsRecorded, Records, Stores

LEMMA RestartIInv == ASSUME LedgerIInv, Restart PROVE LedgerIInv'
<1>1. PICK bad \in SUBSET Files :
        /\ lost' = lost \cup bad
        /\ mem' = [balance |-> IF "balances" \in bad THEN Empty.balance ELSE disk.balance,
                   applied |-> IF "balances" \in bad THEN {} ELSE disk.applied,
                   usage   |-> IF "usage" \in bad THEN {} ELSE disk.usage,
                   grants  |-> IF "grants" \in bad THEN {} ELSE disk.grants]
  BY DEF Restart
<1>2. up' = TRUE /\ ~up /\ UNCHANGED <<disk, calls, current, returned, faults>>
  BY DEF Restart
<1>3. disk \in Store /\ current = NoCall /\ Empty.balance = [a \in Accounts |-> 0]
  BY <1>2 DEF LedgerIInv, TypeOK, Empty
<1>4. /\ mem' \in Store
      /\ mem'.applied \subseteq disk.applied /\ ("balances" \notin lost' => mem'.applied = disk.applied)
      /\ mem'.usage \subseteq disk.usage /\ ("usage" \notin lost' => mem'.usage = disk.usage)
      /\ mem'.grants \subseteq disk.grants /\ ("grants" \notin lost' => mem'.grants = disk.grants)
      /\ \A a \in Accounts : mem'.balance[a] = disk.balance[a] \/ mem'.balance[a] = 0
  BY <1>1, <1>3 DEF Store
<1>5. TypeOK'
  BY <1>1, <1>2, <1>3, <1>4 DEF LedgerIInv, TypeOK
<1>6. Known' /\ Progress' /\ Ahead'
  BY <1>2, <1>3, <1>4 DEF LedgerIInv, Known, Progress, Ahead, Stores
<1>7. GrantsFirst' /\ GrantsKnown'
  BY <1>1, <1>2, <1>4 DEF LedgerIInv, GrantsFirst, GrantsKnown, Stores
<1>8. NonNegative' /\ UsageIsApplied'
  BY <1>1, <1>2, <1>4 DEF LedgerIInv, NonNegative, UsageIsApplied, Stores
<1>9. ReturnedIsRecorded'
  BY <1>1, <1>2, <1>4 DEF LedgerIInv, ReturnedIsRecorded, Records
<1>10. QED
  BY <1>5, <1>6, <1>7, <1>8, <1>9 DEF LedgerIInv

LEMMA NextIInv == LedgerIInv /\ [Next]_vars => LedgerIInv'
<1> SUFFICES ASSUME LedgerIInv, [Next]_vars PROVE LedgerIInv'
  OBVIOUS
<1>1. CASE UNCHANGED vars
  BY <1>1 DEF vars, LedgerIInv, TypeOK, Known, Progress, Ahead, GrantsFirst, NonNegative,
              UsageIsApplied, GrantsKnown, ReturnedIsRecorded, Records, Stores
<1>2. QED
  BY <1>1, AddOrDeductIInv, CreateGrantIInv, WriteGrantsIInv, WriteBalancesIInv, WriteUsageIInv,
     FaultIInv, RestartIInv DEF Next

LEMMA Invariance == Spec => []LedgerIInv
  BY LedgerStarts, NextIInv, PTL DEF Spec

\* Memory, files, calls and ghosts keep their types.
THEOREM LedgerTypeCorrect == Spec => []TypeOK
<1>1. LedgerIInv => TypeOK
  BY DEF LedgerIInv
<1>2. QED
  BY <1>1, Invariance, PTL

\* Whatever is added, granted and deducted, and whatever fails, dies or is loaded again: a
\* balance is negative only if something negative was added or granted to its account.
THEOREM NoOverdraft == Spec => []NonNegative
<1>1. LedgerIInv => NonNegative
  BY DEF LedgerIInv
<1>2. QED
  BY <1>1, Invariance, PTL

\* No usage record without its amount in the balances, in memory and in the files.
THEOREM UsageFollowsBalance == Spec => []UsageIsApplied
<1>1. LedgerIInv => UsageIsApplied
  BY DEF LedgerIInv
<1>2. QED
  BY <1>1, Invariance, PTL

\* No credited grant is missing from the list of grants.
THEOREM GrantPrecedesCredit == Spec => []GrantsKnown
<1>1. LedgerIInv => GrantsKnown
  BY DEF LedgerIInv
<1>2. QED
  BY <1>1, Invariance, PTL

\* A call that returned is in every file that was never unreadable.
THEOREM ReturnedSurvives == Spec => []ReturnedIsRecorded
<1>1. LedgerIInv => ReturnedIsRecorded
  BY DEF LedgerIInv
<1>2. QED
  BY <1>1, Invariance, PTL

-----------------------------------------------------------------------------
(* The audit trail of CreditLedger                                         *)

\* A grant that is not in its file yet has not been credited.
GrantPending == current # NoCall /\ current.file = "grants" => current.id \notin mem.applied

\* The calls that were applied, each once, add up to each balance.
BalanceApplied ==
  \A s \in Stores, a \in Accounts :
    s.balance[a] = Total(Contribution(calls, s.applied, a), MaxCalls)

\* As long as nothing failed, every call returned or is in progress.
NothingCutOff ==
  faults = 0 => up /\ \A i \in 1 .. Len(calls) : i \in returned \/ (current # NoCall /\ current.id = i)

AuditInv == LedgerIInv /\ GrantPending /\ BalanceApplied /\ NothingCutOff

\* Contributions are integers.
LEMMA ContributionType ==
  ASSUME NEW made \in Seq(Call), NEW ids, ids \subseteq 1 .. Len(made), NEW a \in Accounts
  PROVE  Contribution(made, ids, a) \in [1 .. MaxCalls -> Int]
<1>1. ASSUME NEW n \in Ids
      PROVE  (IF n \in ids /\ made[n].account = a THEN Delta(made[n]) ELSE 0) \in Int
  <2>1. CASE n \in ids
    <3>1. made[n] \in Call
      BY <2>1, ElementOfSeq
    <3> QED
      BY <3>1, DeltaType
  <2> QED
    BY <2>1
<1> QED
  BY <1>1 DEF Contribution, Ids

\* What calls made later add to an account is not in it yet.
LEMMA ContributionKept ==
  ASSUME NEW made \in Seq(Call), NEW later \in Seq(Call), NEW ids, ids \subseteq 1 .. Len(made),
         \A i \in 1 .. Len(made) : later[i] = made[i], NEW a
  PROVE  Contribution(later, ids, a) = Contribution(made, ids, a)
BY DEF Contribution

\* Applying a call that is not among the applied ones explains its account as before.
LEMMA AppliedExplained ==
  ASSUME NEW s \in Store, NEW made \in Seq(Call), s.applied \subseteq 1 .. Len(made),
         NEW id \in 1 .. Len(made), id \in Ids, id \notin s.applied,
         NEW new, new = Applied(s, id, made[id]),
         \A a \in Accounts : s.balance[a] = Total(Contribution(made, s.applied, a), MaxCalls)
  PROVE  \A a \in Accounts : new.balance[a] = Total(Contribution(made, new.applied, a), MaxCalls)
<1> DEFINE c == made[id]
<1>1. c \in Call /\ new = Applied(s, id, c)
  BY ElementOfSeq
<1>2. /\ new.balance = [s.balance EXCEPT ![c.account] = s.balance[c.account] + Delta(c)]
      /\ new.applied = s.applied \cup {id}
  <2> HIDE DEF c
  <2>1. new.balance = [s.balance EXCEPT ![c.account] = s.balance[c.account] + Delta(c)]
    BY <1>1, AppliedBalance
  <2>2. new.applied = s.applied \cup {id}
    BY <1>1, AppliedFields
  <2> QED
    BY <2>1, <2>2
<1>3. Delta(c) \in Int /\ c.account \in Accounts /\ s.balance \in [Accounts -> Int]
  BY <1>1, DeltaType DEF Store
<1>4. ASSUME NEW a \in Accounts
      PROVE  new.balance[a] = Total(Contribution(made, new.applied, a), MaxCalls)
  <2> DEFINE f == Contribution(made, s.applied, a)
             h == Contribution(made, new.applied, a)
  <2>1. new.applied \subseteq 1 .. Len(made)
    BY <1>2
  <2>2. f \in [1 .. MaxCalls -> Int] /\ h \in [1 .. MaxCalls -> Int]
    BY <2>1, ContributionType
  <2>3. f[id] = 0 /\ h[id] = IF c.account = a THEN Delta(c) ELSE 0
    BY <1>2 DEF Contribution
  <2>4. \A n \in 1 .. MaxCalls : n # id => h[n] = f[n]
    BY <1>2 DEF Contribution, Ids
  <2>5. id \in 1 .. MaxCalls /\ MaxCalls \in Nat
    BY LedgerAssumption DEF Ids
  <2> HIDE DEF f, h, c
  <2>6. Total(h, MaxCalls) = Total(f, MaxCalls) + h[id] - f[id]
    BY <2>2, <2>4, <2>5, TotalChange
  <2>7. s.balance[a] = Total(f, MaxCalls) /\ s.balance[a] \in Int
    BY <1>3 DEF f
  <2>8. Total(h, MaxCalls) = s.balance[a] + h[id]
    BY <1>3, <2>3, <2>6, <2>7
  <2>9. new.balance[a] = s.balance[a] + (IF c.account = a THEN Delta(c) ELSE 0)
    BY <1>2, <1>3, <2>7
  <2> QED
    BY <2>3, <2>8, <2>9 DEF h
<1> QED
  BY <1>4

LEMMA AuditStarts == Init => AuditInv
<1> SUFFICES ASSUME Init PROVE AuditInv
  OBVIOUS
<1>1. LedgerIInv /\ calls \in Seq(Call)
  BY LedgerStarts DEF LedgerIInv, TypeOK
<1>2. ASSUME NEW s \in Stores, NEW a \in Accounts
      PROVE  s.balance[a] = Total(Contribution(calls, s.applied, a), MaxCalls)
  <2>1. s.balance[a] = 0 /\ s.applied = {}
    BY DEF Init, Stores, Empty
  <2> DEFINE f == Contribution(calls, {}, a)
  <2>2. f \in [1 .. MaxCalls -> Int]
    BY <1>1, ContributionType
  <2>3. \A n \in 1 .. MaxCalls : f[n] = 0
    BY DEF Contribution, Ids
  <2> HIDE DEF f
  <2>4. Total(f, MaxCalls) = 0
    BY <2>2, <2>3, TotalZero, LedgerAssumption
  <2> QED
    BY <2>1, <2>4 DEF f
<1>3. GrantPending /\ NothingCutOff
  BY DEF Init, GrantPending, NothingCutOff
<1> QED
  BY <1>1, <1>2, <1>3 DEF AuditInv, BalanceApplied

\* A step that leaves balances, applied calls and calls as they are.
LEMMA SameBalances ==
  ASSUME AuditInv, UNCHANGED calls,
         \A s \in {mem', disk'} : \E r \in Stores : s.balance = r.balance /\ s.applied = r.applied
  PROVE  BalanceApplied'
<1>1. ASSUME NEW s \in {mem', disk'}, NEW a \in Accounts
      PROVE  s.balance[a] = Total(Contribution(calls, s.applied, a), MaxCalls)
  BY DEF AuditInv, BalanceApplied
<1> QED
  BY <1>1 DEF BalanceApplied, Stores

LEMMA AddOrDeductAudits == ASSUME AuditInv, AddOrDeduct PROVE GrantPending' /\ BalanceApplied'
<1>1. PICK c \in Call : /\ c.kind # "grant" /\ Affordable(c) /\ Started(c, "balances")
                        /\ mem' = Applied(mem, Len(calls) + 1, c)
  BY DEF AddOrDeduct
<1>2. /\ LedgerIInv /\ calls \in Seq(Call) /\ mem \in Store /\ disk \in Store
      /\ mem.applied \subseteq 1 .. Len(calls) /\ disk.applied \subseteq 1 .. Len(calls)
  BY DEF AuditInv, LedgerIInv, TypeOK, Known, Stores
<1>3. /\ calls' \in Seq(Call) /\ Len(calls) \in Nat /\ Len(calls') = Len(calls) + 1
      /\ Len(calls) + 1 \in Ids
      /\ \A i \in 1 .. Len(calls) : calls'[i] = calls[i]
      /\ calls'[Len(calls) + 1] = c /\ current'.file = "balances"
  BY <1>1, <1>2, StartedStep DEF Files
<1>4. disk' = disk
  BY <1>1 DEF Started
<1> DEFINE id == Len(calls) + 1
<1>5. id \in 1 .. Len(calls') /\ id \in Ids /\ id \notin mem.applied
      /\ mem.applied \subseteq 1 .. Len(calls') /\ disk.applied \subseteq 1 .. Len(calls')
      /\ mem' = Applied(mem, id, calls'[id])
  BY <1>1, <1>2, <1>3
<1> HIDE DEF id
<1>6. \A a \in Accounts :
        /\ mem.balance[a] = Total(Contribution(calls', mem.applied, a), MaxCalls)
        /\ disk.balance[a] = Total(Contribution(calls', disk.applied, a), MaxCalls)
  <2>1. TAKE a \in Accounts
  <2>2. /\ Contribution(calls', mem.applied, a) = Contribution(calls, mem.applied, a)
        /\ Contribution(calls', disk.applied, a) = Contribution(calls, disk.applied, a)
    BY <1>2, <1>3, ContributionKept
  <2> QED
    BY <2>2 DEF AuditInv, BalanceApplied, Stores
<1>7. \A a \in Accounts : mem'.balance[a] = Total(Contribution(calls', mem'.applied, a), MaxCalls)
  BY <1>2, <1>3, <1>5, <1>6, AppliedExplained, SMTT(30)
<1>8. BalanceApplied'
  BY <1>4, <1>6, <1>7 DEF BalanceApplied, Stores
<1> QED
  BY <1>3, <1>8 DEF GrantPending

LEMMA CreateGrantAudits == ASSUME AuditInv, CreateGrant PROVE GrantPending' /\ BalanceApplied'
<1>1. PICK c \in Call : /\ c.kind = "grant" /\ Started(c, "grants")
                        /\ mem' = [mem EXCEPT !.grants = @ \cup {Len(calls) + 1}]
  BY DEF CreateGrant
<1>2. /\ LedgerIInv /\ calls \in Seq(Call) /\ mem \in Store /\ disk \in Store
      /\ mem.applied \subseteq 1 .. Len(calls) /\ disk.applied \subseteq 1 .. Len(calls)
  BY DEF AuditInv, LedgerIInv, TypeOK, Known, Stores
<1>3. /\ calls' \in Seq(Call) /\ Len(calls) \in Nat
      /\ \A i \in 1 .. Len(calls) : calls'[i] = calls[i]
      /\ current'.id = Len(calls) + 1
  BY <1>1, <1>2, StartedStep DEF Files
<1>4. disk' = disk /\ mem'.applied = mem.applied /\ mem'.balance = mem.balance
  BY <1>1, <1>2 DEF Started, Store
<1>5. \A a \in Accounts :
        /\ mem.balance[a] = Total(Contribution(calls', mem.applied, a), MaxCalls)
        /\ disk.balance[a] = Total(Contribution(calls', disk.applied, a), MaxCalls)
  <2>1. TAKE a \in Accounts
  <2>2. /\ Contribution(calls', mem.applied, a) = Contribution(calls, mem.applied, a)
        /\ Contribution(calls', disk.applied, a) = Contribution(calls, disk.applied, a)
    BY <1>2, <1>3, ContributionKept
  <2> QED
    BY <2>2 DEF AuditInv, BalanceApplied, Stores
<1>6. BalanceApplied'
  BY <1>4, <1>5 DEF BalanceApplied, Stores
<1>7. Len(calls) + 1 \notin mem.applied
  BY <1>2, <1>3
<1> QED
  BY <1>3, <1>4, <1>6, <1>7 DEF GrantPending

\* The amount of a grant is added once, after its file was written.
LEMMA WriteGrantsAudits == ASSUME AuditInv, WriteGrants PROVE GrantPending' /\ BalanceApplied'
<1> DEFINE id == current.id
<1>1. /\ current # NoCall /\ current.file = "grants"
      /\ disk' = [disk EXCEPT !.grants = mem.grants]
      /\ mem' = Applied(mem, id, calls[id])
      /\ current' = [current EXCEPT !.file = "balances"] /\ UNCHANGED calls
  BY DEF WriteGrants, Writing
<1>2. /\ LedgerIInv /\ calls \in Seq(Call) /\ mem \in Store /\ disk \in Store
      /\ mem.applied \subseteq 1 .. Len(calls) /\ id \notin mem.applied
      /\ \A a \in Accounts : mem.balance[a] = Total(Contribution(calls, mem.applied, a), MaxCalls)
      /\ \A a \in Accounts : disk.balance[a] = Total(Contribution(calls, disk.applied, a), MaxCalls)
  BY <1>1 DEF AuditInv, LedgerIInv, TypeOK, Known, Stores, GrantPending, BalanceApplied
<1>3. id \in 1 .. Len(calls) /\ id \in Ids /\ current \in [id : 1 .. Len(calls), file : Files]
  BY <1>1, <1>2, CurrentCall
<1>4. disk'.balance = disk.balance /\ disk'.applied = disk.applied
  BY <1>1, <1>2 DEF Store
<1> HIDE DEF id
<1>5. \A a \in Accounts : mem'.balance[a] = Total(Contribution(calls, mem'.applied, a), MaxCalls)
  <2>1. mem' = Applied(mem, id, calls[id])
    BY <1>1
  <2>2. /\ calls \in Seq(Call) /\ mem \in Store /\ mem.applied \subseteq 1 .. Len(calls)
        /\ id \in 1 .. Len(calls) /\ id \in Ids /\ id \notin mem.applied
    BY <1>2, <1>3
  <2>3. \A a \in Accounts : mem.balance[a] = Total(Contribution(calls, mem.applied, a), MaxCalls)
    BY <1>2
  <2> QED
    BY <2>1, <2>2, <2>3, AppliedExplained
<1>6. BalanceApplied'
  BY <1>1, <1>2, <1>4, <1>5, ZenonT(40) DEF BalanceApplied, Stores
<1>7. current'.file = "balances"
  BY <1>1, <1>3
<1> QED
  BY <1>6, <1>7 DEF GrantPending

LEMMA WritesAudit ==
  ASSUME AuditInv, WriteBalances \/ WriteUsage \/ WriteFails \/ Crash
  PROVE  GrantPending' /\ BalanceApplied'
<1>1. mem \in Store /\ disk \in Store
  BY DEF AuditInv, LedgerIInv, TypeOK
<1>2. CASE WriteBalances
  <2>1. /\ current # NoCall /\ UNCHANGED calls
        /\ disk' = [disk EXCEPT !.balance = mem.balance, !.applied = mem.applied]
        /\ mem' = [mem EXCEPT !.usage = @ \cup {current.id}]
        /\ current' = [current EXCEPT !.file = "usage"]
    BY <1>2 DEF WriteBalances, Writing
  <2>2. /\ disk'.balance = mem.balance /\ disk'.applied = mem.applied
        /\ mem'.balance = mem.balance /\ mem'.applied = mem.applied
    BY <1>1, <2>1 DEF Store
  <2>3. current'.file = "usage"
    BY <2>1, CurrentCall DEF AuditInv
  <2> QED
    BY <2>1, <2>2, <2>3, SameBalances DEF Stores, GrantPending
<1>3. CASE WriteUsage
  <2>1. UNCHANGED <<mem, calls>> /\ current' = NoCall /\ disk' = [disk EXCEPT !.usage = mem.usage]
    BY <1>3 DEF WriteUsage
  <2>2. disk'.balance = disk.balance /\ disk'.applied = disk.applied
    BY <1>1, <2>1 DEF Store
  <2> QED
    BY <2>1, <2>2, SameBalances DEF Stores, GrantPending
<1>4. CASE WriteFails \/ Crash
  <2>1. UNCHANGED <<mem, disk, calls>> /\ current' = NoCall
    BY <1>4 DEF WriteFails, Crash, Fault
  <2> QED
    BY <2>1, SameBalances DEF Stores, GrantPending
<1> QED
  BY <1>2, <1>3, <1>4

\* What is loaded is a balances file, or none.
LEMMA RestartAudits == ASSUME AuditInv, Restart PROVE GrantPending' /\ BalanceApplied'
<1>1. PICK bad \in SUBSET Files :
        mem' = [balance |-> IF "balances" \in bad THEN Empty.balance ELSE disk.balance,
                applied |-> IF "balances" \in bad THEN {} ELSE disk.applied,
                usage   |-> IF "usage" \in bad THEN {} ELSE disk.usage,
                grants  |-> IF "grants" \in bad THEN {} ELSE disk.grants]
  BY DEF Restart
<1>2. ~up /\ UNCHANGED <<disk, calls, current>>
  BY DEF Restart
<1>3. current' = NoCall /\ calls \in Seq(Call)
  BY <1>2 DEF AuditInv, LedgerIInv, TypeOK
<1>4. CASE "balances" \notin bad
  <2>1. mem'.balance = disk.balance /\ mem'.applied = disk.applied
    BY <1>1, <1>4
  <2> QED
    BY <1>2, <1>3, <2>1, SameBalances DEF Stores, GrantPending
<1>5. CASE "balances" \in bad
  <2>1. mem'.balance = [a \in Accounts |-> 0] /\ mem'.applied = {}
    BY <1>1, <1>5 DEF Empty
  <2>2. ASSUME NEW a \in Accounts PROVE mem'.balance[a] = Total(Contribution(calls, mem'.applied, a), MaxCalls)
    <3> DEFINE f == Contribution(calls, {}, a)
    <3>1. f \in [1 .. MaxCalls -> Int]
      BY <1>3, ContributionType
    <3>2. \A n \in 1 .. MaxCalls : f[n] = 0
      BY DEF Contribution, Ids
    <3> HIDE DEF f
    <3>3. Total(f, MaxCalls) = 0
      BY <3>1, <3>2, TotalZero, LedgerAssumption
    <3> QED
      BY <2>1, <3>3 DEF f
  <2>3. BalanceApplied'
    BY <1>2, <2>2 DEF AuditInv, BalanceApplied, Stores
  <2> QED
    BY <1>3, <2>3 DEF GrantPending
<1> QED
  BY <1>4, <1>5

LEMMA CutOffKeeps == ASSUME AuditInv, [Next]_vars PROVE NothingCutOff'
<1>1. calls \in Seq(Call) /\ faults \in Nat
  BY LedgerAssumption DEF AuditInv, LedgerIInv, TypeOK
<1>2. ASSUME NEW c \in Call, NEW first \in Files, Started(c, first) PROVE NothingCutOff'
  <2>1. /\ up /\ current = NoCall /\ UNCHANGED <<up, returned, faults>>
        /\ calls' = Append(calls, c) /\ current' = [id |-> Len(calls) + 1, file |-> first]
    BY <1>2 DEF Started
  <2>2. Len(calls) \in Nat /\ Len(calls') = Len(calls) + 1
    BY <1>1, <2>1
  <2>3. current' # NoCall /\ current'.id = Len(calls) + 1
    BY <2>1, <2>2 DEF NoCall
  <2>4. QED
    BY <2>1, <2>2, <2>3 DEF AuditInv, NothingCutOff
<1>3. CASE UNCHANGED vars
  BY <1>3 DEF vars, AuditInv, NothingCutOff
<1>4. CASE AddOrDeduct \/ CreateGrant
  BY <1>2, <1>4 DEF AddOrDeduct, CreateGrant, Files
<1>5. CASE WriteGrants \/ WriteBalances
  <2>1. /\ current # NoCall /\ UNCHANGED <<up, calls, returned, faults>>
        /\ \E f \in {"balances", "usage"} : current' = [current EXCEPT !.file = f]
    BY <1>5 DEF WriteGrants, WriteBalances, Writing
  <2>2. current \in [id : 1 .. Len(calls), file : Files]
    BY <2>1, CurrentCall DEF AuditInv
  <2>3. current'.id = current.id /\ current.id # 0
    BY <1>1, <2>1, <2>2
  <2>4. current' # NoCall
    BY <2>3 DEF NoCall
  <2>5. QED
    BY <2>1, <2>3, <2>4 DEF AuditInv, NothingCutOff
<1>6. CASE WriteUsage
  BY <1>6 DEF WriteUsage, Writing, AuditInv, NothingCutOff
<1>7. CASE WriteFails \/ Crash
  <2>1. faults' # 0
    BY <1>1, <1>7 DEF WriteFails, Crash, Fault
  <2>2. QED
    BY <2>1 DEF NothingCutOff
<1>8. CASE Restart
  BY <1>8 DEF Restart, AuditInv, NothingCutOff
<1>9. QED
  BY <1>3, <1>4, <1>5, <1>6, <1>7, <1>8 DEF Next

LEMMA AuditStep == AuditInv /\ [Next]_vars => AuditInv'
<1> SUFFICES ASSUME AuditInv, [Next]_vars PROVE AuditInv'
  OBVIOUS
<1>1. LedgerIInv'
  BY NextIInv DEF AuditInv
<1>2. ASSUME UNCHANGED vars PROVE GrantPending' /\ BalanceApplied'
  <2>1. UNCHANGED <<mem, disk, calls, current>>
    BY <1>2 DEF vars
  <2> QED
    BY <2>1, SameBalances DEF AuditInv, GrantPending, Stores
<1>5. NothingCutOff'
  BY CutOffKeeps
<1>3. GrantPending' /\ BalanceApplied'
  BY <1>2, AddOrDeductAudits, CreateGrantAudits, WriteGrantsAudits, WritesAudit, RestartAudits DEF Next
<1> QED
  BY <1>1, <1>3, <1>5 DEF AuditInv

\* What is applied is what is recorded and, but for the lost files, what was cut off.
LEMMA AppliedIsRecorded ==
  ASSUME AuditInv, lost \cap {"balances", "usage"} = {}, NEW s \in Stores,
         returned \subseteq s.usage
  PROVE  Explained(s)
<1> DEFINE cut == s.applied \ s.usage
<1>1. s.usage \subseteq s.applied /\ s.applied \subseteq 1 .. Len(calls)
  BY DEF AuditInv, LedgerIInv, UsageIsApplied, Known
<1>2. s.usage \cup cut = s.applied
  BY <1>1
<1>3. cut \in SUBSET ((1 .. Len(calls)) \ (returned \cup s.usage))
  BY <1>1
<1>4. faults = 0 /\ current = NoCall => cut = {}
  BY <1>1 DEF AuditInv, NothingCutOff
<1>5. \A a \in Accounts : s.balance[a] = Total(Contribution(calls, s.usage \cup cut, a), MaxCalls)
  BY <1>2, Zenon DEF AuditInv, BalanceApplied
<1> HIDE DEF cut
<1> QED
  BY <1>3, <1>4, <1>5, Zenon DEF Explained

\* For any accounts and amounts, and through failed writes, deaths and reloads: the usage
\* records, with calls that were cut off and never returned, add up to each balance, in
\* memory and in the files, unless the balances or the usage file was found unreadable.
THEOREM BalancesAddUp == Spec => []BalanceExplained
<1>1. AuditInv => BalanceExplained
  <2> SUFFICES ASSUME AuditInv, lost \cap {"balances", "usage"} = {}
               PROVE  Explained(disk) /\ (up => Explained(mem))
    BY DEF BalanceExplained
  <2>1. returned \subseteq disk.usage /\ (up => returned \subseteq mem.usage)
    BY DEF AuditInv, LedgerIInv, ReturnedIsRecorded, Records
  <2>2. mem \in Stores /\ disk \in Stores
    BY DEF Stores
  <2> QED
    BY <2>1, <2>2, AppliedIsRecorded
<1> QED
  BY <1>1, AuditStarts, AuditStep, PTL DEF Spec

-----------------------------------------------------------------------------
(* The parts together                                                      *)

\* A rule fired at a time the clock has shown, within the bound of the clock.
FiredInThePast == tick \in 0 .. MaxTick /\ \A r \in Rules : lastFired[r] <= tick

LEMMA FiredStart == AlertsInit => FiredInThePast
BY AlertAssumption DEF AlertsInit, FiredInThePast, NeverFired, Never

LEMMA FiredStep == AlertInv /\ FiredInThePast /\ [AlertsNext]_alertVars => FiredInThePast'
<1> SUFFICES ASSUME AlertInv, FiredInThePast, [AlertsNext]_alertVars PROVE FiredInThePast'
  OBVIOUS
<1>0. /\ tick \in Nat /\ lastFired \in [Rules -> Int] /\ evaluation \in [Evaluators -> Evaluation]
      /\ rules \subseteq Rules /\ MaxTick \in Nat
  BY AlertAssumption DEF AlertInv, AlertsTyped
<1>1. ASSUME UNCHANGED <<tick, lastFired>> PROVE FiredInThePast'
  BY <1>1 DEF FiredInThePast
<1>2. CASE Tick
  BY <1>0, <1>2 DEF Tick, FiredInThePast
<1>3. ASSUME NEW e \in Evaluators, Fire(e) PROVE FiredInThePast'
  <2>1. PICK q \in evaluation[e].firing :
          lastFired' = [lastFired EXCEPT ![q] = evaluation[e].now] /\ tick' = tick
    BY <1>3 DEF Fire
  <2>2. evaluation[e].busy
    BY <2>1 DEF AlertInv, FiringIsDue
  <2>3. evaluation[e].now <= tick
    BY <2>2 DEF AlertInv, HeardIsKept, Busy
  <2>4. QED
    BY <1>0, <2>1, <2>3 DEF FiredInThePast
<1>4. ASSUME NEW e \in Evaluators,
             BeginEvaluation(e) \/ PassOver(e) \/ Match(e) \/ EndEvaluation(e)
      PROVE  FiredInThePast'
  BY <1>1, <1>4 DEF BeginEvaluation, PassOver, Match, EndEvaluation
<1>5. CASE \E r \in Rules : AddRule(r) \/ RemoveRule(r)
  BY <1>1, <1>5 DEF AddRule, RemoveRule
<1>6. CASE UNCHANGED alertVars
  BY <1>1, <1>6 DEF alertVars
<1>7. QED
  BY <1>2, <1>3, <1>4, <1>5, <1>6 DEF AlertsNext

LEMMA AlertTypes == AlertInv /\ FiredInThePast => AlertTypeOK
<1> SUFFICES ASSUME AlertInv, FiredInThePast PROVE AlertTypeOK
  OBVIOUS
<1>0. /\ tick \in Nat /\ lastFired \in [Rules -> Int] /\ heard \in [Rules -> Int]
      /\ evaluation \in [Evaluators -> Evaluation] /\ rules \subseteq Rules
  BY DEF AlertInv, AlertsTyped
<1>1. \A r \in Rules : -1 <= heard[r] /\ heard[r] <= lastFired[r] /\ heard[r] <= tick /\ lastFired[r] <= tick
  BY DEF AlertInv, HeardIsKept, FiredInThePast, Never
<1>2. \A r \in Rules : heard[r] \in -1 .. tick /\ lastFired[r] \in -1 .. tick
  BY <1>0, <1>1
<1>3. lastFired \in [Rules -> -1 .. tick] /\ heard \in [Rules -> -1 .. tick]
  BY <1>0, <1>2
<1>4. \A e \in Evaluators : evaluation[e] \in Evaluation
  BY <1>0
<1>5. \A e \in Evaluators : evaluation[e].todo \cup evaluation[e].firing \cup evaluation[e].fired \subseteq Rules
  BY <1>4 DEF Evaluation
<1>6. QED
  BY <1>0, <1>3, <1>5 DEF AlertTypeOK, FiredInThePast, Never

\* A thread is in no more calls of load() than there are plugins, for each is of another
\* plugin: the recursion that the code does not bound is bounded by the table.
LEMMA NotDeeper ==
  ASSUME NEW s \in Seq(LoadFrame), \A i, j \in DOMAIN s : s[i].plugin = s[j].plugin => i = j
  PROVE  Len(s) <= Cardinality(Plugins)
<1> DEFINE p == [i \in 1 .. Len(s) |-> s[i].plugin]
<1>1. Len(s) \in Nat /\ DOMAIN s = 1 .. Len(s)
  BY LenProperties
<1>2. \A i \in 1 .. Len(s) : s[i].plugin \in Plugins
  BY <1>1, FrameTyped
<1>3. p \in Seq(Plugins) /\ Len(p) = Len(s)
  BY <1>1, <1>2, IsASeq
<1>4. Once(p)
  BY <1>1, <1>3 DEF Once
<1> HIDE DEF p
<1>5. IsFiniteSet(Members(p)) /\ Cardinality(Members(p)) = Len(p)
  BY <1>3, <1>4, MembersCounted
<1>6. Members(p) \subseteq Plugins
  BY <1>3, MembersTyped
<1>7. Cardinality(Members(p)) <= Cardinality(Plugins)
  BY <1>6, PluginsAssumption, FS_Subset
<1>8. QED
  BY <1>3, <1>5, <1>7

LEMMA PluginTypes == PluginInv => PluginTypeOK
<1> SUFFICES ASSUME PluginInv PROVE PluginTypeOK
  OBVIOUS
<1>1. ASSUME NEW c \in Callers PROVE Len(stack[c]) <= Cardinality(Plugins)
  <2>1. stack[c] \in Seq(LoadFrame)
    BY DEF PluginInv, PluginsTyped
  <2>2. \A i, j \in DOMAIN stack[c] : stack[c][i].plugin = stack[c][j].plugin => i = j
    BY DEF PluginInv, FramesOK
  <2>3. QED
    BY <2>1, <2>2, NotDeeper
<1>2. QED
  BY <1>1 DEF PluginInv, PluginsTyped, PluginTypeOK

LEMMA ServicesParts ==
  [ServicesNext]_servicesVars =>
    /\ [ConfigNext]_configVars /\ [PluginsNext]_pluginVars /\ [AlertsNext]_alertVars
    /\ [Next]_vars /\ [MarketNext]_marketVars /\ [TrustNext]_trustVars
<1>1. CASE ServicesNext
  BY <1>1 DEF ServicesNext
<1>2. CASE UNCHANGED servicesVars
  BY <1>2 DEF servicesVars
<1>3. QED
  BY <1>1, <1>2

\* A behaviour of the services together is one of each of them, so that each theorem about
\* a service holds of the composition that is checked.
THEOREM ServicesCompose ==
  ServicesSpec =>
    /\ ConfigSpec /\ PluginsSpec /\ AlertsSpec
    /\ Spec /\ MarketSpec /\ TrustSpec
<1>1. ServicesInit => ConfigInit /\ PluginsInit /\ AlertsInit /\ Init /\ MarketInit /\ TrustInit
  BY DEF ServicesInit
<1>2. QED
  BY <1>1, ServicesParts, PTL
     DEF ServicesSpec, ConfigSpec, PluginsSpec, AlertsSpec, Spec, MarketSpec, TrustSpec

\* For any files, plugins, rules, people and objects, the services keep their types: a rule
\* fired at a time the clock has shown, a configuration in force has a setting of every
\* file, and no load() nests deeper than there are plugins.
THEOREM ServicesTypeCorrect == ServicesSpec => []ServicesTypeOK
<1> DEFINE I == ConfigInv /\ PluginInv /\ AlertInv /\ FiredInThePast /\ MarketInv /\ TrustInv
<1>1. ServicesInit => I
  BY ConfigStart, PluginsStart, AlertsStart, FiredStart, MarketStart, TrustStarts DEF ServicesInit
<1>2. I /\ [ServicesNext]_servicesVars => I'
  BY ServicesParts, ConfigStep, PluginsStep, AlertsStep, FiredStep, MarketStep, TrustStep
<1>3. I => ServicesTypeOK
  <2> SUFFICES ASSUME I PROVE ServicesTypeOK
    OBVIOUS
  <2>1. ConfigTypeOK
    BY DEF ConfigInv, ConfigTyped, ConfigTypeOK
  <2>2. MarketTypeOK
    BY DEF MarketInv, MarketTyped, MarketTypeOK, Directories, Catalogues
  <2>3. TrustTypeOK
    BY DEF TrustInv, TrustTyped, TrustTypeOK
  <2>4. QED
    BY <2>1, <2>2, <2>3, AlertTypes, PluginTypes DEF ServicesTypeOK
<1> HIDE DEF I
<1>4. QED
  BY <1>1, <1>2, <1>3, PTL DEF ServicesSpec
=============================================================================
