---------------------------- MODULE AgentsProofs ----------------------------
(***************************************************************************)
(* Theorems about what the agents schedule and share: the coordinator over *)
(* TaskScheduler, LayeredSharedMemory, DAGScheduler and DynamicScheduler,  *)
(* for any number of tasks, threads, keys and writes.                      *)
(***************************************************************************)
EXTENDS AgentLayer, FiniteSetTheorems, TLAPS

-----------------------------------------------------------------------------
(* TeamCoordinator                                                         *)

\* Who has a task on its list.
Holders(j) == {r \in Runners : j \in list[r]}

TeamTyped ==
  /\ submitted \subseteq Jobs /\ waitsFor \subseteq submitted \X Jobs
  /\ jobStatus \in [Jobs -> JobStatuses] /\ starts \in [Jobs -> Nat]
  /\ inside \in [Runners -> {"none", "run_all", "run_batch", "step"}]
  /\ unread \in [Runners -> SUBSET submitted] /\ unmet \in [Runners -> SUBSET waitsFor]
  /\ list \in [Runners -> SUBSET submitted] /\ running \in [Runners -> SUBSET submitted]
  /\ going \subseteq Runners
  /\ promoted \subseteq submitted /\ abandoned \subseteq submitted /\ succeeded \subseteq submitted

\* A thread has a list inside a call only, and executes one task at a time, when it has
\* read the list to its end.
ListIsRead ==
  \A r \in Runners :
    /\ inside[r] = "none" => list[r] = {} /\ unread[r] = {} /\ unmet[r] = {} /\ r \notin going
    /\ r \in going => unread[r] = {} /\ unmet[r] = {}
    /\ running[r] # {} => r \in going
    /\ \A i, j \in running[r] : i = j

\* What a task on a list waits for has completed, or the thread has yet to look at it.
ListIsMet ==
  \A r \in Runners : \A j \in list[r] : \A d \in Jobs :
    <<j, d>> \in waitsFor => d \in succeeded \/ <<j, d>> \in unmet[r]

\* What the status of a task says of its past.
StatusIsEarned ==
  \A j \in Jobs :
    /\ jobStatus[j] = "pending" => starts[j] = 0
    /\ j \notin submitted => jobStatus[j] = "pending"
    /\ jobStatus[j] = "completed" => j \in succeeded
    /\ jobStatus[j] = "ready" => j \in promoted
    /\ jobStatus[j] = "running" => j \in abandoned \/ \E r \in Runners : j \in running[r]

\* A completion and every thread that executes the task stand for a start each.
StartsCounted ==
  \A j \in Jobs :
    /\ j \in succeeded => starts[j] >= 1
    /\ \A r \in Runners : j \in running[r] =>
         /\ starts[j] >= 1 /\ (j \in succeeded => starts[j] >= 2)
         /\ \A s \in Runners \ {r} : j \in running[s] => starts[j] >= 2

\* A thread that has a task on its list may start it once more.
StartsLeft == \A j \in Jobs : starts[j] + Cardinality(Holders(j)) <= Cardinality(Runners)

\* A task that was started had its dependencies met.
DependenciesDone ==
  \A j \in Jobs : starts[j] > 0 => \A d \in Jobs : <<j, d>> \in waitsFor => d \in succeeded

TeamInv ==
  /\ TeamTyped /\ ListIsRead /\ ListIsMet /\ StatusIsEarned /\ StartsCounted
  /\ StartsLeft /\ DependenciesDone /\ DoneStaysDone

\* As many threads hold a task as there are at most, and one less when one lets go.
LEMMA HoldersCount ==
  ASSUME TeamTyped
  PROVE  /\ Cardinality(Runners) \in Nat
         /\ \A S \in SUBSET Runners :
              /\ IsFiniteSet(S) /\ Cardinality(S) \in Nat /\ Cardinality(S) <= Cardinality(Runners)
              /\ \A T \in SUBSET S : Cardinality(T) <= Cardinality(S)
              /\ \A r \in S : Cardinality(S \ {r}) = Cardinality(S) - 1
<1>1. Cardinality(Runners) \in Nat
  BY TeamAssumption, FS_CardinalityType
<1>2. ASSUME NEW S \in SUBSET Runners
      PROVE  IsFiniteSet(S) /\ Cardinality(S) \in Nat /\ Cardinality(S) <= Cardinality(Runners)
  BY TeamAssumption, FS_Subset, FS_CardinalityType
<1>3. ASSUME NEW S \in SUBSET Runners, NEW T \in SUBSET S
      PROVE  Cardinality(T) <= Cardinality(S)
  BY <1>2, FS_Subset
<1>4. ASSUME NEW S \in SUBSET Runners, NEW r \in S
      PROVE  Cardinality(S \ {r}) = Cardinality(S) - 1
  BY <1>2, FS_RemoveElement
<1>5. QED
  BY <1>1, <1>2, <1>3, <1>4

LEMMA TeamStart == TeamInit => TeamInv
<1> SUFFICES ASSUME TeamInit PROVE TeamInv
  OBVIOUS
<1>1. TeamTyped
  BY DEF TeamInit, TeamTyped, JobStatuses, NoJobs
<1>2. ListIsRead /\ ListIsMet /\ StatusIsEarned /\ StartsCounted /\ DoneStaysDone
  BY DEF TeamInit, ListIsRead, ListIsMet, StatusIsEarned, StartsCounted, DoneStaysDone, NoJobs
<1>3. \A j \in Jobs : Holders(j) = {} /\ starts[j] = 0
  BY DEF TeamInit, Holders
<1>4. StartsLeft /\ DependenciesDone
  BY <1>1, <1>3, HoldersCount, FS_EmptySet DEF StartsLeft, DependenciesDone
<1>5. QED
  BY <1>1, <1>2, <1>4 DEF TeamInv

\* A step that starts nothing and puts no task that was started on a list leaves every
\* thread its start.
LEMMA StartsStayLeft ==
  ASSUME TeamInv, starts' = starts, TeamTyped',
         \A j \in Jobs : starts[j] = 0 \/ Holders(j)' \subseteq Holders(j)
  PROVE  StartsLeft'
<1> SUFFICES ASSUME NEW j \in Jobs
             PROVE  starts[j] + Cardinality(Holders(j)') <= Cardinality(Runners)
  BY DEF StartsLeft
<1>1. Holders(j) \in SUBSET Runners /\ Holders(j)' \in SUBSET Runners /\ starts[j] \in Nat
  BY DEF Holders, TeamInv, TeamTyped
<1>2. CASE starts[j] = 0
  BY <1>1, <1>2, HoldersCount DEF TeamInv
<1>3. CASE Holders(j)' \in SUBSET Holders(j)
  <2>1. /\ Cardinality(Holders(j)') \in Nat /\ Cardinality(Holders(j)) \in Nat
        /\ Cardinality(Holders(j)') <= Cardinality(Holders(j)) /\ Cardinality(Runners) \in Nat
    BY <1>1, <1>3, HoldersCount DEF TeamInv
  <2>2. QED
    BY <1>1, <2>1 DEF TeamInv, StartsLeft
<1>4. QED
  BY <1>2, <1>3

LEMMA SubmitKeeps ==
  ASSUME TeamInv, Submit
  PROVE  TeamInv'
<1>1. PICK j \in Jobs \ submitted, ds \in SUBSET Jobs, outside \in SUBSET Runners :
        /\ outside = {r \in Runners : unread[r] # {}}
        /\ submitted' = submitted \cup {j}
        /\ waitsFor' = waitsFor \cup {<<j, d>> : d \in ds}
        /\ inside' = [r \in Runners |-> IF r \in outside THEN "none" ELSE inside[r]]
        /\ unread' = [r \in Runners |-> IF r \in outside THEN {} ELSE unread[r]]
        /\ unmet' = [r \in Runners |-> IF r \in outside THEN {} ELSE unmet[r]]
        /\ list' = [r \in Runners |-> IF r \in outside THEN {} ELSE list[r]]
        /\ UNCHANGED <<jobStatus, going, running, ghostVars>>
  BY DEF Submit
<1>2. UNCHANGED <<jobStatus, going, running, promoted, abandoned, starts, succeeded>>
  BY <1>1 DEF ghostVars
<1>3. \A p \in waitsFor' \ waitsFor : p[1] = j
  BY <1>1
<1>4. TeamTyped'
  BY <1>1, <1>2 DEF TeamInv, TeamTyped
<1>5. \A i \in Jobs : Holders(i)' \subseteq Holders(i)
  BY <1>1 DEF Holders
<1>6. ListIsRead' /\ ListIsMet'
  BY <1>1, <1>2, <1>3 DEF TeamInv, TeamTyped, ListIsRead, ListIsMet
<1>7. StatusIsEarned' /\ StartsCounted' /\ DoneStaysDone'
  BY <1>1, <1>2 DEF TeamInv, StatusIsEarned, StartsCounted, DoneStaysDone
<1>8. StartsLeft'
  BY <1>2, <1>4, <1>5, StartsStayLeft
<1>9. starts[j] = 0
  BY <1>1 DEF TeamInv, StatusIsEarned
<1>10. DependenciesDone'
  BY <1>1, <1>2, <1>3, <1>9 DEF TeamInv, DependenciesDone
<1>11. QED
  BY <1>4, <1>6, <1>7, <1>8, <1>10 DEF TeamInv

\* A step of a thread over its own list, which tells the others nothing, keeps what the
\* statuses and the starts say.
LEMMA OwnStepKeeps ==
  ASSUME TeamInv, TeamTyped', ListIsRead', ListIsMet',
         UNCHANGED <<submitted, waitsFor, jobStatus, running, promoted, abandoned, starts, succeeded>>,
         \A j \in Jobs : starts[j] = 0 \/ Holders(j)' \subseteq Holders(j)
  PROVE  TeamInv'
<1>1. StatusIsEarned' /\ StartsCounted' /\ DoneStaysDone' /\ DependenciesDone'
  BY DEF TeamInv, StatusIsEarned, StartsCounted, DoneStaysDone, DependenciesDone
<1>2. StartsLeft'
  BY StartsStayLeft
<1>3. QED
  BY <1>1, <1>2 DEF TeamInv

LEMMA BeginReadKeeps ==
  ASSUME TeamInv, NEW r \in Runners, NEW c \in {"run_all", "run_batch", "step"},
         list[r] = {}, running[r] = {}, BeginRead(r, c)
  PROVE  TeamInv'
<1>1. /\ inside' = [inside EXCEPT ![r] = c]
      /\ unread' = [unread EXCEPT ![r] = submitted]
      /\ going' = going \ {r}
      /\ UNCHANGED <<submitted, waitsFor, jobStatus, unmet, list, running, promoted, abandoned,
                     starts, succeeded>>
  BY DEF BeginRead, ghostVars
<1>2. TeamTyped'
  BY <1>1 DEF TeamInv, TeamTyped
<1>3. ListIsRead' /\ ListIsMet'
  BY <1>1 DEF TeamInv, TeamTyped, ListIsRead, ListIsMet
<1>4. QED
  BY <1>1, <1>2, <1>3, OwnStepKeeps DEF Holders

LEMMA CallKeeps ==
  ASSUME TeamInv, NEW r \in Runners, Call(r)
  PROVE  TeamInv'
<1>1. PICK c \in {"run_all", "run_batch", "step"} : inside[r] = "none" /\ BeginRead(r, c)
  BY DEF Call
<1>2. list[r] = {} /\ running[r] = {}
  BY <1>1 DEF TeamInv, ListIsRead
<1>3. QED
  BY <1>1, <1>2, BeginReadKeeps

LEMMA ReadStatusKeeps ==
  ASSUME TeamInv, NEW r \in Runners, ReadStatus(r)
  PROVE  TeamInv'
<1>1. PICK j \in unread[r] :
        /\ unread' = [unread EXCEPT ![r] = @ \ {j}]
        /\ \/ /\ jobStatus[j] = "pending"
              /\ list' = [list EXCEPT ![r] = @ \cup {j}]
              /\ unmet' = [unmet EXCEPT ![r] = @ \cup {p \in waitsFor : p[1] = j}]
           \/ UNCHANGED <<list, unmet>>
        /\ UNCHANGED <<submitted, waitsFor, jobStatus, inside, going, running, promoted,
                       abandoned, starts, succeeded>>
  BY DEF ReadStatus, ghostVars
<1>2. j \in submitted /\ j \in Jobs /\ inside[r] # "none" /\ r \notin going
  BY DEF TeamInv, TeamTyped, ListIsRead
<1>3. CASE UNCHANGED <<list, unmet>>
  <2>1. TeamTyped'
    BY <1>1, <1>2, <1>3 DEF TeamInv, TeamTyped
  <2>2. ListIsRead' /\ ListIsMet'
    BY <1>1, <1>2, <1>3 DEF TeamInv, TeamTyped, ListIsRead, ListIsMet
  <2>3. QED
    BY <1>1, <1>3, <2>1, <2>2, OwnStepKeeps DEF Holders
<1>4. CASE /\ jobStatus[j] = "pending"
           /\ list' = [list EXCEPT ![r] = @ \cup {j}]
           /\ unmet' = [unmet EXCEPT ![r] = @ \cup {p \in waitsFor : p[1] = j}]
  <2>1. TeamTyped'
    BY <1>1, <1>2, <1>4 DEF TeamInv, TeamTyped
  <2>2. /\ list'[r] = list[r] \cup {j} /\ \A s \in Runners : s # r => list'[s] = list[s]
        /\ unmet'[r] = unmet[r] \cup {p \in waitsFor : p[1] = j}
        /\ \A s \in Runners : s # r => unmet'[s] = unmet[s]
    BY <1>4 DEF TeamInv, TeamTyped
  <2>3. ListIsRead'
    BY <1>1, <1>2, <2>2 DEF TeamInv, TeamTyped, ListIsRead
  <2>4. ListIsMet'
    BY <1>1, <2>2 DEF TeamInv, TeamTyped, ListIsMet
  <2>5. starts[j] = 0 /\ \A i \in Jobs : i # j => Holders(i)' = Holders(i)
    BY <1>2, <1>4, <2>2 DEF TeamInv, StatusIsEarned, Holders
  <2>6. QED
    BY <1>1, <2>1, <2>3, <2>4, <2>5, OwnStepKeeps
<1>5. QED
  BY <1>1, <1>3, <1>4

LEMMA ReadDependencyKeeps ==
  ASSUME TeamInv, NEW r \in Runners, ReadDependency(r)
  PROVE  TeamInv'
<1>1. PICK p \in unmet[r] :
        /\ \/ /\ jobStatus[p[2]] = "completed" /\ p[2] \in submitted
              /\ unmet' = [unmet EXCEPT ![r] = @ \ {p}] /\ UNCHANGED list
           \/ /\ unmet' = [unmet EXCEPT ![r] = {q \in @ : q[1] # p[1]}]
              /\ list' = [list EXCEPT ![r] = @ \ {p[1]}]
        /\ UNCHANGED <<submitted, waitsFor, jobStatus, inside, unread, going, running, promoted,
                       abandoned, starts, succeeded>>
  BY DEF ReadDependency, ghostVars
<1>2. /\ p[1] \in Jobs /\ p[2] \in Jobs
      /\ \A q \in waitsFor : \A j, d \in Jobs : q = <<j, d>> => q[1] = j /\ q[2] = d
  BY DEF TeamInv, TeamTyped
<1>3. TeamTyped'
  BY <1>1 DEF TeamInv, TeamTyped
<1>4. ListIsRead'
  BY <1>1 DEF TeamInv, TeamTyped, ListIsRead
<1>5. ListIsMet'
  <2>1. jobStatus[p[2]] = "completed" => p[2] \in succeeded
    BY <1>2 DEF TeamInv, StatusIsEarned
  <2>2. SUFFICES ASSUME NEW s \in Runners, NEW j \in list'[s], NEW d \in Jobs,
                        <<j, d>> \in waitsFor
                 PROVE  d \in succeeded \/ <<j, d>> \in unmet'[s]
    BY <1>1 DEF ListIsMet
  <2>3. j \in list[s] /\ (d \in succeeded \/ <<j, d>> \in unmet[s])
    BY <1>1, <2>2 DEF TeamInv, TeamTyped, ListIsMet
  <2>4. CASE s # r
    BY <1>1, <2>3, <2>4 DEF TeamInv, TeamTyped
  <2>5. CASE s = r
    BY <1>1, <1>2, <2>1, <2>2, <2>3, <2>5 DEF TeamInv, TeamTyped
  <2>6. QED
    BY <2>4, <2>5
<1>6. \A i \in Jobs : Holders(i)' \subseteq Holders(i)
  BY <1>1 DEF TeamInv, TeamTyped, Holders
<1>7. QED
  BY <1>1, <1>3, <1>4, <1>5, <1>6, OwnStepKeeps

LEMMA TakeListKeeps ==
  ASSUME TeamInv, NEW r \in Runners, TakeList(r)
  PROVE  TeamInv'
<1>1. PICK js \in SUBSET list[r] :
        /\ inside[r] # "none" /\ unread[r] = {} /\ unmet[r] = {}
        /\ list' = [list EXCEPT ![r] = js] /\ going' = going \cup {r}
        /\ UNCHANGED <<submitted, waitsFor, jobStatus, inside, unread, unmet, running, promoted,
                       abandoned, starts, succeeded>>
  BY DEF TakeList, HasRead, ghostVars
<1>2. TeamTyped'
  BY <1>1 DEF TeamInv, TeamTyped
<1>3. ListIsRead' /\ ListIsMet'
  BY <1>1 DEF TeamInv, TeamTyped, ListIsRead, ListIsMet
<1>4. \A i \in Jobs : Holders(i)' \subseteq Holders(i)
  BY <1>1 DEF TeamInv, TeamTyped, Holders
<1>5. QED
  BY <1>1, <1>2, <1>3, <1>4, OwnStepKeeps

\* A thread that returns had nothing left on its list.
LEMMA CallEndsKeeps ==
  ASSUME TeamInv, NEW r \in Runners, list[r] = {}, running[r] = {}, unread[r] = {}, unmet[r] = {},
         inside' = [inside EXCEPT ![r] = "none"], going' = going \ {r},
         UNCHANGED <<submitted, waitsFor, jobStatus, unread, unmet, list, running, promoted,
                     abandoned, starts, succeeded>>
  PROVE  TeamInv'
<1>1. TeamTyped'
  BY DEF TeamInv, TeamTyped
<1>2. ListIsRead' /\ ListIsMet'
  BY DEF TeamInv, TeamTyped, ListIsRead, ListIsMet
<1>3. QED
  BY <1>1, <1>2, OwnStepKeeps DEF Holders

LEMMA ListEndsKeeps ==
  ASSUME TeamInv, NEW r \in Runners, ListEnds(r) \/ RunAllReturns(r)
  PROVE  TeamInv'
<1>1. CASE ListEnds(r)
  <2>1. r \in going /\ list[r] = {} /\ running[r] = {} /\ unread[r] = {} /\ unmet[r] = {}
    BY <1>1 DEF ListEnds, NoJobs, TeamInv, ListIsRead
  <2>2. CASE BeginRead(r, "run_all")
    BY <2>1, <2>2, BeginReadKeeps
  <2>3. CASE /\ inside' = [inside EXCEPT ![r] = "none"] /\ going' = going \ {r}
             /\ UNCHANGED <<submitted, waitsFor, jobStatus, unread, unmet, list, running, ghostVars>>
    BY <2>1, <2>3, CallEndsKeeps DEF ghostVars
  <2>4. QED
    BY <1>1, <2>2, <2>3 DEF ListEnds
<1>2. CASE RunAllReturns(r)
  <2>1. list[r] = {} /\ running[r] = {} /\ unread[r] = {} /\ unmet[r] = {} /\ going = going \ {r}
    BY <1>2 DEF RunAllReturns, HasRead, TeamInv, ListIsRead
  <2>2. QED
    BY <1>2, <2>1, CallEndsKeeps DEF RunAllReturns, ghostVars
<1>3. QED
  BY <1>1, <1>2

LEMMA StepWritesKeeps ==
  ASSUME TeamInv, NEW r \in Runners, StepWrites(r)
  PROVE  TeamInv'
<1>1. PICK j \in list[r] :
        /\ r \in going
        /\ list' = [list EXCEPT ![r] = @ \ {j}]
        /\ jobStatus' = [jobStatus EXCEPT ![j] = "ready"]
        /\ promoted' = promoted \cup {j}
        /\ UNCHANGED <<submitted, waitsFor, inside, unread, unmet, going, running, abandoned,
                       starts, succeeded>>
  BY DEF StepWrites
<1>2. j \in submitted /\ j \in Jobs
  BY DEF TeamInv, TeamTyped
<1>3. jobStatus'[j] = "ready" /\ \A i \in Jobs : i # j => jobStatus'[i] = jobStatus[i]
  BY <1>1, <1>2 DEF TeamInv, TeamTyped
<1>4. TeamTyped'
  BY <1>1, <1>2 DEF TeamInv, TeamTyped, JobStatuses
<1>5. ListIsRead' /\ ListIsMet'
  BY <1>1 DEF TeamInv, TeamTyped, ListIsRead, ListIsMet
<1>6. StatusIsEarned' /\ DoneStaysDone'
  BY <1>1, <1>2, <1>3 DEF TeamInv, TeamTyped, StatusIsEarned, DoneStaysDone
<1>7. StartsCounted' /\ DependenciesDone'
  BY <1>1 DEF TeamInv, StartsCounted, DependenciesDone
<1>8. \A i \in Jobs : Holders(i)' \subseteq Holders(i)
  BY <1>1 DEF TeamInv, TeamTyped, Holders
<1>9. StartsLeft'
  BY <1>1, <1>4, <1>8, StartsStayLeft
<1>10. QED
  BY <1>4, <1>5, <1>6, <1>7, <1>9 DEF TeamInv

LEMMA StartJobKeeps ==
  ASSUME TeamInv, NEW r \in Runners, StartJob(r)
  PROVE  TeamInv'
<1>1. PICK j \in list[r] :
        /\ running[r] = NoJobs /\ r \in going
        /\ list' = [list EXCEPT ![r] = @ \ {j}]
        /\ running' = [running EXCEPT ![r] = {j}]
        /\ jobStatus' = [jobStatus EXCEPT ![j] = "running"]
        /\ starts' = [starts EXCEPT ![j] = @ + 1]
        /\ UNCHANGED <<submitted, waitsFor, inside, unread, unmet, going, promoted, abandoned,
                       succeeded>>
  BY DEF StartJob
<1>2. j \in submitted /\ j \in Jobs /\ r \in Holders(j)
  BY <1>1 DEF TeamInv, TeamTyped, Holders
<1>3. /\ list'[r] = list[r] \ {j} /\ \A s \in Runners : s # r => list'[s] = list[s]
      /\ running'[r] = {j} /\ \A s \in Runners : s # r => running'[s] = running[s]
  BY <1>1 DEF TeamInv, TeamTyped
<1>4. /\ jobStatus'[j] = "running" /\ \A i \in Jobs : i # j => jobStatus'[i] = jobStatus[i]
      /\ starts'[j] = starts[j] + 1 /\ \A i \in Jobs : i # j => starts'[i] = starts[i]
      /\ starts[j] \in Nat
  BY <1>1, <1>2 DEF TeamInv, TeamTyped
<1>5. TeamTyped'
  BY <1>1, <1>2 DEF TeamInv, TeamTyped, JobStatuses
<1>6. ListIsRead' /\ ListIsMet'
  BY <1>1, <1>2, <1>3 DEF TeamInv, TeamTyped, ListIsRead, ListIsMet
<1>7. StatusIsEarned'
  BY <1>1, <1>2, <1>3, <1>4 DEF TeamInv, StatusIsEarned, NoJobs
<1>8. StartsCounted' /\ DoneStaysDone'
  <2>1. \A i \in Jobs : starts[i] \in Nat
    BY DEF TeamInv, TeamTyped
  <2>2. StartsCounted'
    BY <1>1, <1>3, <1>4, <2>1 DEF TeamInv, StartsCounted
  <2>3. DoneStaysDone'
    BY <1>1, <1>3, <1>4, <2>1 DEF TeamInv, TeamTyped, StartsCounted, DoneStaysDone
  <2>4. QED
    BY <2>2, <2>3
<1>9. Holders(j)' = Holders(j) \ {r} /\ \A i \in Jobs : i # j => Holders(i)' = Holders(i)
  BY <1>3 DEF Holders
<1>10. StartsLeft'
  <2>1. Holders(j) \in SUBSET Runners
    BY DEF Holders
  <2>2. Cardinality(Holders(j)') = Cardinality(Holders(j)) - 1 /\ Cardinality(Holders(j)) \in Nat
    BY <1>2, <1>9, <2>1, HoldersCount DEF TeamInv
  <2>3. starts'[j] + Cardinality(Holders(j)') <= Cardinality(Runners)
    BY <1>2, <1>4, <2>2, HoldersCount DEF TeamInv, StartsLeft
  <2>4. ASSUME NEW i \in Jobs, i # j
        PROVE  starts'[i] + Cardinality(Holders(i)') <= Cardinality(Runners)
    BY <1>4, <1>9, <2>4 DEF TeamInv, StartsLeft
  <2>5. QED
    BY <2>3, <2>4 DEF StartsLeft
<1>11. DependenciesDone'
  <2>1. unmet[r] = {}
    BY <1>1 DEF TeamInv, ListIsRead
  <2>2. QED
    BY <1>1, <1>2, <1>4, <2>1 DEF TeamInv, ListIsMet, DependenciesDone
<1>12. QED
  BY <1>5, <1>6, <1>7, <1>8, <1>10, <1>11 DEF TeamInv

LEMMA FinishJobKeeps ==
  ASSUME TeamInv, NEW r \in Runners, FinishJob(r)
  PROVE  TeamInv'
<1>1. PICK j \in running[r], status \in {"completed", "failed"} :
        /\ running' = [running EXCEPT ![r] = NoJobs]
        /\ jobStatus' = [jobStatus EXCEPT ![j] = status]
        /\ succeeded' = IF status = "completed" THEN succeeded \cup {j} ELSE succeeded
        /\ UNCHANGED <<submitted, waitsFor, inside, unread, unmet, list, going, promoted,
                       abandoned, starts>>
  BY DEF FinishJob, readVars
<1>2. j \in submitted /\ j \in Jobs
  BY DEF TeamInv, TeamTyped
<1>3. /\ running'[r] = {} /\ \A s \in Runners : s # r => running'[s] = running[s]
      /\ jobStatus'[j] = status /\ \A i \in Jobs : i # j => jobStatus'[i] = jobStatus[i]
      /\ \A i \in Jobs : starts[i] \in Nat
  BY <1>1, <1>2 DEF TeamInv, TeamTyped, NoJobs
<1>4. TeamTyped'
  BY <1>1, <1>2 DEF TeamInv, TeamTyped, JobStatuses, NoJobs
<1>5. ListIsRead' /\ ListIsMet'
  BY <1>1, <1>3 DEF TeamInv, ListIsRead, ListIsMet
<1>6. StatusIsEarned'
  <2>1. \A i \in Jobs : i # j /\ i \in running[r] => FALSE
    BY DEF TeamInv, ListIsRead
  <2>2. QED
    BY <1>1, <1>2, <1>3, <2>1 DEF TeamInv, StatusIsEarned
<1>7. StartsCounted'
  BY <1>1, <1>2, <1>3 DEF TeamInv, StartsCounted
<1>8. DoneStaysDone'
  BY <1>1, <1>2, <1>3 DEF TeamInv, TeamTyped, StartsCounted, DoneStaysDone
<1>9. StartsLeft' /\ DependenciesDone'
  BY <1>1 DEF TeamInv, StartsLeft, DependenciesDone, Holders
<1>10. QED
  BY <1>4, <1>5, <1>6, <1>7, <1>8, <1>9 DEF TeamInv

LEMMA AgentRaisesKeeps ==
  ASSUME TeamInv, NEW r \in Runners, AgentRaises(r)
  PROVE  TeamInv'
<1>1. PICK j \in running[r] :
        /\ running' = [running EXCEPT ![r] = NoJobs]
        /\ list' = [list EXCEPT ![r] = {}]
        /\ inside' = [inside EXCEPT ![r] = "none"] /\ going' = going \ {r}
        /\ abandoned' = abandoned \cup {j}
        /\ UNCHANGED <<submitted, waitsFor, jobStatus, unread, unmet, promoted, starts, succeeded>>
  BY DEF AgentRaises
<1>2. /\ j \in submitted /\ \A i \in running[r] : i = j
      /\ r \in going /\ unread[r] = {} /\ unmet[r] = {}
  BY DEF TeamInv, TeamTyped, ListIsRead
<1>3. /\ running'[r] = {} /\ \A s \in Runners : s # r => running'[s] = running[s]
      /\ list'[r] = {} /\ \A s \in Runners : s # r => list'[s] = list[s]
      /\ inside'[r] = "none" /\ \A s \in Runners : s # r => inside'[s] = inside[s]
  BY <1>1 DEF TeamInv, TeamTyped, NoJobs
<1>4. TeamTyped'
  BY <1>1, <1>2 DEF TeamInv, TeamTyped, NoJobs
<1>5. ListIsRead' /\ ListIsMet'
  BY <1>1, <1>2, <1>3 DEF TeamInv, ListIsRead, ListIsMet
<1>6. StatusIsEarned'
  BY <1>1, <1>2, <1>3 DEF TeamInv, StatusIsEarned
<1>7. StartsCounted' /\ DoneStaysDone' /\ DependenciesDone'
  BY <1>1, <1>3 DEF TeamInv, StartsCounted, DoneStaysDone, DependenciesDone
<1>8. \A i \in Jobs : Holders(i)' \subseteq Holders(i)
  BY <1>3 DEF Holders
<1>9. StartsLeft'
  BY <1>1, <1>4, <1>8, StartsStayLeft
<1>10. QED
  BY <1>4, <1>5, <1>6, <1>7, <1>9 DEF TeamInv

LEMMA TeamStep == TeamInv /\ [TeamNext]_teamVars => TeamInv'
<1> SUFFICES ASSUME TeamInv, [TeamNext]_teamVars PROVE TeamInv'
  OBVIOUS
<1>1. CASE UNCHANGED teamVars
  <2>1. UNCHANGED <<submitted, waitsFor, jobStatus, inside, unread, unmet, list, going, running,
                    promoted, abandoned, starts, succeeded>>
    BY <1>1 DEF teamVars, readVars, ghostVars
  <2>2. TeamTyped' /\ ListIsRead' /\ ListIsMet'
    BY <2>1 DEF TeamInv, TeamTyped, ListIsRead, ListIsMet
  <2>3. QED
    BY <2>1, <2>2, OwnStepKeeps DEF Holders
<1>2. QED
  BY <1>1, SubmitKeeps, CallKeeps, ReadStatusKeeps, ReadDependencyKeeps, TakeListKeeps,
     ListEndsKeeps, StepWritesKeeps, StartJobKeeps, FinishJobKeeps, AgentRaisesKeeps
     DEF TeamNext

\* For any number of tasks and of threads in run_all(), run_batch() and step(), no task runs
\* before its dependencies or more often than there are threads, a task that will not run
\* has one of the three reasons, and only two overlaps take a completion back.
THEOREM TasksComeInOrder == TeamSpec => []TasksInOrder
<1>1. ASSUME TeamInv PROVE DependenciesFirst
  <2>1. \A j \in Jobs : Holders(j) \in SUBSET Runners
    BY DEF Holders
  <2>2. \A j \in Jobs : Cardinality(Holders(j)) \in Nat /\ starts[j] \in Nat /\ Cardinality(Runners) \in Nat
    BY <1>1, <2>1, HoldersCount DEF TeamInv, TeamTyped
  <2>3. QED
    BY <1>1, <2>2 DEF TeamInv, StartsLeft, DependenciesDone, DependenciesFirst
<1>2. ASSUME TeamInv, \A r \in Runners : inside[r] = "none", Offered = {}, NEW j \in submitted
      PROVE  \/ jobStatus[j] \in {"completed", "failed"} \/ j \in promoted \cup abandoned
             \/ \E d \in Jobs : <<j, d>> \in waitsFor /\ jobStatus[d] # "completed"
  <2>1. j \in Jobs /\ jobStatus[j] \in JobStatuses
    BY <1>2 DEF TeamInv, TeamTyped
  <2>2. \A r \in Runners : running[r] = {}
    BY <1>2 DEF TeamInv, ListIsRead
  <2>3. CASE jobStatus[j] = "pending"
    BY <1>2, <2>1, <2>3 DEF Offered, TeamInv, StatusIsEarned
  <2>4. CASE jobStatus[j] = "ready" \/ jobStatus[j] = "running"
    BY <1>2, <2>1, <2>2, <2>4 DEF TeamInv, StatusIsEarned
  <2>5. QED
    BY <2>1, <2>3, <2>4 DEF JobStatuses
<1>3. TeamInv => TasksInOrder
  BY <1>1, <1>2 DEF TasksInOrder, NothingForgotten, TeamInv
<1>4. QED
  BY <1>3, TeamStart, TeamStep, PTL DEF TeamSpec

-----------------------------------------------------------------------------
(* SharedMemory                                                            *)

\* The writes whose set() returned, and the calls that wrote and have not returned.
Done == UNION {finished[k] : k \in Keys}
InFlight(a) == call[a].at \in {"announcing", "mirroring"}

MemTyped ==
  /\ writes \in Nat /\ writes <= MaxWrites
  /\ call \in [Agents -> [at : {"idle", "timed", "announcing", "mirroring"}, key : Keys \cup {Idle.key},
                          time : Int, write : Nat, seen : SUBSET Nat]]
  /\ \A a \in Agents : call[a].at # "idle" => call[a].key \in Keys
  /\ time \in Int
  /\ announced \in [Keys -> Nat] /\ mirrored \in [Keys -> Nat]
  /\ finished \in [Keys -> SUBSET (1 .. writes)]
  /\ earlier \in [Writes -> SUBSET (1 .. writes)]

\* Every write is by one call, which is under way or has returned.
WritesApart ==
  \A a \in Agents : InFlight(a) =>
    /\ call[a].write \in 1 .. writes /\ call[a].write \in Writes /\ call[a].write \notin Done
    /\ \A b \in Agents : InFlight(b) /\ b # a => call[b].write # call[a].write

\* What came before a write had returned.
EarlierIsDone ==
  /\ \A a \in Agents : call[a].seen \subseteq Done
  /\ \A w \in Writes : earlier[w] \subseteq Done

AnnouncedBefore ==
  \A a \in Agents : call[a].at = "mirroring" => announced[call[a].key] \notin earlier[call[a].write]

MemInv == MemTyped /\ WritesApart /\ EarlierIsDone /\ AnnouncedBefore /\ CopiesAreRecent

LEMMA MemStart == MemInit => MemInv
<1> SUFFICES ASSUME MemInit PROVE MemInv
  OBVIOUS
<1>1. /\ writes = 0 /\ time = 0 /\ call = [a \in Agents |-> Idle]
      /\ announced = [k \in Keys |-> 0] /\ mirrored = [k \in Keys |-> 0]
      /\ finished = [k \in Keys |-> {}] /\ earlier = [w \in Writes |-> {}]
  BY DEF MemInit
<1>2. /\ Idle.at = "idle" /\ Idle.seen = {}
      /\ Idle \in [at : {"idle", "timed", "announcing", "mirroring"}, key : Keys \cup {Idle.key},
                   time : Int, write : Nat, seen : SUBSET Nat]
  BY DEF Idle
<1>3. MemTyped
  BY <1>1, <1>2, MemoryAssumption DEF MemTyped
<1>4. WritesApart /\ EarlierIsDone /\ AnnouncedBefore
  BY <1>1, <1>2 DEF WritesApart, EarlierIsDone, AnnouncedBefore, InFlight
<1>5. CopiesAreRecent
  BY <1>1 DEF CopiesAreRecent
<1>6. QED
  BY <1>3, <1>4, <1>5 DEF MemInv

\* The call of one thread changes, and the others do not.
LEMMA OneCall ==
  ASSUME MemTyped, NEW a \in Agents, NEW v, call' = [call EXCEPT ![a] = v]
  PROVE  call'[a] = v /\ \A b \in Agents : b # a => call'[b] = call[b]
  BY DEF MemTyped

LEMMA BeginSetKeeps ==
  ASSUME MemInv, NEW a \in Agents, BeginSet(a)
  PROVE  MemInv'
<1>1. PICK k \in Keys :
        /\ call' = [call EXCEPT ![a] = [at |-> "timed", key |-> k, time |-> time, write |-> 0,
                                        seen |-> finished[k]]]
        /\ UNCHANGED <<time, region, writes, announced, mirrored, unmirrored, finished, earlier>>
  BY DEF BeginSet
<1> DEFINE v == [at |-> "timed", key |-> k, time |-> time, write |-> 0, seen |-> finished[k]]
<1>2. /\ v.at = "timed" /\ v.key = k /\ v.seen = finished[k] /\ finished[k] \in SUBSET Nat
      /\ v \in [at : {"idle", "timed", "announcing", "mirroring"}, key : Keys \cup {Idle.key},
                time : Int, write : Nat, seen : SUBSET Nat]
  BY DEF MemInv, MemTyped
<1>3. call' = [call EXCEPT ![a] = v]
  BY <1>1
<1> HIDE DEF v
<1>4. call'[a] = v /\ \A b \in Agents : b # a => call'[b] = call[b]
  BY <1>3, OneCall DEF MemInv
<1>5. MemTyped'
  <2>1. call' \in [Agents -> [at : {"idle", "timed", "announcing", "mirroring"}, key : Keys \cup {Idle.key},
                              time : Int, write : Nat, seen : SUBSET Nat]]
    BY <1>2, <1>3 DEF MemInv, MemTyped
  <2>2. \A b \in Agents : call'[b].at # "idle" => call'[b].key \in Keys
    BY <1>2, <1>4 DEF MemInv, MemTyped
  <2>3. QED
    BY <1>1, <2>1, <2>2 DEF MemInv, MemTyped
<1>6. Done' = Done /\ finished[k] \subseteq Done
  BY <1>1 DEF Done
<1>7. ~InFlight(a)' /\ \A b \in Agents : b # a => (InFlight(b)' <=> InFlight(b))
  BY <1>2, <1>4 DEF InFlight
<1>8. WritesApart'
  BY <1>1, <1>4, <1>6, <1>7 DEF MemInv, WritesApart
<1>9. EarlierIsDone' /\ AnnouncedBefore'
  BY <1>1, <1>2, <1>4, <1>6 DEF MemInv, EarlierIsDone, AnnouncedBefore
<1>10. CopiesAreRecent'
  BY <1>1 DEF MemInv, CopiesAreRecent
<1>11. QED
  BY <1>5, <1>8, <1>9, <1>10 DEF MemInv

LEMMA WriteKeeps ==
  ASSUME MemInv, NEW a \in Agents, WriteUnderLock(a)
  PROVE  MemInv'
<1> DEFINE v == [call[a] EXCEPT !.at = "announcing", !.write = writes + 1]
<1>1. /\ call[a].at = "timed" /\ writes < MaxWrites /\ writes' = writes + 1
      /\ earlier' = [earlier EXCEPT ![writes + 1] = call[a].seen]
      /\ call' = [call EXCEPT ![a] = v]
      /\ UNCHANGED <<time, announced, mirrored, unmirrored, finished>>
  BY DEF WriteUnderLock
<1>2. writes \in Nat /\ writes + 1 \in Writes /\ writes + 1 \in Nat
  BY <1>1, MemoryAssumption DEF MemInv, MemTyped, Writes
<1>3. /\ v.at = "announcing" /\ v.write = writes + 1 /\ v.seen = call[a].seen /\ v.key = call[a].key
      /\ v \in [at : {"idle", "timed", "announcing", "mirroring"}, key : Keys \cup {Idle.key},
                time : Int, write : Nat, seen : SUBSET Nat]
  BY <1>2 DEF MemInv, MemTyped
<1> HIDE DEF v
<1>4. call'[a] = v /\ \A b \in Agents : b # a => call'[b] = call[b]
  BY <1>1, OneCall DEF MemInv
<1>5. Done' = Done /\ Done \subseteq 1 .. writes
  BY <1>1 DEF MemInv, MemTyped, Done
<1>6. /\ earlier'[writes + 1] = call[a].seen
      /\ \A w \in Writes : w # writes + 1 => earlier'[w] = earlier[w]
  BY <1>1, <1>2 DEF MemInv, MemTyped
<1>7. EarlierIsDone'
  BY <1>3, <1>4, <1>5, <1>6 DEF MemInv, EarlierIsDone
<1>8. MemTyped'
  <2>1. call' \in [Agents -> [at : {"idle", "timed", "announcing", "mirroring"}, key : Keys \cup {Idle.key},
                              time : Int, write : Nat, seen : SUBSET Nat]]
    BY <1>1, <1>3 DEF MemInv, MemTyped
  <2>2. \A b \in Agents : call'[b].at # "idle" => call'[b].key \in Keys
    BY <1>1, <1>3, <1>4 DEF MemInv, MemTyped
  <2>3. 1 .. writes \subseteq 1 .. writes'
    BY <1>1, <1>2
  <2>4. finished' \in [Keys -> SUBSET (1 .. writes')]
    BY <1>1, <2>3 DEF MemInv, MemTyped
  <2>5. call[a].seen \subseteq 1 .. writes'
    BY <1>5, <2>3 DEF MemInv, EarlierIsDone
  <2>6. earlier' \in [Writes -> SUBSET (1 .. writes')]
    BY <1>1, <2>3, <2>5 DEF MemInv, MemTyped
  <2>7. writes' <= MaxWrites
    BY <1>1, <1>2, MemoryAssumption
  <2>8. QED
    BY <1>1, <1>2, <2>1, <2>2, <2>4, <2>6, <2>7 DEF MemInv, MemTyped
<1>9. InFlight(a)' /\ \A b \in Agents : b # a => (InFlight(b)' <=> InFlight(b))
  BY <1>3, <1>4 DEF InFlight
<1>10. WritesApart'
  <2> SUFFICES ASSUME NEW b \in Agents, InFlight(b)'
               PROVE  /\ call'[b].write \in 1 .. writes' /\ call'[b].write \in Writes /\ call'[b].write \notin Done
                      /\ \A d \in Agents : InFlight(d)' /\ d # b => call'[d].write # call'[b].write
    BY <1>5 DEF WritesApart
  <2>1. \A d \in Agents : d # a /\ InFlight(d)' =>
          call'[d].write = call[d].write /\ call[d].write \in 1 .. writes /\ InFlight(d)
          /\ call[d].write \in Writes /\ call[d].write \notin Done
    BY <1>4, <1>9 DEF MemInv, WritesApart
  <2>2. writes + 1 \notin Done /\ writes + 1 \in 1 .. writes' /\ 1 .. writes \subseteq 1 .. writes'
        /\ writes + 1 \notin 1 .. writes
    BY <1>1, <1>2, <1>5
  <2>3. CASE b = a
    BY <1>2, <1>3, <1>4, <2>1, <2>2, <2>3
  <2>4. CASE b # a
    BY <1>3, <1>4, <2>1, <2>2, <2>4 DEF MemInv, WritesApart
  <2>5. QED
    BY <2>3, <2>4
<1>11. AnnouncedBefore'
  <2> SUFFICES ASSUME NEW b \in Agents, call'[b].at = "mirroring"
               PROVE  announced[call'[b].key] \notin earlier'[call'[b].write]
    BY <1>1 DEF AnnouncedBefore
  <2>1. b # a /\ call'[b] = call[b]
    BY <1>3, <1>4
  <2>2. call[b].write \in 1 .. writes /\ call[b].write \in Writes
    BY <2>1 DEF MemInv, WritesApart, InFlight
  <2>3. earlier'[call[b].write] = earlier[call[b].write]
    BY <1>2, <1>6, <2>2
  <2>4. QED
    BY <2>1, <2>3 DEF MemInv, AnnouncedBefore
<1>12. CopiesAreRecent'
  <2> SUFFICES ASSUME NEW k \in Keys, NEW w \in finished[k]
               PROVE  /\ announced[k] \notin earlier'[w]
                      /\ w \notin unmirrored => mirrored[k] \notin earlier'[w]
    BY <1>1 DEF CopiesAreRecent
  <2>1. w \in Writes /\ w # writes + 1
    BY <1>1, <1>2, MemoryAssumption DEF MemInv, MemTyped, Writes
  <2>2. QED
    BY <1>6, <2>1 DEF MemInv, CopiesAreRecent
<1>13. QED
  BY <1>7, <1>8, <1>10, <1>11, <1>12 DEF MemInv

LEMMA AnnounceKeeps ==
  ASSUME MemInv, NEW a \in Agents, Announce(a)
  PROVE  MemInv'
<1> DEFINE v == [call[a] EXCEPT !.at = "mirroring"]
           c == call[a]
<1>1. /\ call[a].at = "announcing"
      /\ announced' = [announced EXCEPT ![c.key] = c.write]
      /\ call' = [call EXCEPT ![a] = v]
      /\ UNCHANGED <<time, region, writes, mirrored, unmirrored, finished, earlier>>
  BY DEF Announce
<1>2. /\ v.at = "mirroring" /\ v.write = c.write /\ v.seen = c.seen /\ v.key = c.key
      /\ c.key \in Keys /\ c.write \in Nat
      /\ v \in [at : {"idle", "timed", "announcing", "mirroring"}, key : Keys \cup {Idle.key},
                time : Int, write : Nat, seen : SUBSET Nat]
  BY <1>1 DEF MemInv, MemTyped
<1> HIDE DEF v
<1>3. call'[a] = v /\ \A b \in Agents : b # a => call'[b] = call[b]
  BY <1>1, OneCall DEF MemInv
<1>4. Done' = Done /\ \A b \in Agents : InFlight(b)' <=> InFlight(b)
  BY <1>1, <1>2, <1>3 DEF Done, InFlight
<1>5. \A b \in Agents : call'[b].key = call[b].key /\ call'[b].write = call[b].write
                        /\ call'[b].seen = call[b].seen
  BY <1>2, <1>3
<1>6. MemTyped'
  <2>1. call' \in [Agents -> [at : {"idle", "timed", "announcing", "mirroring"}, key : Keys \cup {Idle.key},
                              time : Int, write : Nat, seen : SUBSET Nat]]
    BY <1>1, <1>2 DEF MemInv, MemTyped
  <2>2. \A b \in Agents : call'[b].at # "idle" => call'[b].key \in Keys
    BY <1>2, <1>3 DEF MemInv, MemTyped
  <2>3. announced' \in [Keys -> Nat]
    BY <1>1, <1>2 DEF MemInv, MemTyped
  <2>4. QED
    BY <1>1, <2>1, <2>2, <2>3 DEF MemInv, MemTyped
<1>7. WritesApart' /\ EarlierIsDone'
  BY <1>1, <1>4, <1>5 DEF MemInv, WritesApart, EarlierIsDone
<1>8. c.write \notin Done /\ c.write \in Writes
  BY <1>1 DEF MemInv, WritesApart, InFlight
<1>9. /\ announced'[c.key] = c.write
      /\ \A k \in Keys : k # c.key => announced'[k] = announced[k]
  BY <1>1, <1>2 DEF MemInv, MemTyped
<1>10. \A w \in Writes : c.write \notin earlier[w]
  BY <1>8 DEF MemInv, EarlierIsDone
<1>11. AnnouncedBefore'
  <2> SUFFICES ASSUME NEW b \in Agents, call'[b].at = "mirroring"
               PROVE  announced'[call[b].key] \notin earlier[call[b].write]
    BY <1>1, <1>5 DEF AnnouncedBefore
  <2>1. call[b].key \in Keys /\ call[b].write \in Writes
    BY <1>1, <1>3 DEF MemInv, MemTyped, WritesApart, InFlight
  <2>2. CASE call[b].key = c.key
    BY <1>9, <1>10, <2>1, <2>2
  <2>3. CASE call[b].key # c.key
    BY <1>3, <1>9, <2>1, <2>3 DEF MemInv, AnnouncedBefore
  <2>4. QED
    BY <2>2, <2>3
<1>12. CopiesAreRecent'
  <2> SUFFICES ASSUME NEW k \in Keys, NEW w \in finished[k]
               PROVE  /\ announced'[k] \notin earlier[w]
                      /\ w \notin unmirrored => mirrored[k] \notin earlier[w]
    BY <1>1 DEF CopiesAreRecent
  <2>1. announced[k] \notin earlier[w] /\ (w \notin unmirrored => mirrored[k] \notin earlier[w])
    BY DEF MemInv, CopiesAreRecent
  <2>2. w \in Writes
    BY MemoryAssumption DEF MemInv, MemTyped, Writes
  <2>3. QED
    BY <1>9, <1>10, <2>1, <2>2
<1>13. QED
  BY <1>6, <1>7, <1>11, <1>12 DEF MemInv

\* A write is mirrored, or not, and its set() returns: it is a write that nothing finished
\* came after.
LEMMA ReturnKeeps ==
  ASSUME MemInv, NEW a \in Agents, Mirror(a) \/ MirrorFails(a)
  PROVE  MemInv'
<1> DEFINE c == call[a]
<1>1. /\ c.at = "mirroring"
      /\ finished' = [finished EXCEPT ![c.key] = @ \cup {c.write}]
      /\ call' = [call EXCEPT ![a] = Idle]
      /\ UNCHANGED <<time, region, writes, announced, earlier>>
      /\ \/ mirrored' = [mirrored EXCEPT ![c.key] = c.write] /\ unmirrored' = unmirrored
         \/ mirrored' = mirrored /\ unmirrored' = unmirrored \cup {c.write}
  BY DEF Mirror, MirrorFails, Returned
<1>2. /\ c.key \in Keys /\ c.write \in Nat /\ c.write \in 1 .. writes /\ c.write \in Writes
      /\ c.write \notin Done
  BY <1>1 DEF MemInv, MemTyped, WritesApart, InFlight
<1>3. /\ Idle.at = "idle" /\ Idle.seen = {}
      /\ Idle \in [at : {"idle", "timed", "announcing", "mirroring"}, key : Keys \cup {Idle.key},
                   time : Int, write : Nat, seen : SUBSET Nat]
  BY DEF Idle
<1>4. call'[a] = Idle /\ \A b \in Agents : b # a => call'[b] = call[b]
  BY <1>1, OneCall DEF MemInv
<1>5. /\ finished'[c.key] = finished[c.key] \cup {c.write}
      /\ \A k \in Keys : k # c.key => finished'[k] = finished[k]
  BY <1>1, <1>2 DEF MemInv, MemTyped
<1>6. Done' = Done \cup {c.write}
  BY <1>2, <1>5 DEF Done
<1>7. ~InFlight(a)' /\ \A b \in Agents : b # a => (InFlight(b)' <=> InFlight(b))
  BY <1>3, <1>4 DEF InFlight
<1>8. MemTyped'
  <2>1. call' \in [Agents -> [at : {"idle", "timed", "announcing", "mirroring"}, key : Keys \cup {Idle.key},
                              time : Int, write : Nat, seen : SUBSET Nat]]
    BY <1>1, <1>3 DEF MemInv, MemTyped
  <2>2. \A b \in Agents : call'[b].at # "idle" => call'[b].key \in Keys
    BY <1>3, <1>4 DEF MemInv, MemTyped
  <2>3. finished' \in [Keys -> SUBSET (1 .. writes)] /\ mirrored' \in [Keys -> Nat]
    BY <1>1, <1>2 DEF MemInv, MemTyped
  <2>4. QED
    BY <1>1, <2>1, <2>2, <2>3 DEF MemInv, MemTyped
<1>9. WritesApart'
  <2> SUFFICES ASSUME NEW b \in Agents, InFlight(b)'
               PROVE  /\ call[b].write \in 1 .. writes /\ call[b].write \in Writes /\ call[b].write \notin Done'
                      /\ \A d \in Agents : InFlight(d)' /\ d # b => call'[d].write # call[b].write
    BY <1>1, <1>4, <1>7 DEF WritesApart
  <2>1. b # a /\ InFlight(b) /\ InFlight(a)
    BY <1>1, <1>7 DEF InFlight
  <2>2. QED
    BY <1>4, <1>6, <1>7, <2>1 DEF MemInv, WritesApart
<1>10. EarlierIsDone'
  BY <1>1, <1>3, <1>4, <1>6 DEF MemInv, EarlierIsDone
<1>11. AnnouncedBefore'
  BY <1>1, <1>3, <1>4 DEF MemInv, AnnouncedBefore
<1>12. \A w \in Writes : c.write \notin earlier[w]
  BY <1>2 DEF MemInv, EarlierIsDone
<1>13. CopiesAreRecent'
  <2> SUFFICES ASSUME NEW k \in Keys, NEW w \in finished'[k]
               PROVE  /\ announced[k] \notin earlier[w]
                      /\ w \notin unmirrored' => mirrored'[k] \notin earlier[w]
    BY <1>1 DEF CopiesAreRecent
  <2>1. w \in Writes /\ (w \in finished[k] \/ (k = c.key /\ w = c.write))
    BY <1>2, <1>5, MemoryAssumption DEF MemInv, MemTyped, Writes
  <2>2. announced[k] \notin earlier[w]
    BY <1>1, <2>1 DEF MemInv, AnnouncedBefore, CopiesAreRecent
  <2>3. CASE mirrored' = [mirrored EXCEPT ![c.key] = c.write] /\ unmirrored' = unmirrored /\ k = c.key
    <3>1. mirrored'[k] = c.write
      BY <2>3 DEF MemInv, MemTyped
    <3>2. QED
      BY <1>12, <2>1, <2>2, <3>1
  <2>4. CASE mirrored'[k] = mirrored[k] /\ unmirrored \subseteq unmirrored' /\ (k # c.key \/ c.write \in unmirrored')
    <3>1. w \notin unmirrored' => w \in finished[k]
      BY <2>1, <2>4
    <3>2. QED
      BY <2>2, <2>4, <3>1 DEF MemInv, CopiesAreRecent
  <2>5. QED
    BY <1>1, <1>2, <2>3, <2>4 DEF MemInv, MemTyped
<1>14. QED
  BY <1>8, <1>9, <1>10, <1>11, <1>13 DEF MemInv

LEMMA MemStep == MemInv /\ [MemNext]_memVars => MemInv'
<1> SUFFICES ASSUME MemInv, [MemNext]_memVars PROVE MemInv'
  OBVIOUS
<1>1. CASE Remove \/ GetExpired \/ TimePasses \/ UNCHANGED memVars
  <2>1. /\ UNCHANGED <<writes, call, announced, mirrored, unmirrored, finished, earlier>>
        /\ time' = time \/ time' = time + 1
    BY <1>1 DEF Remove, GetExpired, TimePasses, memVars
  <2>2. MemTyped'
    BY <2>1 DEF MemInv, MemTyped
  <2>3. QED
    BY <2>1, <2>2 DEF MemInv, WritesApart, EarlierIsDone, AnnouncedBefore, CopiesAreRecent,
                      InFlight, Done
<1>2. QED
  BY <1>1, BeginSetKeeps, WriteKeeps, AnnounceKeeps, ReturnKeeps DEF MemNext

\* For any number of threads that set and of keys, a listener and a mirror that were told
\* outside the lock are never older than a set() that had returned before the last one
\* began.
THEOREM CopiesAreNeverOlder == MemSpec => []CopiesAreRecent
<1>1. MemInv => CopiesAreRecent
  BY DEF MemInv
<1>2. QED
  BY <1>1, MemStart, MemStep, PTL DEF MemSpec

-----------------------------------------------------------------------------
(* DagScheduler                                                            *)

\* The outcomes that OutcomeExplained admits.
Reason(t) ==
  \/ taskStatus[t] = "completed" /\ Met(t) /\ attempts[t] \in 1 .. MaxAttempts
  \/ taskStatus[t] = "failed" /\ Met(t) /\ attempts[t] = MaxAttempts
  \/ taskStatus[t] = "skipped" /\ attempts[t] = 0 /\ (t \in lateSkip => Met(t))
                               /\ (t \notin lateSkip => ~Met(t))

Behind == nodes \ pending

\* The task whose attempts are not used up.
Executing(c) ==
  /\ taskStatus[c] \in {"running", "failed"} /\ Met(c)
  /\ attempts[c] < MaxAttempts /\ c \notin lateSkip

SchedTyped ==
  /\ nodes \subseteq Tasks /\ batch \subseteq pending /\ pending \subseteq nodes
  /\ taskStatus \in [Tasks -> Statuses] /\ attempts \in [Tasks -> Nat]
  /\ phase \in Phases

\* What run() has not come to is as it was, and so are tasks that are not of the graph;
\* outside of run() there is nothing left.
Untouched ==
  /\ phase \notin {"choosing", "attempting"} => pending = {}
  /\ \A t \in pending : taskStatus[t] = "pending" /\ attempts[t] = 0 /\ t \notin lateSkip
  /\ \A t \in Tasks \ nodes : taskStatus[t] = "pending"

\* The dependencies of a ready task stay completed.
BatchIsMet == \A t \in batch : Met(t)

\* A task that was not skipped for its deadline was skipped with all that was left.
SkippedLast ==
  \A t \in nodes : taskStatus[t] = "skipped" /\ t \notin lateSkip => pending = {} /\ phase # "attempting"

OneExecuting ==
  phase = "attempting" => \E c \in Behind : Executing(c) /\ \A t \in Behind : t # c => Reason(t)

RestExplained == phase \in {"choosing", "returned"} => \A t \in Behind : Reason(t)

DagInv == SchedTyped /\ Untouched /\ BatchIsMet /\ SkippedLast /\ OneExecuting /\ RestExplained

LEMMA MaxAttemptsType == MaxAttempts \in Nat \ {0}
  BY SchedulerAssumption DEF MaxAttempts

LEMMA DagStart == SchedInit => DagInv
<1> SUFFICES ASSUME SchedInit PROVE DagInv
  OBVIOUS
<1>1. SchedTyped
  BY DEF SchedInit, SchedTyped, Statuses, Phases
<1>2. Untouched /\ BatchIsMet /\ SkippedLast /\ OneExecuting /\ RestExplained
  BY DEF SchedInit, Untouched, BatchIsMet, SkippedLast, OneExecuting, RestExplained
<1>3. QED
  BY <1>1, <1>2 DEF DagInv

\* A task keeps its outcome as long as what completed stays completed, and what was
\* skipped for want of a dependency is as it was.
LEMMA ReasonStays ==
  ASSUME UNCHANGED <<nodes, deps>>, NEW t \in nodes, Reason(t),
         taskStatus'[t] = taskStatus[t], attempts'[t] = attempts[t],
         t \in lateSkip' <=> t \in lateSkip,
         \A d \in nodes : taskStatus[d] = "completed" => taskStatus'[d] = "completed",
         taskStatus[t] = "skipped" /\ t \notin lateSkip =>
           \A d \in nodes : taskStatus'[d] = "completed" => taskStatus[d] = "completed"
  PROVE  Reason(t)'
<1>1. Met(t) => Met(t)'
  BY DEF Met, DepsOf
<1>2. taskStatus[t] = "skipped" /\ t \notin lateSkip => ~Met(t)'
  BY DEF Met, DepsOf, Reason
<1>3. QED
  BY <1>1, <1>2 DEF Reason, MaxAttempts

LEMMA GraphKeeps ==
  ASSUME DagInv, Add \/ AddDependency
  PROVE  DagInv'
<1>1. phase = "idle" /\ nodes' \subseteq Tasks /\ nodes \subseteq nodes'
      /\ UNCHANGED <<taskStatus, attempts, pending, batch, phase, lateSkip>>
  BY DEF Add, AddDependency, runVars, DagInv, SchedTyped
<1>2. pending = {} /\ batch = {}
  BY <1>1 DEF DagInv, Untouched, SchedTyped
<1>3. SchedTyped' /\ Untouched' /\ BatchIsMet'
  BY <1>1, <1>2 DEF DagInv, SchedTyped, Untouched, BatchIsMet
<1>4. SkippedLast' /\ OneExecuting' /\ RestExplained'
  BY <1>1, <1>2 DEF SkippedLast, OneExecuting, RestExplained
<1>5. QED
  BY <1>3, <1>4 DEF DagInv

LEMMA StartKeeps ==
  ASSUME DagInv, Start
  PROVE  DagInv'
<1>1. /\ phase \in {"idle", "returned"}
      /\ taskStatus' = [t \in Tasks |-> "pending"] /\ attempts' = [t \in Tasks |-> 0]
      /\ pending' = nodes /\ lateSkip' = {} /\ phase' = "choosing"
      /\ UNCHANGED <<nodes, deps, batch>>
  BY DEF Start, graphVars
<1>2. batch = {}
  BY <1>1 DEF DagInv, Untouched, SchedTyped
<1>3. SchedTyped'
  BY <1>1, <1>2 DEF DagInv, SchedTyped, Statuses, Phases
<1>4. Untouched' /\ BatchIsMet' /\ SkippedLast'
  BY <1>1, <1>2 DEF DagInv, SchedTyped, Untouched, BatchIsMet, SkippedLast
<1>5. OneExecuting' /\ RestExplained'
  BY <1>1 DEF OneExecuting, RestExplained, Behind
<1>6. QED
  BY <1>3, <1>4, <1>5 DEF DagInv

LEMMA ReadBatchKeeps ==
  ASSUME DagInv, ReadBatch
  PROVE  DagInv'
<1>1. phase = "choosing" /\ batch' = Ready
      /\ UNCHANGED <<nodes, deps, taskStatus, attempts, pending, phase, lateSkip>>
  BY DEF ReadBatch, graphVars
<1>2. Ready \subseteq pending /\ \A t \in Ready : Met(t)
  BY DEF Ready, Met
<1>3. \A t : Met(t)' <=> Met(t)
  BY <1>1 DEF Met, DepsOf
<1>4. SchedTyped' /\ Untouched' /\ BatchIsMet' /\ SkippedLast' /\ OneExecuting'
  BY <1>1, <1>2, <1>3 DEF DagInv, SchedTyped, Untouched, BatchIsMet, SkippedLast, OneExecuting
<1>5. RestExplained'
  BY <1>1, <1>3 DEF DagInv, RestExplained, Behind, Reason, MaxAttempts
<1>6. QED
  BY <1>4, <1>5 DEF DagInv

\* Nothing that is left is ready: each task of it lacks a dependency, and none of it will
\* complete any more.
LEMMA SkipRestKeeps ==
  ASSUME DagInv, SkipRest
  PROVE  DagInv'
<1>1. /\ phase = "choosing" /\ batch = {} /\ pending # {} /\ Ready = {}
      /\ taskStatus' = [t \in Tasks |-> IF t \in pending THEN "skipped" ELSE taskStatus[t]]
      /\ pending' = {}
      /\ UNCHANGED <<nodes, deps, attempts, batch, phase, lateSkip>>
  BY DEF SkipRest, graphVars
<1>2. \A d \in nodes : d \in Tasks /\ (taskStatus'[d] = "completed" <=> taskStatus[d] = "completed")
  BY <1>1 DEF DagInv, SchedTyped, Untouched
<1>3. \A t \in nodes : Met(t)' <=> Met(t)
  BY <1>1, <1>2 DEF Met, DepsOf
<1>4. SchedTyped'
  BY <1>1 DEF DagInv, SchedTyped, Statuses
<1>5. Untouched' /\ BatchIsMet' /\ SkippedLast' /\ OneExecuting'
  BY <1>1 DEF DagInv, SchedTyped, Untouched, BatchIsMet, SkippedLast, OneExecuting
<1>6. RestExplained'
  <2> SUFFICES ASSUME NEW t \in nodes PROVE Reason(t)'
    BY <1>1 DEF RestExplained, Behind
  <2>1. CASE t \in pending
    <3>1. ~Met(t)
      BY <1>1, <2>1 DEF DagInv, Untouched, Ready, Met
    <3>2. taskStatus'[t] = "skipped" /\ attempts'[t] = 0 /\ t \notin lateSkip'
      BY <1>1, <1>2, <2>1 DEF DagInv, Untouched
    <3>3. QED
      BY <1>3, <3>1, <3>2 DEF Reason
  <2>2. CASE t \notin pending
    <3>1. Reason(t) /\ taskStatus'[t] = taskStatus[t] /\ attempts'[t] = attempts[t]
      BY <1>1, <1>2, <2>2 DEF DagInv, RestExplained, Behind
    <3>2. QED
      BY <1>1, <1>2, <3>1, ReasonStays
  <2>3. QED
    BY <2>1, <2>2
<1>7. QED
  BY <1>4, <1>5, <1>6 DEF DagInv

LEMMA SkipLateKeeps ==
  ASSUME DagInv, SkipLate
  PROVE  DagInv'
<1>1. PICK t \in batch :
        /\ phase = "choosing" /\ batch' = batch \ {t} /\ pending' = pending \ {t}
        /\ taskStatus' = [taskStatus EXCEPT ![t] = "skipped"] /\ lateSkip' = lateSkip \cup {t}
        /\ UNCHANGED <<nodes, deps, attempts, phase>>
  BY DEF SkipLate, Taken, graphVars
<1>2. /\ t \in pending /\ t \in nodes /\ t \in Tasks /\ Met(t)
      /\ taskStatus[t] = "pending" /\ attempts[t] = 0
  BY DEF DagInv, SchedTyped, Untouched, BatchIsMet
<1>3. taskStatus'[t] = "skipped" /\ \A s \in Tasks : s # t => taskStatus'[s] = taskStatus[s]
  BY <1>1, <1>2 DEF DagInv, SchedTyped
<1>4. \A s \in nodes : s \in Tasks /\ (taskStatus'[s] = "completed" <=> taskStatus[s] = "completed")
  BY <1>2, <1>3 DEF DagInv, SchedTyped
<1>5. \A s \in nodes : Met(s)' <=> Met(s)
  BY <1>1, <1>4 DEF Met, DepsOf
<1>6. SchedTyped'
  BY <1>1, <1>2 DEF DagInv, SchedTyped, Statuses
<1>7. Untouched' /\ BatchIsMet' /\ OneExecuting'
  BY <1>1, <1>2, <1>3, <1>4, <1>5 DEF DagInv, SchedTyped, Untouched, BatchIsMet, OneExecuting
<1>8. SkippedLast'
  BY <1>1, <1>2, <1>3, <1>4 DEF DagInv, SkippedLast
<1>9. RestExplained'
  <2> SUFFICES ASSUME NEW s \in nodes, s \notin pending \/ s = t PROVE Reason(s)'
    BY <1>1 DEF RestExplained, Behind
  <2>1. CASE s = t
    BY <1>1, <1>2, <1>3, <1>5, <2>1 DEF Reason
  <2>2. CASE s # t
    <3>1. Reason(s) /\ taskStatus'[s] = taskStatus[s] /\ attempts'[s] = attempts[s]
          /\ (s \in lateSkip' <=> s \in lateSkip)
      BY <1>1, <1>3, <1>4, <2>2 DEF DagInv, RestExplained, Behind
    <3>2. QED
      BY <1>1, <1>4, <3>1, ReasonStays
  <2>3. QED
    BY <2>1, <2>2
<1>10. QED
  BY <1>6, <1>7, <1>8, <1>9 DEF DagInv

LEMMA StartNodeKeeps ==
  ASSUME DagInv, StartNode
  PROVE  DagInv'
<1>1. PICK t \in batch :
        /\ phase = "choosing" /\ batch' = batch \ {t} /\ pending' = pending \ {t}
        /\ taskStatus' = [taskStatus EXCEPT ![t] = "running"] /\ phase' = "attempting"
        /\ UNCHANGED <<nodes, deps, attempts, lateSkip>>
  BY DEF StartNode, Taken, graphVars
<1>2. /\ t \in pending /\ t \in nodes /\ t \in Tasks /\ Met(t)
      /\ taskStatus[t] = "pending" /\ attempts[t] = 0 /\ t \notin lateSkip
  BY DEF DagInv, SchedTyped, Untouched, BatchIsMet
<1>3. taskStatus'[t] = "running" /\ \A s \in Tasks : s # t => taskStatus'[s] = taskStatus[s]
  BY <1>1, <1>2 DEF DagInv, SchedTyped
<1>4. \A s \in nodes : s \in Tasks /\ (taskStatus'[s] = "completed" <=> taskStatus[s] = "completed")
  BY <1>2, <1>3 DEF DagInv, SchedTyped
<1>5. \A s \in nodes : Met(s)' <=> Met(s)
  BY <1>1, <1>4 DEF Met, DepsOf
<1>6. SchedTyped'
  BY <1>1, <1>2 DEF DagInv, SchedTyped, Statuses, Phases
<1>7. Untouched' /\ BatchIsMet' /\ RestExplained'
  BY <1>1, <1>2, <1>3, <1>4, <1>5 DEF DagInv, SchedTyped, Untouched, BatchIsMet, RestExplained
<1>8. SkippedLast'
  BY <1>1, <1>2, <1>3, <1>4 DEF DagInv, SkippedLast
<1>9. Executing(t)'
  BY <1>1, <1>2, <1>3, <1>5, MaxAttemptsType DEF Executing, MaxAttempts
<1>10. ASSUME NEW s \in Behind', s # t PROVE Reason(s)'
  <2>1. s \in nodes /\ Reason(s) /\ taskStatus'[s] = taskStatus[s] /\ attempts'[s] = attempts[s]
    BY <1>1, <1>3, <1>4, <1>10 DEF DagInv, RestExplained, Behind
  <2>2. QED
    BY <1>1, <1>4, <2>1, ReasonStays
<1>11. OneExecuting'
  BY <1>1, <1>2, <1>9, <1>10 DEF OneExecuting, Behind
<1>12. QED
  BY <1>6, <1>7, <1>8, <1>11 DEF DagInv

LEMMA AttemptKeeps ==
  ASSUME DagInv, AttemptSucceeds \/ AttemptFails
  PROVE  DagInv'
<1>1. PICK t \in Tasks, status \in {"completed", "failed"}, next \in {"attempting", "choosing"} :
        /\ Current(t) /\ Attempted(t, status, next)
        /\ next = "attempting" <=> status = "failed" /\ attempts[t] + 1 < MaxAttempts
  BY DEF AttemptSucceeds, AttemptFails
<1>2. /\ attempts' = [attempts EXCEPT ![t] = @ + 1]
      /\ taskStatus' = [taskStatus EXCEPT ![t] = status]
      /\ phase' = next
      /\ UNCHANGED <<nodes, deps, pending, batch, lateSkip>>
  BY <1>1 DEF Attempted, graphVars
<1>3. PICK c \in Behind : Executing(c) /\ \A s \in Behind : s # c => Reason(s)
  BY <1>1 DEF Current, DagInv, OneExecuting
<1>4. t \in Behind
  BY <1>1 DEF Current, Behind, DagInv, Untouched
<1>5. ~Reason(t)
  BY <1>1, MaxAttemptsType DEF Current, Reason, DagInv, SchedTyped
<1>6. t = c
  BY <1>3, <1>4, <1>5
<1>7. /\ Met(t) /\ attempts[t] \in Nat /\ attempts[t] < MaxAttempts /\ t \notin lateSkip
      /\ taskStatus[t] # "completed" /\ t \in nodes /\ t \notin pending
  BY <1>3, <1>4, <1>6 DEF Executing, DagInv, SchedTyped, Behind
<1>8. /\ taskStatus'[t] = status /\ \A s \in Tasks : s # t => taskStatus'[s] = taskStatus[s]
      /\ attempts'[t] = attempts[t] + 1 /\ \A s \in Tasks : s # t => attempts'[s] = attempts[s]
  BY <1>2 DEF DagInv, SchedTyped
<1>9. \A d \in nodes : d \in Tasks /\ (taskStatus[d] = "completed" => taskStatus'[d] = "completed")
  BY <1>7, <1>8 DEF DagInv, SchedTyped
<1>10. \A s \in nodes : Met(s) => Met(s)'
  BY <1>2, <1>9 DEF Met, DepsOf
<1>11. SchedTyped'
  BY <1>1, <1>2 DEF DagInv, SchedTyped, Statuses, Phases
<1>12. phase = "attempting"
  BY <1>1 DEF Current
<1>13. Untouched' /\ BatchIsMet'
  BY <1>2, <1>7, <1>8, <1>10, <1>12 DEF DagInv, SchedTyped, Untouched, BatchIsMet
<1>14. SkippedLast'
  BY <1>2, <1>8, <1>9, <1>12 DEF DagInv, SkippedLast
<1>15. ASSUME NEW s \in Behind, s # t PROVE Reason(s)'
  <2>1. s \in nodes /\ Reason(s) /\ taskStatus'[s] = taskStatus[s] /\ attempts'[s] = attempts[s]
        /\ ~(taskStatus[s] = "skipped" /\ s \notin lateSkip)
    BY <1>3, <1>6, <1>8, <1>9, <1>12, <1>15 DEF DagInv, Behind, SkippedLast
  <2>2. QED
    BY <1>2, <1>9, <2>1, ReasonStays
<1>16. CASE next = "attempting"
  <2>1. Executing(t)'
    BY <1>1, <1>2, <1>7, <1>8, <1>10, <1>16 DEF Executing, MaxAttempts
  <2>2. OneExecuting' /\ RestExplained'
    BY <1>2, <1>4, <1>15, <1>16, <2>1 DEF OneExecuting, RestExplained, Behind
  <2>3. QED
    BY <1>11, <1>13, <1>14, <2>2 DEF DagInv
<1>17. CASE next = "choosing"
  <2>1. status = "failed" => attempts[t] + 1 = MaxAttempts
    BY <1>1, <1>7, <1>17, MaxAttemptsType
  <2>2. attempts[t] + 1 \in 1 .. MaxAttempts
    BY <1>7, MaxAttemptsType
  <2>3. Reason(t)'
    BY <1>2, <1>7, <1>8, <1>10, <2>1, <2>2 DEF Reason, MaxAttempts
  <2>4. OneExecuting' /\ RestExplained'
    BY <1>2, <1>15, <1>17, <2>3 DEF OneExecuting, RestExplained, Behind
  <2>5. QED
    BY <1>11, <1>13, <1>14, <2>4 DEF DagInv
<1>18. QED
  BY <1>16, <1>17

LEMMA DagStep == DagInv /\ [SchedNext]_schedVars => DagInv'
<1> SUFFICES ASSUME DagInv, [SchedNext]_schedVars PROVE DagInv'
  OBVIOUS
<1>1. CASE Refuse \/ Return \/ Tick \/ UNCHANGED schedVars
  <2>1. /\ UNCHANGED <<nodes, deps, taskStatus, attempts, pending, batch, lateSkip>>
        /\ \/ phase' = phase
           \/ phase' = "refused" /\ phase \in {"idle", "returned"}
           \/ phase' = "returned" /\ phase = "choosing" /\ pending = {}
    BY <1>1 DEF Refuse, Return, Tick, schedVars, graphVars, runVars
  <2>2. \A t : (Met(t)' <=> Met(t)) /\ (Reason(t)' <=> Reason(t)) /\ (Executing(t)' <=> Executing(t))
    BY <2>1 DEF Met, DepsOf, Reason, Executing, MaxAttempts
  <2>3. Behind' = Behind
    BY <2>1 DEF Behind
  <2>4. SchedTyped' /\ Untouched' /\ SkippedLast'
    BY <2>1 DEF DagInv, SchedTyped, Phases, Untouched, SkippedLast
  <2>5. BatchIsMet' /\ OneExecuting' /\ RestExplained'
    BY <2>1, <2>2, <2>3 DEF DagInv, BatchIsMet, OneExecuting, RestExplained
  <2>6. QED
    BY <2>4, <2>5 DEF DagInv
<1>2. QED
  BY <1>1, GraphKeeps, StartKeeps, ReadBatchKeeps, SkipRestKeeps, SkipLateKeeps, StartNodeKeeps,
     AttemptKeeps DEF SchedNext, Work

\* For any graph, priorities, deadlines and retries, and in every run of it, the outcome of
\* each task that run() is through with has its reason.
THEOREM OutcomesAreExplained == SchedSpec => []OutcomeExplained
<1>1. DagInv => OutcomeExplained
  BY DEF DagInv, RestExplained, Behind, Reason, OutcomeExplained
<1>2. QED
  BY <1>1, DagStart, DagStep, PTL DEF SchedSpec

-----------------------------------------------------------------------------
(* DynamicScheduler                                                        *)

\* A run() counts what it executed and has the rest in its queue.
CountOf(c) ==
  /\ serving[c].at \in {"choosing", "executing", "leaving", "returned"} =>
       /\ serving[c].completed + serving[c].failed + Len(serving[c].queue) = began[c]
       /\ began[c] <= Len(accepted)
       /\ \A i \in 1 .. began[c] :
            \/ accepted[i] \in served[c]
            \/ \E k \in 1 .. Len(serving[c].queue) : serving[c].queue[k] = accepted[i]
  /\ serving[c].at = "entered" => serving[c].completed = 0 /\ serving[c].failed = 0
  /\ serving[c].at = "executing" => serving[c].queue # <<>>
  /\ serving[c].at \in {"leaving", "returned"} => serving[c].queue = <<>>
  /\ serving[c].at = "returned" => began[c] <= serving[c].total

CountsMatch == \A c \in Callers : CountOf(c)

RunningIsExecuted ==
  \A t \in Items : itemStatus[t] = "running" =>
    \E c \in Callers : serving[c].at = "executing" /\ Head(serving[c].queue) = t

DynamicInv == DynamicTypeOK /\ CountsMatch /\ RunningIsExecuted

\* What is left of a list without its head.
LEMMA QueueAfter ==
  ASSUME NEW q \in Seq(Items), q # <<>>
  PROVE  /\ Head(q) \in Items /\ Head(q) = q[1] /\ Tail(q) \in Seq(Items)
         /\ Len(q) \in Nat \ {0} /\ Len(Tail(q)) = Len(q) - 1
         /\ \A k \in 1 .. Len(q) : q[k] = Head(q) \/ \E j \in 1 .. Len(Tail(q)) : Tail(q)[j] = q[k]
<1>1. /\ Head(q) \in Items /\ Head(q) = q[1] /\ Tail(q) \in Seq(Items)
      /\ Len(q) \in Nat \ {0} /\ Len(Tail(q)) = Len(q) - 1
  OBVIOUS
<1>2. ASSUME NEW k \in 1 .. Len(q), k # 1
      PROVE  k - 1 \in 1 .. Len(Tail(q)) /\ Tail(q)[k - 1] = q[k]
  BY <1>1, <1>2
<1>3. QED
  BY <1>1, <1>2

\* The end of a task, whatever came of it.
LEMMA SettleKeeps ==
  ASSUME DynamicInv, NEW c \in Callers, TaskSucceeds(c) \/ TaskFails(c)
  PROVE  DynamicInv'
<1> DEFINE q == serving[c].queue
<1>1. /\ serving[c].at = "executing" /\ q \in Seq(Items) /\ q # <<>>
      /\ serving[c] \in Serving /\ serving[c].completed \in Nat /\ serving[c].failed \in Nat
  BY DEF DynamicInv, DynamicTypeOK, CountsMatch, CountOf, TaskSucceeds, TaskFails, Settle, Serving
<1>2. /\ Head(q) \in Items /\ Head(q) = q[1] /\ Tail(q) \in Seq(Items)
      /\ Len(q) \in Nat \ {0} /\ Len(Tail(q)) = Len(q) - 1
      /\ \A k \in 1 .. Len(q) : q[k] = Head(q) \/ \E j \in 1 .. Len(Tail(q)) : Tail(q)[j] = q[k]
  BY <1>1, QueueAfter
<1>a. /\ \/ serving' = [serving EXCEPT ![c] = [at |-> "choosing", queue |-> Tail(q),
                          completed |-> serving[c].completed + 1, failed |-> serving[c].failed,
                          total |-> serving[c].total]]
         \/ serving' = [serving EXCEPT ![c] = [at |-> "choosing", queue |-> Tail(q),
                          completed |-> serving[c].completed, failed |-> serving[c].failed + 1,
                          total |-> serving[c].total]]
      /\ \E status \in {"completed", "failed"} : itemStatus' = [itemStatus EXCEPT ![Head(q)] = status]
      /\ served' = [served EXCEPT ![c] = @ \cup {Head(q)}]
      /\ UNCHANGED <<accepted, isRunning, servings, began>>
  BY <1>1, ZenonT(40) DEF TaskSucceeds, TaskFails, Settle, Serving
<1>3. /\ serving'[c] \in Serving /\ serving'[c].at = "choosing" /\ serving'[c].queue = Tail(q)
      /\ serving'[c].completed + serving'[c].failed = serving[c].completed + serving[c].failed + 1
      /\ \A d \in Callers \ {c} : serving'[d] = serving[d]
      /\ serving' \in [Callers -> Serving]
  <2>1. serving \in [Callers -> Serving] /\ serving[c].total \in Nat
    BY <1>1 DEF DynamicInv, DynamicTypeOK, Serving
  <2>2. PICK m \in Nat, n \in Nat :
          /\ m + n = serving[c].completed + serving[c].failed + 1
          /\ serving' = [serving EXCEPT ![c] = [at |-> "choosing", queue |-> Tail(q), completed |-> m,
                                                failed |-> n, total |-> serving[c].total]]
    <3>1. /\ serving[c].completed + 1 \in Nat /\ serving[c].failed + 1 \in Nat
          /\ serving[c].completed + 1 + serving[c].failed = serving[c].completed + serving[c].failed + 1
          /\ serving[c].completed + (serving[c].failed + 1) = serving[c].completed + serving[c].failed + 1
      BY <1>1
    <3>2. QED
      BY <1>1, <1>a, <3>1, Zenon
  <2> DEFINE settled == [at |-> "choosing", queue |-> Tail(q), completed |-> m,
                         failed |-> n, total |-> serving[c].total]
  <2>3. /\ settled \in Serving /\ settled.at = "choosing" /\ settled.queue = Tail(q)
        /\ settled.completed = m /\ settled.failed = n
    BY <1>2, <2>1 DEF Serving
  <2>4. serving' = [serving EXCEPT ![c] = settled]
    BY <2>2
  <2> HIDE DEF settled
  <2>5. serving'[c] = settled /\ \A d \in Callers \ {c} : serving'[d] = serving[d]
    BY <2>1, <2>4
  <2>6. serving' \in [Callers -> Serving]
    BY <2>1, <2>3, <2>4
  <2>7. QED
    BY <2>2, <2>3, <2>5, <2>6
<1>4. DynamicTypeOK'
  <2>1. itemStatus' \in [Items -> {"pending", "running", "completed", "failed"}]
    BY <1>2, <1>a DEF DynamicInv, DynamicTypeOK
  <2>2. served' \in [Callers -> SUBSET Items]
    BY <1>2, <1>a DEF DynamicInv, DynamicTypeOK
  <2>3. QED
    BY <1>3, <1>a, <2>1, <2>2 DEF DynamicInv, DynamicTypeOK
<1>5. ASSUME NEW d \in Callers, d # c
      PROVE  serving'[d] = serving[d] /\ served'[d] = served[d]
  BY <1>3, <1>5, <1>a DEF DynamicInv, DynamicTypeOK
<1>6. CountsMatch'
  <2> SUFFICES ASSUME NEW d \in Callers
               PROVE  CountOf(d)'
    BY DEF CountsMatch
  <2>1. CASE d # c
    BY <1>5, <1>a, <2>1, SMTT(30) DEF DynamicInv, CountsMatch, CountOf
  <2>2. CASE d = c
    <3>1. /\ serving[c].completed + serving[c].failed + Len(q) = began[c]
          /\ began[c] <= Len(accepted) /\ began[c] \in Nat
          /\ \A i \in 1 .. began[c] : \/ accepted[i] \in served[c]
                                     \/ \E k \in 1 .. Len(q) : q[k] = accepted[i]
      BY <1>1 DEF DynamicInv, CountsMatch, CountOf, DynamicTypeOK
    <3>2. serving'[c].completed + serving'[c].failed + Len(Tail(q)) = began[c]
      <4>1. /\ serving[c].completed \in Nat /\ serving[c].failed \in Nat /\ Len(q) \in Nat
            /\ Len(Tail(q)) = Len(q) - 1
        BY <1>1, <1>2
      <4>2. serving'[c].completed + serving'[c].failed = serving[c].completed + serving[c].failed + 1
        BY <1>3
      <4>3. serving[c].completed + serving[c].failed + Len(q) = began[c]
        BY <3>1
      <4> DEFINE k == Len(q)
                 l == Len(Tail(q))
                 m == serving[c].completed + serving[c].failed
                 n == serving'[c].completed + serving'[c].failed
                 b == began[c]
      <4>4. m \in Nat /\ k \in Nat /\ l = k - 1 /\ n = m + 1 /\ m + k = b
        BY <4>1, <4>2, <4>3
      <4> HIDE DEF k, l, m, n, b
      <4>5. n + l = b
        BY <4>4
      <4> QED
        BY <4>5 DEF n, l, b
    <3>3. served'[c] = served[c] \cup {Head(q)}
      BY <1>a DEF DynamicInv, DynamicTypeOK
    <3>4. ASSUME NEW i \in 1 .. began[c]
          PROVE  \/ accepted[i] \in served'[c]
                 \/ \E k \in 1 .. Len(Tail(q)) : Tail(q)[k] = accepted[i]
      <4>1. CASE accepted[i] \in served[c]
        BY <4>1, <3>3
      <4>2. CASE \E k \in 1 .. Len(q) : q[k] = accepted[i]
        <5>1. PICK k \in 1 .. Len(q) : q[k] = accepted[i]
          BY <4>2
        <5>2. q[k] = Head(q) \/ \E j \in 1 .. Len(Tail(q)) : Tail(q)[j] = q[k]
          BY <1>2, Zenon
        <5>3. QED
          BY <5>1, <5>2, <3>3, Zenon
      <4>3. QED
        BY <4>1, <4>2, <3>1
    <3>5. QED
      BY <2>2, <1>3, <1>a, <3>1, <3>2, <3>4 DEF CountOf
  <2>3. QED
    BY <2>1, <2>2
<1>7. ASSUME NEW t \in Items, itemStatus'[t] = "running"
      PROVE  \E d \in Callers : serving'[d].at = "executing" /\ Head(serving'[d].queue) = t
  <2>1. t # Head(q) /\ itemStatus[t] = "running"
    BY <1>2, <1>7, <1>a DEF DynamicInv, DynamicTypeOK
  <2>2. PICK d \in Callers : serving[d].at = "executing" /\ Head(serving[d].queue) = t
    BY <2>1 DEF DynamicInv, RunningIsExecuted
  <2>3. QED
    BY <2>1, <2>2, <1>5
<1>8. QED
  BY <1>4, <1>6, <1>7 DEF DynamicInv, RunningIsExecuted

LEMMA DynamicStart == DynamicInit => DynamicInv
<1> SUFFICES ASSUME DynamicInit
             PROVE  DynamicInv
  OBVIOUS
<1>1. DynamicTypeOK
  <2>1. Outside \in Serving
    BY DEF Outside, Serving
  <2>2. QED
    <3>1. accepted \in Seq(Items) /\ servings \in Nat /\ isRunning \in BOOLEAN
      <4>1. accepted \in Seq(Items) /\ servings \in Nat
        BY DEF DynamicInit
      <4>2. isRunning \in BOOLEAN
        BY Zenon DEF DynamicInit
      <4> QED
        BY <4>1, <4>2
    <3>2. serving \in [Callers -> Serving]
      BY <2>1 DEF DynamicInit
    <3>3. /\ began \in [Callers -> Nat]
          /\ served \in [Callers -> SUBSET Items]
          /\ itemStatus \in [Items -> {"pending", "running", "completed", "failed"}]
      BY DEF DynamicInit
    <3>4. QED
      BY <3>1, <3>2, <3>3 DEF DynamicTypeOK
<1>2. \A c \in Callers : serving[c].at = "idle"
  BY DEF DynamicInit, Outside
<1>3. \A t \in Items : itemStatus[t] = "pending"
  BY DEF DynamicInit
<1>4. QED
  BY <1>1, <1>2, <1>3 DEF DynamicInv, CountsMatch, CountOf, RunningIsExecuted

LEMMA DynamicStep == DynamicInv /\ [DynamicNext]_dynamicVars => DynamicInv'
<1> SUFFICES ASSUME DynamicInv, [DynamicNext]_dynamicVars
             PROVE  DynamicInv'
  OBVIOUS
<1> USE DEF DynamicInv
<1>1. CASE SubmitItem
  <2> PICK t \in Items : accepted' = Append(accepted, t)
    BY <1>1 DEF SubmitItem
  <2>1. /\ accepted' \in Seq(Items) /\ Len(accepted') = Len(accepted) + 1 /\ Len(accepted) \in Nat
        /\ \A i \in 1 .. Len(accepted) : accepted'[i] = accepted[i]
    BY DEF DynamicTypeOK
  <2>2. DynamicTypeOK'
    BY <1>1, <2>1 DEF SubmitItem, DynamicTypeOK
  <2>3. CountsMatch'
    BY <1>1, <2>1 DEF SubmitItem, CountsMatch, CountOf, DynamicTypeOK
  <2>4. RunningIsExecuted'
    BY <1>1 DEF SubmitItem, RunningIsExecuted
  <2> QED
    BY <2>2, <2>3, <2>4
<1>2. ASSUME NEW c \in Callers, EnterRun(c)
      PROVE  DynamicInv'
  <2>1. DynamicTypeOK'
    <3>1. [Outside EXCEPT !.at = "entered"] \in Serving
      <4>1. Outside \in Serving
        BY DEF Outside, Serving
      <4>2. \A s \in Serving : [s EXCEPT !.at = "entered"] \in Serving
        BY DEF Serving
      <4> QED
        BY <4>1, <4>2
    <3>2. serving' \in [Callers -> Serving] /\ servings' \in Nat
      BY <1>2, <3>1 DEF EnterRun, DynamicTypeOK
    <3>3. isRunning' \in BOOLEAN
      BY <1>2, Zenon DEF EnterRun
    <3>4. QED
      BY <1>2, <3>2, <3>3 DEF EnterRun, DynamicTypeOK
  <2>2. /\ serving'[c].at = "entered" /\ serving'[c].completed = 0 /\ serving'[c].failed = 0
        /\ serving[c].at # "executing"
        /\ \A d \in Callers \ {c} : serving'[d] = serving[d]
        /\ UNCHANGED <<accepted, began, served, itemStatus>>
    BY <1>2 DEF EnterRun, DynamicTypeOK, Outside
  <2>3. CountsMatch' /\ RunningIsExecuted'
    BY <2>2 DEF CountsMatch, CountOf, RunningIsExecuted
  <2>4. QED
    BY <2>1, <2>3
<1>3. ASSUME NEW c \in Callers, CopyTasks(c)
      PROVE  DynamicInv'
  <2>1. Len(accepted) \in Nat
    BY DEF DynamicTypeOK
  <2>2. DynamicTypeOK'
    <3>1. serving' \in [Callers -> Serving]
      BY <1>3, ZenonT(40) DEF CopyTasks, DynamicTypeOK, Serving
    <3>2. began' \in [Callers -> Nat] /\ served' \in [Callers -> SUBSET Items]
      BY <1>3, <2>1 DEF CopyTasks, DynamicTypeOK
    <3>3. QED
      BY <1>3, <3>1, <3>2 DEF CopyTasks, DynamicTypeOK
  <2>3. /\ serving'[c].at = "choosing" /\ serving'[c].queue = accepted
        /\ serving'[c].completed = serving[c].completed /\ serving'[c].failed = serving[c].failed
        /\ began'[c] = Len(accepted) /\ serving[c].at = "entered"
        /\ \A d \in Callers \ {c} : serving'[d] = serving[d] /\ began'[d] = began[d] /\ served'[d] = served[d]
        /\ UNCHANGED <<accepted, itemStatus>>
    BY <1>3 DEF CopyTasks, DynamicTypeOK, Serving
  <2>4. CountsMatch'
    <3>1. /\ serving'[c].completed = 0 /\ serving'[c].failed = 0 /\ accepted' = accepted
          /\ 0 + 0 + Len(accepted) = began'[c] /\ began'[c] <= Len(accepted)
      BY <2>1, <2>3 DEF CountsMatch, CountOf
    <3>2. \A i \in 1 .. began'[c] : \E k \in 1 .. Len(serving'[c].queue) :
            serving'[c].queue[k] = accepted'[i]
      BY <2>3, Zenon
    <3>3. QED
      <4>1. ASSUME NEW d \in Callers, d # c
            PROVE  CountOf(d)'
        BY <2>3, <4>1 DEF CountsMatch, CountOf
      <4>2. CountOf(c)'
        BY <3>1, <3>2, <2>3 DEF CountOf
      <4>3. QED
        BY <4>1, <4>2 DEF CountsMatch
  <2>5. RunningIsExecuted'
    BY <2>3 DEF RunningIsExecuted
  <2>6. QED
    BY <2>2, <2>4, <2>5
<1>4. ASSUME NEW c \in Callers, TakeTask(c)
      PROVE  DynamicInv'
  <2>1. serving[c] \in Serving /\ serving[c].queue \in Seq(Items)
    BY DEF DynamicTypeOK, Serving
  <2>2. /\ serving'[c].queue = serving[c].queue /\ serving'[c].at = "executing"
        /\ serving'[c].completed = serving[c].completed /\ serving'[c].failed = serving[c].failed
        /\ \A d \in Callers \ {c} : serving'[d] = serving[d]
    BY <1>4, <2>1 DEF TakeTask, DynamicTypeOK, Serving
  <2>3. DynamicTypeOK'
    <3>1. Head(serving[c].queue) \in Items
      BY <1>4, <2>1, QueueAfter DEF TakeTask
    <3>2. itemStatus' \in [Items -> {"pending", "running", "completed", "failed"}]
      BY <1>4, <3>1 DEF TakeTask, DynamicTypeOK
    <3>3. serving' \in [Callers -> Serving]
      BY <1>4, <2>1 DEF TakeTask, DynamicTypeOK, Serving
    <3>4. QED
      BY <1>4, <3>2, <3>3 DEF TakeTask, DynamicTypeOK
  <2>4. serving[c].at = "choosing" /\ serving[c].queue # <<>> /\ UNCHANGED <<accepted, began, served>>
    BY <1>4 DEF TakeTask
  <2>5. CountsMatch'
    BY <2>2, <2>4 DEF CountsMatch, CountOf
  <2>6. RunningIsExecuted'
    BY <1>4, <2>1, <2>2 DEF TakeTask, RunningIsExecuted, DynamicTypeOK
  <2>7. QED
    BY <2>3, <2>5, <2>6
<1>5. ASSUME NEW c \in Callers, TaskSucceeds(c)
      PROVE  DynamicInv'
  BY <1>5, SettleKeeps
<1>6. ASSUME NEW c \in Callers, TaskFails(c)
      PROVE  DynamicInv'
  BY <1>6, SettleKeeps
<1>7. ASSUME NEW c \in Callers, LeaveLoop(c)
      PROVE  DynamicInv'
  <2>1. serving[c] \in Serving /\ serving[c].queue \in Seq(Items) /\ Len(accepted) \in Nat
    BY DEF DynamicTypeOK, Serving
  <2>2. /\ serving'[c].queue = serving[c].queue /\ serving'[c].at = "leaving"
        /\ serving'[c].completed = serving[c].completed /\ serving'[c].failed = serving[c].failed
        /\ \A d \in Callers \ {c} : serving'[d] = serving[d]
    BY <1>7, <2>1 DEF LeaveLoop, DynamicTypeOK, Serving
  <2>3. DynamicTypeOK'
    BY <1>7, <2>1 DEF LeaveLoop, DynamicTypeOK, Serving
  <2>4. serving[c].at = "choosing" /\ serving[c].queue = <<>> /\ UNCHANGED <<accepted, began, served>>
    BY <1>7 DEF LeaveLoop
  <2>5. CountsMatch'
    BY <2>2, <2>4 DEF CountsMatch, CountOf
  <2>6. RunningIsExecuted'
    BY <1>7, <2>1, <2>2 DEF LeaveLoop, RunningIsExecuted, DynamicTypeOK
  <2>7. QED
    BY <2>3, <2>5, <2>6
<1>8. ASSUME NEW c \in Callers, ReturnStats(c)
      PROVE  DynamicInv'
  <2>1. serving[c] \in Serving /\ serving[c].queue \in Seq(Items) /\ Len(accepted) \in Nat
    BY DEF DynamicTypeOK, Serving
  <2>2. /\ serving'[c].queue = serving[c].queue /\ serving'[c].at = "returned"
        /\ serving'[c].completed = serving[c].completed /\ serving'[c].failed = serving[c].failed
        /\ serving'[c].total = Len(accepted)
        /\ \A d \in Callers \ {c} : serving'[d] = serving[d]
    BY <1>8, <2>1 DEF ReturnStats, DynamicTypeOK, Serving
  <2>3. DynamicTypeOK'
    BY <1>8, <2>1 DEF ReturnStats, DynamicTypeOK, Serving
  <2>4. serving[c].at = "leaving" /\ UNCHANGED <<accepted, began, served>>
    BY <1>8 DEF ReturnStats
  <2>5. CountsMatch'
    <3>1. /\ serving[c].completed + serving[c].failed + Len(serving[c].queue) = began[c]
          /\ began[c] <= Len(accepted) /\ serving[c].queue = <<>>
      BY <2>4 DEF CountsMatch, CountOf
    <3>2. began[c] <= serving'[c].total /\ serving'[c].queue = <<>>
      BY <3>1, <2>2
    <3>3. QED
      BY <3>1, <3>2, <2>2, <2>4 DEF CountsMatch, CountOf
  <2>6. RunningIsExecuted'
    BY <1>8, <2>1, <2>2 DEF ReturnStats, RunningIsExecuted, DynamicTypeOK
  <2>7. QED
    BY <2>3, <2>5, <2>6
<1>9. CASE UNCHANGED dynamicVars
  BY <1>9 DEF dynamicVars, DynamicTypeOK, CountsMatch, CountOf, RunningIsExecuted
<1>10. QED
  BY <1>1, <1>2, <1>3, <1>4, <1>5, <1>6, <1>7, <1>8, <1>9 DEF DynamicNext

\* DynamicScheduler.run(), whatever is submitted meanwhile and however many threads run:
\* it executes all it found, counts each task once, and leaves none reading "running".
THEOREM RunsServeTheirTasks == DynamicSpec => []RunServesItsTasks
<1>1. DynamicInv => RunServesItsTasks
  <2> SUFFICES ASSUME DynamicInv
               PROVE  RunServesItsTasks
    OBVIOUS
  <2>1. ASSUME NEW c \in Callers, serving[c].at = "returned"
        PROVE  /\ \A i \in 1 .. began[c] : accepted[i] \in served[c]
               /\ serving[c].completed + serving[c].failed = began[c]
               /\ began[c] <= serving[c].total
    <3>1. serving[c].queue = <<>> /\ Len(serving[c].queue) = 0
      BY <2>1 DEF DynamicInv, CountsMatch, CountOf
    <3>2. serving[c].completed \in Nat /\ serving[c].failed \in Nat
      BY DEF DynamicInv, DynamicTypeOK, Serving
    <3>3. QED
      BY <2>1, <3>1, <3>2 DEF DynamicInv, CountsMatch, CountOf
  <2>2. QED
    BY <2>1 DEF DynamicInv, RunningIsExecuted, RunServesItsTasks
<1>2. QED
  BY <1>1, DynamicStart, DynamicStep, PTL DEF DynamicSpec

-----------------------------------------------------------------------------
(* The types of the four together                                          *)

LEMMA SchedTypeStart == SchedInit => SchedTypeOK
  BY SchedulerAssumption DEF SchedInit, SchedTypeOK, Statuses, Phases

\* A step of the graph or of run() keeps the types.
LEMMA SchedTypeStep == SchedTypeOK /\ [SchedNext]_schedVars => SchedTypeOK'
<1> SUFFICES ASSUME SchedTypeOK, [SchedNext]_schedVars PROVE SchedTypeOK'
  OBVIOUS
<1> USE DEF SchedTypeOK, graphVars, runVars
<1>1. CASE Add
  <2>0. PICK t \in Tasks \ nodes : \E ds \in SUBSET (nodes \cup {t}) :
          /\ nodes' = nodes \cup {t} /\ deps' = deps \cup {<<t, d>> : d \in ds}
          /\ repeated' \in {repeated, IF ds = {} THEN repeated ELSE repeated \cup {t}}
          /\ \E p \in Priorities : prio' = [prio EXCEPT ![t] = p]
          /\ \E l \in Deadlines \cup {NoDeadline} : deadline' = [deadline EXCEPT ![t] = l]
          /\ UNCHANGED runVars
    BY <1>1 DEF Add
  <2>1. PICK ds \in SUBSET (nodes \cup {t}) :
          /\ nodes' = nodes \cup {t} /\ deps' = deps \cup {<<t, d>> : d \in ds}
          /\ repeated' \in {repeated, IF ds = {} THEN repeated ELSE repeated \cup {t}}
          /\ \E p \in Priorities : prio' = [prio EXCEPT ![t] = p]
          /\ \E l \in Deadlines \cup {NoDeadline} : deadline' = [deadline EXCEPT ![t] = l]
          /\ UNCHANGED runVars
    BY <2>0
  <2>2. prio' \in [Tasks -> Priorities] /\ deadline' \in [Tasks -> Deadlines \cup {NoDeadline}]
    BY <2>1
  <2>3. deps' \subseteq nodes' \X nodes' /\ repeated' \subseteq nodes' /\ nodes' \subseteq Tasks
        /\ nodes \subseteq nodes'
    BY <2>1
  <2>4. QED
    BY <2>1, <2>2, <2>3
<1>2. CASE AddDependency
  BY <1>2 DEF AddDependency
<1>3. CASE Refuse
  BY <1>3 DEF Refuse, Phases
<1>4. CASE Start
  <2>1. taskStatus' \in [Tasks -> Statuses] /\ attempts' \in [Tasks -> Nat]
    BY <1>4 DEF Start, Statuses
  <2>2. runs' \in 0 .. MaxRuns /\ phase' \in Phases
    BY <1>4, SchedulerAssumption DEF Start, Phases
  <2>3. QED
    BY <1>4, <2>1, <2>2 DEF Start
<1>5. CASE ReadBatch
  <2>1. batchTime' \in 0 .. clock /\ batch' \subseteq pending
    BY <1>5, SchedulerAssumption DEF ReadBatch, Ready
  <2>2. QED
    BY <1>5, <2>1 DEF ReadBatch
<1>6. CASE SkipRest
  <2>1. taskStatus' \in [Tasks -> Statuses]
    BY <1>6 DEF SkipRest, Statuses
  <2>2. QED
    BY <1>6, <2>1 DEF SkipRest
<1>7. CASE SkipLate \/ StartNode
  BY <1>7 DEF SkipLate, StartNode, Taken, Statuses, Phases
<1>8. ASSUME NEW t \in Tasks, NEW s \in Statuses, NEW next \in Phases, Attempted(t, s, next)
      PROVE  SchedTypeOK'
  <2>1. taskStatus' \in [Tasks -> Statuses] /\ attempts' \in [Tasks -> Nat]
    BY <1>8 DEF Attempted
  <2>2. QED
    BY <1>8, <2>1 DEF Attempted
<1>9. CASE AttemptSucceeds \/ AttemptFails
  BY <1>8, <1>9 DEF AttemptSucceeds, AttemptFails, Statuses, Phases
<1>10. CASE Return
  BY <1>10 DEF Return, Phases
<1>11. CASE Tick
  <2>1. clock' \in 0 .. MaxClock /\ batchTime \in 0 .. clock'
    BY <1>11, SchedulerAssumption DEF Tick
  <2>2. QED
    BY <1>11, <2>1 DEF Tick
<1>12. CASE UNCHANGED schedVars
  BY <1>12 DEF schedVars
<1>13. QED
  BY <1>1, <1>2, <1>3, <1>4, <1>5, <1>6, <1>7, <1>9, <1>10, <1>11, <1>12 DEF SchedNext, Work

LEMMA TeamTypes == TeamInv => TeamTypeOK
<1> SUFFICES ASSUME TeamInv PROVE TeamTypeOK
  OBVIOUS
<1>1. ASSUME NEW r \in Runners PROVE Cardinality(running[r]) <= 1
  <2>1. CASE running[r] = {}
    BY <2>1, FS_EmptySet
  <2>2. CASE running[r] # {}
    <3>1. PICK j : running[r] = {j}
      BY <2>2 DEF TeamInv, ListIsRead
    <3>2. Cardinality(running[r]) = 1
      BY <3>1, FS_Singleton, Zenon
    <3>3. QED
      BY <3>2, SMTT(30)
  <2>3. QED
    BY <2>1, <2>2
<1>2. QED
  BY <1>1 DEF TeamInv, TeamTyped, TeamTypeOK

\* A region is finite, and never over its capacity.
RegionFits ==
  /\ region \in [Keys -> Entry]
  /\ IsFiniteSet(Present(region)) /\ Cardinality(Present(region)) <= Capacity

MemBounded == MemTypeOK /\ RegionFits

LEMMA MemBoundedStart == MemInit => MemBounded
<1> SUFFICES ASSUME MemInit PROVE MemBounded
  OBVIOUS
<1> USE MemoryAssumption
<1>1. Present(region) = {} /\ region \in [Keys -> Entry]
  BY DEF MemInit, Present, NoEntry, Entry
<1>2. RegionFits
  BY <1>1, FS_EmptySet DEF RegionFits
<1>3. Idle \in SetCall
  BY DEF Idle, SetCall
<1>4. QED
  BY <1>2, <1>3 DEF MemInit, MemBounded, MemTypeOK, RegionFits

\* Entries that go leave a region that fits.
LEMMA FewerFit ==
  ASSUME RegionFits, region' \in [Keys -> Entry], Present(region') \subseteq Present(region)
  PROVE  RegionFits'
<1>1. Present(region)' = Present(region')
  BY DEF Present
<1>2. IsFiniteSet(Present(region')) /\ Cardinality(Present(region')) <= Cardinality(Present(region))
  BY FS_Subset DEF RegionFits
<1>3. Cardinality(Present(region')) \in Nat /\ Cardinality(Present(region)) \in Nat
  BY <1>2, FS_CardinalityType DEF RegionFits
<1>4. QED
  BY <1>1, <1>2, <1>3, MemoryAssumption DEF RegionFits

\* A write makes one entry more at most, and then the oldest one goes.
LEMMA WriteFits ==
  ASSUME RegionFits, NEW k \in Keys, NEW e \in Entry, region' \in Evicted([region EXCEPT ![k] = e])
  PROVE  RegionFits'
<1> DEFINE r == [region EXCEPT ![k] = e]
           P == Present(r)
<1>1. r \in [Keys -> Entry] /\ \A j \in Keys : j # k => r[j] = region[j]
  BY DEF RegionFits
<1>2. region' \in Evicted(r)
  OBVIOUS
<1> HIDE DEF r
<1>3. P \subseteq Present(region) \cup {k}
  BY <1>1 DEF Present
<1>4. /\ IsFiniteSet(Present(region) \cup {k})
      /\ Cardinality(Present(region) \cup {k}) <= Capacity + 1
      /\ Cardinality(Present(region) \cup {k}) \in Nat
  <2>1. IsFiniteSet(Present(region)) /\ Cardinality(Present(region)) \in Nat
    BY FS_CardinalityType DEF RegionFits
  <2>2. /\ IsFiniteSet(Present(region) \cup {k})
        /\ \/ Cardinality(Present(region) \cup {k}) = Cardinality(Present(region))
           \/ Cardinality(Present(region) \cup {k}) = Cardinality(Present(region)) + 1
    BY <2>1, FS_AddElement
  <2>3. QED
    BY <2>1, <2>2, MemoryAssumption DEF RegionFits
<1>5. IsFiniteSet(P) /\ Cardinality(P) <= Capacity + 1 /\ Cardinality(P) \in Nat
  BY <1>3, <1>4, FS_Subset, FS_CardinalityType, MemoryAssumption
<1>6. CASE Cardinality(P) <= Capacity
  <2>1. region' = r
    BY <1>2, <1>6 DEF Evicted
  <2>2. Present(region)' = P
    BY <2>1 DEF Present
  <2>3. QED
    BY <1>1, <1>5, <1>6, <2>1, <2>2 DEF RegionFits
<1>7. CASE ~(Cardinality(P) <= Capacity)
  <2>1. PICK o \in P : region' = [r EXCEPT ![o] = NoEntry]
    BY <1>2, <1>7 DEF Evicted
  <2>2. NoEntry \in Entry /\ o \in Keys
    BY <2>1, MemoryAssumption DEF NoEntry, Entry, Present
  <2>3. region' \in [Keys -> Entry]
    BY <1>1, <2>1, <2>2
  <2>4. Present(region)' = P \ {o}
    BY <1>1, <2>1, <2>2 DEF Present
  <2>5. IsFiniteSet(P \ {o}) /\ Cardinality(P \ {o}) = Cardinality(P) - 1
    BY <1>5, <2>1, FS_RemoveElement
  <2>6. QED
    BY <1>5, <2>3, <2>4, <2>5, MemoryAssumption DEF RegionFits
<1>8. QED
  BY <1>6, <1>7

\* A step of the shared memory keeps the types and the capacity.
LEMMA MemBoundedStep == MemInv /\ MemBounded /\ [MemNext]_memVars => MemBounded'
<1> SUFFICES ASSUME MemInv, MemBounded, [MemNext]_memVars PROVE MemBounded'
  OBVIOUS
<1> USE MemoryAssumption
<1>0. MemTypeOK /\ RegionFits
  BY DEF MemBounded
<1>a. MemTypeOK' /\ RegionFits' => MemBounded'
  BY DEF MemBounded
<1>b. ASSUME UNCHANGED region PROVE RegionFits'
  BY <1>0, <1>b DEF RegionFits, Present
<1>1. ASSUME NEW a \in Agents, BeginSet(a) PROVE MemBounded'
  <2>1. PICK k \in Keys :
          /\ call' = [call EXCEPT ![a] = [at |-> "timed", key |-> k, time |-> time, write |-> 0,
                                          seen |-> finished[k]]]
          /\ UNCHANGED <<time, region, writes, announced, mirrored, unmirrored, finished, earlier>>
    BY <1>1 DEF BeginSet
  <2>2. finished[k] \subseteq Writes
    BY <1>0 DEF MemTypeOK, Writes
  <2> DEFINE v == [at |-> "timed", key |-> k, time |-> time, write |-> 0, seen |-> finished[k]]
  <2>3. v \in SetCall /\ call' = [call EXCEPT ![a] = v]
    BY <1>0, <2>1, <2>2 DEF MemTypeOK, SetCall
  <2> HIDE DEF v
  <2>4. call' \in [Agents -> SetCall]
    BY <1>0, <2>3 DEF MemTypeOK
  <2>5. QED
    BY <1>0, <1>a, <1>b, <2>1, <2>4 DEF MemTypeOK, RegionFits
<1>2. ASSUME NEW a \in Agents, WriteUnderLock(a) PROVE MemBounded'
  <2>1. /\ writes < MaxWrites /\ writes' = writes + 1
        /\ region' \in Evicted([region EXCEPT ![call[a].key] = [write |-> writes + 1, at |-> call[a].time]])
        /\ earlier' = [earlier EXCEPT ![writes + 1] = call[a].seen]
        /\ call' = [call EXCEPT ![a].at = "announcing", ![a].write = writes + 1]
        /\ UNCHANGED <<time, announced, mirrored, unmirrored, finished>>
    BY <1>2 DEF WriteUnderLock
  <2>2. call[a] \in SetCall /\ writes \in 0 .. MaxWrites /\ writes' \in 1 .. MaxWrites
    BY <1>0, <2>1 DEF MemTypeOK
  <2>3. call[a].key \in Keys /\ call[a].seen \in SUBSET Writes
        /\ [write |-> writes + 1, at |-> call[a].time] \in Entry
    BY <2>1, <2>2 DEF SetCall, Entry
  <2>4. RegionFits'
    BY <1>0, <2>1, <2>3, WriteFits
  <2>5. call' \in [Agents -> SetCall]
    <3> DEFINE v == [call[a] EXCEPT !.at = "announcing", !.write = writes + 1]
    <3>1. v \in SetCall
      <4>1. writes + 1 \in 0 .. MaxWrites
        BY <2>1, <2>2
      <4>2. QED
        BY <2>2, <4>1, Zenon DEF SetCall
    <3>2. call' = [call EXCEPT ![a] = v]
      BY <1>0, <2>1 DEF MemTypeOK
    <3> HIDE DEF v
    <3>3. QED
      BY <1>0, <3>1, <3>2 DEF MemTypeOK
  <2>6. earlier' \in [Writes -> SUBSET Writes]
    BY <1>0, <2>1, <2>3 DEF MemTypeOK
  <2>7. \A S \in SUBSET (1 .. writes) : S \subseteq 1 .. writes'
    BY <2>1, <2>2
  <2>8. finished' \in [Keys -> SUBSET (1 .. writes')] /\ unmirrored' \subseteq 1 .. writes'
    BY <1>0, <2>1, <2>7 DEF MemTypeOK
  <2>9. QED
    BY <1>0, <1>a, <2>1, <2>2, <2>4, <2>5, <2>6, <2>8 DEF MemTypeOK, RegionFits
<1>3. ASSUME NEW a \in Agents, Announce(a) PROVE MemBounded'
  <2>1. /\ announced' = [announced EXCEPT ![call[a].key] = call[a].write]
        /\ call' = [call EXCEPT ![a].at = "mirroring"]
        /\ UNCHANGED <<time, region, writes, mirrored, unmirrored, finished, earlier>>
    BY <1>3 DEF Announce
  <2>2. call' \in [Agents -> SetCall] /\ announced' \in [Keys -> 0 .. MaxWrites]
    BY <1>0, <2>1 DEF MemTypeOK, SetCall
  <2>3. QED
    BY <1>0, <1>a, <1>b, <2>1, <2>2 DEF MemTypeOK, RegionFits
<1>4. ASSUME NEW a \in Agents, Mirror(a) \/ MirrorFails(a) PROVE MemBounded'
  <2>1. /\ call[a].at = "mirroring" /\ call' = [call EXCEPT ![a] = Idle]
        /\ finished' = [finished EXCEPT ![call[a].key] = @ \cup {call[a].write}]
        /\ unmirrored' = unmirrored \/ unmirrored' = unmirrored \cup {call[a].write}
        /\ mirrored' = mirrored \/ mirrored' = [mirrored EXCEPT ![call[a].key] = call[a].write]
        /\ UNCHANGED <<time, region, writes, announced, earlier>>
    BY <1>4 DEF Mirror, MirrorFails, Returned
  <2>2. call[a].write \in 1 .. writes /\ call[a] \in SetCall
    BY <1>0, <2>1 DEF MemInv, WritesApart, InFlight, MemTypeOK
  <2>3. Idle \in SetCall
    BY DEF Idle, SetCall
  <2>4. call' \in [Agents -> SetCall]
    BY <1>0, <2>1, <2>3 DEF MemTypeOK
  <2>5. mirrored' \in [Keys -> 0 .. MaxWrites]
    BY <1>0, <2>1, <2>2 DEF MemTypeOK, SetCall
  <2>6. finished' \in [Keys -> SUBSET (1 .. writes)] /\ unmirrored' \subseteq 1 .. writes
    BY <1>0, <2>1, <2>2 DEF MemTypeOK
  <2>7. QED
    BY <1>0, <1>a, <1>b, <2>1, <2>4, <2>5, <2>6 DEF MemTypeOK, RegionFits
<1>5. CASE Remove \/ GetExpired
  <2>1. /\ UNCHANGED <<time, writes, call, announced, mirrored, unmirrored, finished, earlier>>
        /\ region' \in [Keys -> Entry] /\ \A k \in Keys : region'[k] \in {region[k], NoEntry}
    BY <1>0, <1>5 DEF RegionFits, Remove, GetExpired, Present, NoEntry, Entry
  <2>2. Present(region') \subseteq Present(region)
    BY <2>1 DEF Present
  <2>3. RegionFits'
    BY <1>0, <2>1, <2>2, FewerFit
  <2>4. QED
    BY <1>0, <1>a, <2>1, <2>3 DEF MemTypeOK, RegionFits
<1>6. CASE TimePasses \/ UNCHANGED memVars
  <2>1. /\ UNCHANGED <<region, writes, call, announced, mirrored, unmirrored, finished, earlier>>
        /\ time' \in 0 .. MaxTime
    BY <1>0, <1>6 DEF TimePasses, memVars, MemTypeOK
  <2>2. QED
    BY <1>0, <1>a, <1>b, <2>1 DEF MemTypeOK, RegionFits
<1>7. QED
  BY <1>1, <1>2, <1>3, <1>4, <1>5, <1>6 DEF MemNext

\* Whichever part is driven, the others stand still, so that each is as it is alone.
LEMMA AgentsParts ==
  [AgentsNext]_agentsVars =>
    [SchedNext]_schedVars /\ [DynamicNext]_dynamicVars /\ [TeamNext]_teamVars /\ [MemNext]_memVars
<1> SUFFICES ASSUME [AgentsNext]_agentsVars
             PROVE  [SchedNext]_schedVars /\ [DynamicNext]_dynamicVars /\ [TeamNext]_teamVars /\ [MemNext]_memVars
  OBVIOUS
<1>1. CASE AgentsNext
  BY <1>1 DEF AgentsNext
<1>2. CASE UNCHANGED agentsVars
  BY <1>2 DEF agentsVars
<1>3. QED
  BY <1>1, <1>2

\* A behaviour of the four together is one of each of them, so that each theorem above
\* holds of the composition that is checked.
THEOREM AgentsCompose == AgentsSpec => SchedSpec /\ DynamicSpec /\ TeamSpec /\ MemSpec
<1>1. AgentsInit => SchedInit /\ DynamicInit /\ TeamInit /\ MemInit
  BY DEF AgentsInit
<1>2. QED
  BY <1>1, AgentsParts, PTL DEF AgentsSpec, SchedSpec, DynamicSpec, TeamSpec, MemSpec

\* For any graph, tasks, threads and keys, all that the agents schedule and share keeps its
\* type; a batch is part of what run() has left, a thread is at one task, and a region of
\* the memory never outgrows its capacity.
THEOREM AgentsTypeCorrect == AgentsSpec => []AgentsTypeOK
<1> DEFINE I == SchedTypeOK /\ DynamicInv /\ TeamInv /\ MemInv /\ MemBounded
<1>1. AgentsInit => I
  BY SchedTypeStart, DynamicStart, TeamStart, MemStart, MemBoundedStart DEF AgentsInit
<1>2. I /\ [AgentsNext]_agentsVars => I'
  BY AgentsParts, SchedTypeStep, DynamicStep, TeamStep, MemStep, MemBoundedStep
<1>3. I => AgentsTypeOK
  BY TeamTypes DEF AgentsTypeOK, DynamicInv, MemBounded
<1> HIDE DEF I
<1>4. QED
  BY <1>1, <1>2, <1>3, PTL DEF AgentsSpec
=============================================================================
