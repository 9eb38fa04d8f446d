---------------------------- MODULE ModelRegistry ----------------------------
(***************************************************************************)
(* cadgenesis.platform.registry.ModelRegistry for one model name: the      *)
(* versions registered under the name, the aliases and environments that   *)
(* point at them, and the deployment log, held in memory and rewritten as  *)
(* one index file after every change.                                      *)
(*                                                                         *)
(* Every operation runs under self._lock, so it is one step.  Its last     *)
(* part, _persist(), writes a temporary file and renames it: it can raise  *)
(* (the memory keeps the change, the file does not have it), and the       *)
(* process can die before or after the rename.  A new process loads the    *)
(* file; when the file cannot be read it starts empty.                     *)
(*                                                                         *)
(* A version string is abstracted to what parse_version and equality see:  *)
(* its first number and a tag for the rest of its spelling ("" is "vN").   *)
(***************************************************************************)
EXTENDS Naturals, Sequences, SequencesExt, FiniteSets

CONSTANTS
  Tags,          \* the spellings after a version's first number
  Explicit,      \* the versions that callers name themselves
  Labels,        \* the aliases that callers move with set_alias
  Environments,  \* the environments of promote and rollback
  MaxVersions,   \* bound: versions registered
  MaxEvents,     \* bound: entries of the deployment log
  MaxFaults      \* bound: failed writes and crashes

Version == [major : Nat, tag : Tags]
None == [major |-> 0, tag |-> "none"]
Aliases == {"latest"} \cup Labels \cup Environments

ASSUME TagAssumption == {"", "none"} \subseteq Tags
ASSUME ExplicitAssumption == Explicit \subseteq Version \ {None}
ASSUME BoundAssumption == {MaxVersions, MaxEvents, MaxFaults} \subseteq Nat

VARIABLES
  mem,    \* the three dictionaries of the running process
  disk,   \* the content of index.json
  up,     \* a process is running
  acked,  \* ghost: what the last call that returned recorded, or the empty load did
  faults  \* ghost: the failed writes and crashes so far

vars == <<mem, disk, up, acked, faults>>

Event == [version : Version, env : Environments, status : {"promoted", "rolled_back"}]
Index == [versions : SUBSET (Version \ {None}), alias : [Aliases -> Version], log : Seq(Event)]
Record == [versions : SUBSET (Version \ {None}), log : Seq(Event)]
EmptyIndex == [versions |-> {}, alias |-> [a \in Aliases |-> None], log |-> <<>>]

Init ==
  /\ mem = EmptyIndex
  /\ disk = EmptyIndex
  /\ up = TRUE
  /\ acked = [versions |-> {}, log |-> <<>>]
  /\ faults = 0

-----------------------------------------------------------------------------
(* _next_version, get                                                      *)

Majors(idx) == {v.major : v \in idx.versions}

\* "v1", or one more than the highest first number in use.
NextVersion(idx) ==
  [major |-> IF idx.versions = {} THEN 1
             ELSE (CHOOSE m \in Majors(idx) : \A n \in Majors(idx) : n <= m) + 1,
   tag |-> ""]

\* The versions get(alias) may answer: the alias, or a version of highest number.
Resolve(idx, a) ==
  IF idx.alias[a] # None
  THEN {idx.alias[a]} \cap idx.versions
  ELSE {v \in idx.versions : \A w \in idx.versions : w.major <= v.major}

-----------------------------------------------------------------------------
(* _persist, _load and the life of the process                             *)

Saved(new) ==
  /\ mem' = new
  /\ disk' = new
  /\ acked' = [versions |-> new.versions, log |-> new.log]
  /\ UNCHANGED <<up, faults>>

Fault == faults < MaxFaults /\ faults' = faults + 1 /\ UNCHANGED acked

\* Mutant of Persist: the index file is rewritten in place.
PersistInPlace(new) ==
  \/ Saved(new)
  \/ Fault /\ mem' = EmptyIndex /\ disk' = EmptyIndex /\ up' = FALSE

\* The memory is changed to `new`; then the temporary file is written and renamed
\* (the call returns), or that raises, or the process dies after the rename.
Persist(new) ==
  \/ Saved(new)
  \/ Fault /\ mem' = new /\ UNCHANGED <<disk, up>>
  \/ Fault /\ mem' = EmptyIndex /\ disk' = new /\ up' = FALSE

\* The process dies at any other moment, before the rename included.
Crash ==
  /\ up
  /\ Fault
  /\ mem' = EmptyIndex /\ up' = FALSE
  /\ UNCHANGED disk

Restart ==
  /\ ~up
  /\ up' = TRUE
  /\ \/ mem' = disk /\ UNCHANGED acked
     \/ mem' = EmptyIndex /\ acked' = [versions |-> {}, log |-> <<>>]
  /\ UNCHANGED <<disk, faults>>

-----------------------------------------------------------------------------
(* register, set_alias, promote, rollback                                  *)

Registered(idx, v) ==
  [idx EXCEPT !.versions = @ \cup {v}, !.alias["latest"] = v]

\* A version that is there already is refused with ValueError.
Register ==
  /\ up
  /\ Cardinality(mem.versions) < MaxVersions
  /\ \E v \in Explicit \cup {NextVersion(mem)} :
       v \notin mem.versions /\ Persist(Registered(mem, v))

SetAlias(a) ==
  /\ up
  /\ \E v \in mem.versions : Persist([mem EXCEPT !.alias[a] = v])

Deployed(idx, e, v, status) ==
  [idx EXCEPT !.alias[e] = v,
              !.log = Append(@, [version |-> v, env |-> e, status |-> status])]

Promote(e) ==
  /\ up
  /\ Len(mem.log) < MaxEvents
  /\ \E v \in mem.versions : Persist(Deployed(mem, e, v, "promoted"))

\* The positions in the log of an environment's entries, and of its promotions:
\* rollbacks are not among the latter.
EventsOf(idx, e) == {i \in DOMAIN idx.log : idx.log[i].env = e}
Promotions(idx, e) == {i \in EventsOf(idx, e) : idx.log[i].status = "promoted"}

\* Mutant of LastButOne: history[-1] for history[-2].
LastOne(S) == {i \in S : \A j \in S : j <= i}

\* history[-2]: the position with one later position, if there are two.
LastButOne(S) == {i \in S : Cardinality({j \in S : j > i}) = 1}

\* With fewer than two promotions the call returns None and changes nothing.
Rollback(e) ==
  /\ up
  /\ Len(mem.log) < MaxEvents
  /\ \E i \in LastButOne(Promotions(mem, e)) :
       Persist(Deployed(mem, e, mem.log[i].version, "rolled_back"))

Next ==
  \/ Register
  \/ \E a \in Labels : SetAlias(a)
  \/ \E e \in Environments : Promote(e) \/ Rollback(e)
  \/ Crash
  \/ Restart

Spec == Init /\ [][Next]_vars

-----------------------------------------------------------------------------
(* Properties                                                              *)

TypeOK ==
  /\ mem \in Index
  /\ disk \in Index
  /\ up \in BOOLEAN
  /\ acked \in Record
  /\ faults \in 0 .. MaxFaults

\* Every alias and environment that is set names a registered version, and so
\* does every entry of the log: get() never answers None for a model that has
\* versions, in this process or in one that loads the file.
Resolvable(idx) ==
  /\ \A a \in Aliases : idx.alias[a] # None => idx.alias[a] \in idx.versions
  /\ idx.versions # {} => \A a \in Aliases : Resolve(idx, a) # {}
  /\ \A i \in DOMAIN idx.log : idx.log[i].version \in idx.versions

AlwaysResolvable == Resolvable(mem) /\ Resolvable(disk)

\* The automatic version number is never taken, whatever versions were named by
\* hand: register() without a version cannot raise "already registered".
NextIsFresh == NextVersion(mem) \notin mem.versions

\* An environment runs the version of its last log entry, after any failed write,
\* crash and reload (promote and rollback move the alias and write the log).
LogExplains(idx) ==
  \A e \in Environments \ (Labels \cup {"latest"}) :
    \/ EventsOf(idx, e) = {} /\ idx.alias[e] = None
    \/ \E i \in EventsOf(idx, e) :
         (\A j \in EventsOf(idx, e) : j <= i) /\ idx.alias[e] = idx.log[i].version

LogExplainsEnvironments == LogExplains(mem) /\ LogExplains(disk)

\* What a call that returned normally recorded is still in the file, whatever
\* failed or crashed since, unless a process found the file unreadable.
AckedDurable ==
  /\ acked.versions \subseteq disk.versions
  /\ IsPrefix(acked.log, disk.log)

\* Both: promote() and rollback() are accounted for, and nothing acknowledged is lost.
LogIsKept == LogExplainsEnvironments /\ AckedDurable

\* The step is rollback(e) in a process that goes on.
RollsBack(e) ==
  /\ up /\ up'
  /\ Len(mem'.log) = Len(mem.log) + 1
  /\ Last(mem'.log).env = e /\ Last(mem'.log).status = "rolled_back"

\* What the environment ran before its last deployment.
BeforeLast(e) ==
  LET events == EventsOf(mem, e)
  IN {mem.log[i].version : i \in {k \in events : \E l \in events : l > k /\ \A j \in events : j <= k \/ j = l}}

\* A rollback after promotions only returns the environment to what it ran before
\* the last of them.
RollbackUndoes ==
  [][\A e \in Environments :
       RollsBack(e) /\ EventsOf(mem, e) = Promotions(mem, e)
         => mem'.alias[e] \in BeforeLast(e)]_vars
=============================================================================
