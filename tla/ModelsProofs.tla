---------------------------- MODULE ModelsProofs ----------------------------
(***************************************************************************)
(* Theorems about what a model depends on: its entry in the registry, the  *)
(* record it is served from, the parameters a task may move, the           *)
(* vocabulary its weights refer to and the checkpoints that are kept of    *)
(* it, for any number of environments, labels, hand-named versions,        *)
(* threads, requests, tasks, tokens and saves.                             *)
(***************************************************************************)
EXTENDS ModelLayer, ListProofs, FiniteSetTheorems, SequenceTheorems, TLAPS

-----------------------------------------------------------------------------
(* ModelRegistry: what makes one index well formed                         *)

\* The version numbers in use have a highest one.
HasHighest(idx) ==
  idx.versions # {} => \E m \in Majors(idx) : \A n \in Majors(idx) : n <= m

WellFormed(idx) ==
  /\ idx \in Index
  /\ HasHighest(idx)
  /\ \A a \in Aliases : idx.alias[a] # None => idx.alias[a] \in idx.versions
  /\ \A i \in DOMAIN idx.log : idx.log[i].version \in idx.versions
  /\ LogExplains(idx)

LEMMA EmptyWellFormed == WellFormed(EmptyIndex)
<1>0. None \in Version
  BY TagAssumption DEF None, Version
<1>1. /\ EmptyIndex.versions = {}
      /\ EmptyIndex.log = <<>>
      /\ EmptyIndex.alias = [a \in Aliases |-> None]
  BY DEF EmptyIndex
<1>2. /\ DOMAIN EmptyIndex.log = {} /\ EmptyIndex.log \in Seq(Event)
      /\ EmptyIndex.alias \in [Aliases -> Version]
      /\ \A a \in Aliases : EmptyIndex.alias[a] = None
  BY <1>0, <1>1, EmptySeq
<1>3. EmptyIndex \in Index
  BY <1>1, <1>2 DEF EmptyIndex, Index
<1>4. LogExplains(EmptyIndex)
  BY <1>2 DEF LogExplains, EventsOf, Aliases
<1>5. QED
  BY <1>1, <1>2, <1>3, <1>4 DEF WellFormed, HasHighest

\* What is above a bound is none of the bounded.
LEMMA AboveAll ==
  ASSUME NEW top \in Nat, NEW up1, up1 = top + 1
  PROVE  up1 \in Nat /\ up1 # 0 /\ \A n \in Nat : n <= top => n # up1
  OBVIOUS

\* A number above all numbers in use makes a new version.
LEMMA FreshNumber ==
  ASSUME NEW idx, WellFormed(idx), NEW top \in Nat, \A n \in Majors(idx) : n <= top,
         NEW new, new = [major |-> top + 1, tag |-> ""]
  PROVE  new \in Version \ {None} /\ new \notin idx.versions
<1>0. PICK up1 : up1 = top + 1
  OBVIOUS
<1>1. up1 \in Nat /\ up1 # 0 /\ \A n \in Nat : n <= top => n # up1
  BY <1>0, AboveAll
<1>2. new.major = up1 /\ new \in Version
  BY <1>0, <1>1, TagAssumption DEF Version
<1>3. None.major = 0
  BY DEF None
<1>4. ASSUME NEW v \in idx.versions PROVE v.major # up1
  <2>1. v.major \in Nat /\ v.major <= top
    BY DEF WellFormed, Index, Version, Majors
  <2>2. QED
    BY <1>1, <2>1
<1>5. QED
  BY <1>1, <1>2, <1>3, <1>4

\* _next_version yields a version that is not in use and is not None.
LEMMA NextVersionFresh ==
  ASSUME NEW idx, WellFormed(idx)
  PROVE  NextVersion(idx) \in Version \ {None} /\ NextVersion(idx) \notin idx.versions
<1>1. CASE idx.versions = {}
  BY <1>1, TagAssumption DEF NextVersion, Version, None
<1>2. CASE idx.versions # {}
  <2>1. PICK top \in Majors(idx) :
             (\A n \in Majors(idx) : n <= top)
               /\ NextVersion(idx) = [major |-> top + 1, tag |-> ""]
    BY <1>2 DEF WellFormed, HasHighest, NextVersion
  <2>2. top \in Nat
    BY DEF WellFormed, Index, Version, Majors
  <2>3. QED
    BY <2>1, <2>2, FreshNumber
<1>3. QED
  BY <1>1, <1>2

\* get(alias) finds a version as soon as there is one.
LEMMA WellFormedResolves ==
  ASSUME NEW idx, WellFormed(idx)
  PROVE  Resolvable(idx)
<1>1. ASSUME idx.versions # {}, NEW a \in Aliases, idx.alias[a] = None
      PROVE  Resolve(idx, a) # {}
  <2>1. PICK m \in Majors(idx) : \A n \in Majors(idx) : n <= m
    BY <1>1 DEF WellFormed, HasHighest
  <2>2. PICK v \in idx.versions : v.major = m
    BY DEF Majors
  <2>3. v \in Resolve(idx, a)
    BY <1>1, <2>1, <2>2 DEF Resolve, Majors
  <2>4. QED
    BY <2>3
<1>2. QED
  BY <1>1 DEF WellFormed, Resolvable, Resolve

-----------------------------------------------------------------------------
(* ModelRegistry: each operation keeps an index well formed                *)

LEMMA RegisteredWellFormed ==
  ASSUME NEW idx, WellFormed(idx), NEW v \in Version \ {None}
  PROVE  WellFormed(Registered(idx, v))
<1> DEFINE new == Registered(idx, v)
<1>0. idx \in Index
  BY DEF WellFormed
<1>1. /\ new \in Index
      /\ new.versions = idx.versions \cup {v}
      /\ new.alias = [idx.alias EXCEPT !["latest"] = v]
      /\ new.log = idx.log
  BY <1>0 DEF Registered, Index, Aliases
<1> HIDE DEF new
<1>2. /\ new.alias["latest"] = v
      /\ \A a \in Aliases \ {"latest"} : new.alias[a] = idx.alias[a]
  BY <1>0, <1>1 DEF Index, Aliases
<1>3. HasHighest(new)
  <2>1. Majors(new) = Majors(idx) \cup {v.major}
    BY <1>1 DEF Majors
  <2>2. v.major \in Nat /\ Majors(idx) \subseteq Nat
    BY <1>0 DEF Majors, Index, Version
  <2>3. CASE idx.versions = {}
    BY <2>1, <2>2, <2>3 DEF HasHighest, Majors
  <2>4. CASE idx.versions # {}
    <3>1. PICK m \in Majors(idx) : \A n \in Majors(idx) : n <= m
      BY <2>4 DEF WellFormed, HasHighest
    <3>2. \A n \in Majors(new) : n <= (IF m <= v.major THEN v.major ELSE m)
      BY <2>1, <2>2, <3>1
    <3>3. (IF m <= v.major THEN v.major ELSE m) \in Majors(new)
      BY <2>1, <3>1
    <3>4. QED
      BY <3>2, <3>3 DEF HasHighest
  <2>5. QED
    BY <2>3, <2>4
<1>4. LogExplains(new)
  <2>1. \A e \in Environments : EventsOf(new, e) = EventsOf(idx, e)
    BY <1>1 DEF EventsOf
  <2>2. QED
    BY <1>1, <1>2, <2>1 DEF LogExplains, WellFormed, Aliases
<1>5. QED
  BY <1>1, <1>2, <1>3, <1>4 DEF WellFormed, new

LEMMA SetAliasWellFormed ==
  ASSUME NEW idx, WellFormed(idx), NEW a \in Labels, NEW v \in idx.versions
  PROVE  WellFormed([idx EXCEPT !.alias[a] = v])
<1> DEFINE new == [idx EXCEPT !.alias[a] = v]
<1>0. idx \in Index /\ v \in Version /\ v # None
  BY DEF WellFormed, Index
<1>1. /\ new \in Index
      /\ new.versions = idx.versions
      /\ new.alias = [idx.alias EXCEPT ![a] = v]
      /\ new.log = idx.log
  BY <1>0 DEF Index, Aliases
<1> HIDE DEF new
<1>2. /\ new.alias[a] = v
      /\ \A b \in Aliases \ {a} : new.alias[b] = idx.alias[b]
  BY <1>0, <1>1 DEF Index, Aliases
<1>3. HasHighest(new)
  BY <1>1 DEF WellFormed, HasHighest, Majors
<1>4. LogExplains(new)
  <2>1. \A e \in Environments : EventsOf(new, e) = EventsOf(idx, e)
    BY <1>1 DEF EventsOf
  <2>2. QED
    BY <1>1, <1>2, <2>1 DEF LogExplains, WellFormed, Aliases
<1>5. QED
  BY <1>1, <1>2, <1>3, <1>4 DEF WellFormed, new

LEMMA DeployedWellFormed ==
  ASSUME NEW idx, WellFormed(idx), NEW e \in Environments, NEW v \in idx.versions,
         NEW outcome \in {"promoted", "rolled_back"}
  PROVE  WellFormed(Deployed(idx, e, v, outcome))
<1> DEFINE new == Deployed(idx, e, v, outcome)
           entry == [version |-> v, env |-> e, status |-> outcome]
           n == Len(idx.log)
<1>0. idx \in Index /\ v \in Version /\ v # None
  BY DEF WellFormed, Index
<1>1. entry \in Event
  BY <1>0 DEF Event
<1>2. /\ idx.log \in Seq(Event) /\ n \in Nat /\ DOMAIN idx.log = 1 .. n
      /\ Append(idx.log, entry) \in Seq(Event)
      /\ Len(Append(idx.log, entry)) = n + 1
      /\ \A i \in 1 .. n : Append(idx.log, entry)[i] = idx.log[i]
      /\ Append(idx.log, entry)[n + 1] = entry
  BY <1>0, <1>1, AppendProperties, LenProperties DEF Index
<1>3. /\ new \in Index
      /\ new.versions = idx.versions
      /\ new.alias = [idx.alias EXCEPT ![e] = v]
      /\ new.log = Append(idx.log, entry)
  BY <1>0, <1>2 DEF Deployed, Index, Aliases
<1>4. DOMAIN new.log = 1 .. (n + 1)
  BY <1>2, <1>3, LenProperties
<1>5. /\ new.log[n + 1].version = v /\ new.log[n + 1].env = e
      /\ \A i \in 1 .. n : new.log[i] = idx.log[i]
  BY <1>2, <1>3
<1> HIDE DEF new, n, entry
<1>6. /\ new.alias[e] = v
      /\ \A b \in Aliases \ {e} : new.alias[b] = idx.alias[b]
  BY <1>0, <1>3 DEF Index, Aliases
<1>7. HasHighest(new)
  BY <1>3 DEF WellFormed, HasHighest, Majors
<1>8. \A i \in DOMAIN new.log : new.log[i].version \in new.versions
  BY <1>2, <1>3, <1>4, <1>5 DEF WellFormed
<1>9. LogExplains(new)
  <2>1. EventsOf(new, e) = EventsOf(idx, e) \cup {n + 1}
    BY <1>2, <1>4, <1>5 DEF EventsOf
  <2>2. \A f \in Environments \ {e} : EventsOf(new, f) = EventsOf(idx, f)
    BY <1>2, <1>4, <1>5 DEF EventsOf
  <2>3. \A f \in Environments : EventsOf(idx, f) \subseteq 1 .. n
    BY <1>2 DEF EventsOf
  <2>4. (\A j \in EventsOf(new, e) : j <= n + 1) /\ new.alias[e] = new.log[n + 1].version
    BY <1>2, <1>5, <1>6, <2>1, <2>3
  <2>5. ASSUME NEW f \in Environments \ (Labels \cup {"latest"}), f # e
        PROVE  \/ EventsOf(new, f) = {} /\ new.alias[f] = None
               \/ \E i \in EventsOf(new, f) :
                    (\A j \in EventsOf(new, f) : j <= i) /\ new.alias[f] = new.log[i].version
    <3>1. new.alias[f] = idx.alias[f] /\ EventsOf(new, f) = EventsOf(idx, f)
      BY <1>6, <2>2, <2>5 DEF Aliases
    <3>2. \A i \in EventsOf(idx, f) : new.log[i] = idx.log[i]
      BY <1>5, <2>3
    <3>3. \/ EventsOf(idx, f) = {} /\ idx.alias[f] = None
          \/ \E i \in EventsOf(idx, f) :
               (\A j \in EventsOf(idx, f) : j <= i) /\ idx.alias[f] = idx.log[i].version
      BY <2>5 DEF WellFormed, LogExplains
    <3>4. QED
      BY <3>1, <3>2, <3>3
  <2>6. QED
    BY <2>1, <2>4, <2>5 DEF LogExplains
<1>10. QED
  BY <1>3, <1>6, <1>7, <1>8, <1>9 DEF WellFormed, new

-----------------------------------------------------------------------------
(* ModelRegistry: the memory and the file stay well formed                 *)

IInv == WellFormed(mem) /\ WellFormed(disk)

LEMMA InitIInv == Init => IInv
  BY EmptyWellFormed DEF Init, IInv

LEMMA NextIInv == IInv /\ [Next]_vars => IInv'
<1> SUFFICES ASSUME IInv, [Next]_vars PROVE IInv'
  OBVIOUS
<1> USE DEF IInv
<1>1. ASSUME NEW new, WellFormed(new), Persist(new) PROVE IInv'
  BY <1>1, EmptyWellFormed DEF Persist, Saved, Fault
<1>2. CASE Register
  <2>1. PICK v \in Explicit \cup {NextVersion(mem)} : Persist(Registered(mem, v))
    BY <1>2 DEF Register
  <2>2. v \in Version \ {None}
    BY NextVersionFresh, ExplicitAssumption
  <2>3. QED
    BY <1>1, <2>1, <2>2, RegisteredWellFormed
<1>3. ASSUME NEW a \in Labels, SetAlias(a) PROVE IInv'
  BY <1>1, <1>3, SetAliasWellFormed DEF SetAlias
<1>4. ASSUME NEW e \in Environments, Promote(e) PROVE IInv'
  BY <1>1, <1>4, DeployedWellFormed DEF Promote
<1>5. ASSUME NEW e \in Environments, Rollback(e) PROVE IInv'
  <2>1. PICK i \in DOMAIN mem.log : Persist(Deployed(mem, e, mem.log[i].version, "rolled_back"))
    BY <1>5 DEF Rollback, LastButOne, Promotions, EventsOf
  <2>2. mem.log[i].version \in mem.versions
    BY DEF WellFormed
  <2>3. QED
    BY <1>1, <2>1, <2>2, DeployedWellFormed
<1>6. CASE Crash
  BY <1>6, EmptyWellFormed DEF Crash
<1>7. CASE Restart
  BY <1>7, EmptyWellFormed DEF Restart
<1>8. CASE UNCHANGED vars
  BY <1>8 DEF vars
<1>9. QED
  BY <1>2, <1>3, <1>4, <1>5, <1>6, <1>7, <1>8 DEF Next

LEMMA Invariance == Spec => []IInv
  BY InitIInv, NextIInv, PTL DEF Spec


\* Aliases, environments and log entries name registered versions, in memory and
\* in the file, whatever writes failed and whenever the process died.
THEOREM AliasesResolve == Spec => []AlwaysResolvable
<1>1. IInv => AlwaysResolvable
  BY WellFormedResolves DEF IInv, AlwaysResolvable
<1>2. QED
  BY <1>1, Invariance, PTL

\* register() without a version never raises "already registered".
THEOREM AutomaticVersionIsFresh == Spec => []NextIsFresh
<1>1. IInv => NextIsFresh
  BY NextVersionFresh DEF IInv, NextIsFresh
<1>2. QED
  BY <1>1, Invariance, PTL

\* The log explains what every environment runs, in memory and in the file.
THEOREM LogExplainsAll == Spec => []LogExplainsEnvironments
<1>1. IInv => LogExplainsEnvironments
  BY DEF IInv, WellFormed, LogExplainsEnvironments
<1>2. QED
  BY <1>1, Invariance, PTL

\* Every variable keeps its type.
THEOREM TypeCorrect == Spec => []TypeOK
<1> DEFINE Ghosts == up \in BOOLEAN /\ acked \in Record /\ faults \in 0 .. MaxFaults
<1>1. Init => Ghosts
  BY EmptySeq, BoundAssumption DEF Init, Record
<1>2. IInv /\ IInv' /\ Ghosts /\ [Next]_vars => Ghosts'
  <2> SUFFICES ASSUME IInv, IInv', Ghosts, [Next]_vars PROVE Ghosts'
    OBVIOUS
  <2>1. ASSUME Fault PROVE faults' \in 0 .. MaxFaults /\ acked' \in Record
    BY <2>1, BoundAssumption DEF Fault
  <2>2. ASSUME NEW new, Persist(new) PROVE Ghosts'
    <3>1. CASE Saved(new)
      BY <3>1 DEF Saved, IInv, WellFormed, Index, Record
    <3>2. CASE ~Saved(new)
      BY <2>1, <2>2, <3>2 DEF Persist
    <3>3. QED
      BY <3>1, <3>2
  <2>3. CASE Crash
    BY <2>1, <2>3 DEF Crash
  <2>4. CASE Restart
    <3>1. [versions |-> {}, log |-> <<>>] \in Record
      BY EmptySeq DEF Record
    <3>2. QED
      BY <2>4, <3>1 DEF Restart
  <2>5. CASE UNCHANGED vars
    BY <2>5 DEF vars
  <2>6. QED
    BY <2>2, <2>3, <2>4, <2>5 DEF Next, Register, SetAlias, Promote, Rollback
<1>3. IInv /\ Ghosts => TypeOK
  BY DEF IInv, WellFormed, TypeOK
<1> HIDE DEF Ghosts
<1>4. QED
  BY <1>1, <1>2, <1>3, Invariance, PTL DEF Spec

-----------------------------------------------------------------------------
(* ModelRegistry: what was acknowledged is a part of the file, and of the  *)
(* memory of a process that runs, because an operation only adds to it.    *)

\* The index has the versions of a record and its log begins with the record's.
Keeps(idx, record) ==
  /\ record.versions \subseteq idx.versions
  /\ Len(record.log) <= Len(idx.log)
  /\ \A i \in 1 .. Len(record.log) : record.log[i] = idx.log[i]

DInv == acked \in Record /\ Keeps(disk, acked) /\ (up => Keeps(mem, acked))

LEMMA PrefixElements ==
  ASSUME NEW S, NEW s \in Seq(S), NEW t \in Seq(S), Len(s) <= Len(t),
         \A i \in 1 .. Len(s) : s[i] = t[i]
  PROVE  IsPrefix(s, t)
<1> DEFINE n == Len(s)
           sub == SubSeq(t, 1, n)
<1>1. n \in Nat /\ Len(t) \in Nat /\ n <= Len(t)
  BY LenProperties
<1>2. \A i \in 1 .. n : t[i] \in S
  BY <1>1, ElementOfSeq
<1>3. /\ sub \in Seq(S) /\ Len(sub) = (IF 1 <= n THEN n - 1 + 1 ELSE 0)
      /\ \A i \in 1 .. n - 1 + 1 : sub[i] = t[1 + i - 1]
  BY <1>1, <1>2, SubSeqProperties
<1>4. Len(sub) = n /\ \A i \in 1 .. n : sub[i] = t[i]
  BY <1>1, <1>3
<1>5. s = sub
  BY <1>3, <1>4, SeqEqual
<1>6. SubSeq(s, 1, n) = s
  BY SubSeqFull
<1>7. QED
  BY <1>1, <1>5, <1>6 DEF IsPrefix

\* What an operation does to the index: it drops no version and no log entry.
Grows(idx, new) ==
  /\ idx.versions \subseteq new.versions
  /\ Len(idx.log) <= Len(new.log)
  /\ \A i \in 1 .. Len(idx.log) : idx.log[i] = new.log[i]

LEMMA RegisteredGrows ==
  ASSUME NEW idx \in Index, NEW v PROVE Grows(idx, Registered(idx, v))
<1>1. /\ Registered(idx, v).versions = idx.versions \cup {v}
      /\ Registered(idx, v).log = idx.log
  BY DEF Registered, Index
<1>2. Len(idx.log) \in Nat
  BY LenProperties DEF Index
<1>3. QED
  BY <1>1, <1>2 DEF Grows

LEMMA SetAliasGrows ==
  ASSUME NEW idx \in Index, NEW a, NEW v PROVE Grows(idx, [idx EXCEPT !.alias[a] = v])
<1>1. /\ [idx EXCEPT !.alias[a] = v].versions = idx.versions
      /\ [idx EXCEPT !.alias[a] = v].log = idx.log
  BY DEF Index
<1>2. Len(idx.log) \in Nat
  BY LenProperties DEF Index
<1>3. QED
  BY <1>1, <1>2 DEF Grows

LEMMA DeployedGrows ==
  ASSUME NEW idx \in Index, NEW e \in Environments, NEW v \in Version,
         NEW outcome \in {"promoted", "rolled_back"}
  PROVE  Grows(idx, Deployed(idx, e, v, outcome))
<1> DEFINE entry == [version |-> v, env |-> e, status |-> outcome]
<1>1. /\ Deployed(idx, e, v, outcome).versions = idx.versions
      /\ Deployed(idx, e, v, outcome).log = Append(idx.log, entry)
  BY DEF Deployed, Index
<1>2. entry \in Event /\ idx.log \in Seq(Event)
  BY DEF Event, Index
<1>3. /\ Len(idx.log) \in Nat
      /\ Len(Append(idx.log, entry)) = Len(idx.log) + 1
      /\ \A i \in 1 .. Len(idx.log) : Append(idx.log, entry)[i] = idx.log[i]
  BY <1>2, AppendProperties, LenProperties
<1>4. QED
  BY <1>1, <1>3 DEF Grows

LEMMA PersistKeeps ==
  ASSUME DInv, up, NEW new \in Index, Grows(mem, new), Persist(new), mem \in Index
  PROVE  DInv'
<1>1. acked.log \in Seq(Event) /\ mem.log \in Seq(Event) /\ new.log \in Seq(Event)
  BY DEF DInv, Record, Index
<1>2. Len(acked.log) \in Nat /\ Len(mem.log) \in Nat /\ Len(new.log) \in Nat
  BY <1>1, LenProperties
<1>3. Keeps(new, acked)
  BY <1>2 DEF DInv, Keeps, Grows
<1>4. CASE Saved(new)
  <2>1. acked' \in Record /\ acked'.versions = new.versions /\ acked'.log = new.log
    BY <1>4 DEF Saved, Record, Index
  <2>2. Keeps(new, acked')
    BY <1>2, <2>1 DEF Keeps
  <2>3. QED
    BY <1>4, <2>1, <2>2 DEF Saved, DInv
<1>5. CASE ~Saved(new)
  BY <1>3, <1>5 DEF Persist, Fault, DInv
<1>6. QED
  BY <1>4, <1>5

LEMMA InitDInv == Init => DInv
<1> SUFFICES ASSUME Init PROVE DInv
  OBVIOUS
<1>1. /\ acked.versions = {} /\ acked.log = <<>> /\ acked \in Record
      /\ mem.log = <<>> /\ disk.log = <<>>
  BY EmptySeq DEF Init, Record, EmptyIndex
<1>2. Len(<<>>) = 0
  BY EmptySeq
<1>3. QED
  BY <1>1, <1>2 DEF DInv, Keeps

LEMMA NextDInv == IInv /\ DInv /\ [Next]_vars => DInv'
<1> SUFFICES ASSUME IInv, DInv, [Next]_vars PROVE DInv'
  OBVIOUS
<1>1. mem \in Index /\ disk \in Index
  BY DEF IInv, WellFormed
<1>2. CASE Register
  <2>1. PICK v \in Explicit \cup {NextVersion(mem)} : up /\ Persist(Registered(mem, v))
    BY <1>2 DEF Register
  <2>2. v \in Version \ {None}
    BY NextVersionFresh, ExplicitAssumption DEF IInv
  <2>3. Registered(mem, v) \in Index
    BY <2>2, RegisteredWellFormed DEF IInv, WellFormed
  <2>4. QED
    BY <1>1, <2>1, <2>3, RegisteredGrows, PersistKeeps
<1>3. ASSUME NEW a \in Labels, SetAlias(a) PROVE DInv'
  <2>1. PICK v \in mem.versions : up /\ Persist([mem EXCEPT !.alias[a] = v])
    BY <1>3 DEF SetAlias
  <2>2. [mem EXCEPT !.alias[a] = v] \in Index
    BY SetAliasWellFormed DEF IInv, WellFormed
  <2>3. QED
    BY <1>1, <2>1, <2>2, SetAliasGrows, PersistKeeps
<1>4. ASSUME NEW e \in Environments, NEW v \in mem.versions,
             NEW outcome \in {"promoted", "rolled_back"}, up, Persist(Deployed(mem, e, v, outcome))
      PROVE  DInv'
  <2>1. v \in Version
    BY <1>1 DEF Index
  <2>2. Deployed(mem, e, v, outcome) \in Index
    BY DeployedWellFormed DEF IInv, WellFormed
  <2>3. QED
    BY <1>1, <1>4, <2>1, <2>2, DeployedGrows, PersistKeeps
<1>5. ASSUME NEW e \in Environments, Promote(e) PROVE DInv'
  BY <1>4, <1>5 DEF Promote
<1>6. ASSUME NEW e \in Environments, Rollback(e) PROVE DInv'
  <2>1. PICK i \in DOMAIN mem.log :
          up /\ Persist(Deployed(mem, e, mem.log[i].version, "rolled_back"))
    BY <1>6 DEF Rollback, LastButOne, Promotions, EventsOf
  <2>2. mem.log[i].version \in mem.versions
    BY DEF IInv, WellFormed
  <2>3. QED
    BY <1>4, <2>1, <2>2
<1>7. CASE Crash
  BY <1>7 DEF Crash, Fault, DInv
<1>8. CASE Restart
  <2> DEFINE empty == [versions |-> {}, log |-> <<>>]
  <2>1. CASE mem' = disk /\ UNCHANGED acked
    BY <1>8, <2>1 DEF Restart, DInv
  <2>2. CASE acked' = empty
    <3>1. empty \in Record /\ empty.versions = {} /\ Len(empty.log) = 0
      BY EmptySeq DEF Record
    <3>2. mem' \in Index /\ disk' \in Index
      BY <1>1, <1>8, EmptyWellFormed DEF Restart, WellFormed
    <3>3. Len(mem'.log) \in Nat /\ Len(disk'.log) \in Nat
      BY <3>2, LenProperties DEF Index
    <3>4. QED
      BY <2>2, <3>1, <3>3 DEF DInv, Keeps
  <2>3. QED
    BY <1>8, <2>1, <2>2 DEF Restart
<1>9. CASE UNCHANGED vars
  BY <1>9 DEF vars, DInv
<1>10. QED
  BY <1>2, <1>3, <1>5, <1>6, <1>7, <1>8, <1>9 DEF Next

\* What a call that returned normally recorded is in the file for good, whatever
\* writes fail and whenever the process dies, until a process finds it unreadable.
THEOREM AcknowledgedStays == Spec => []AckedDurable
<1>1. IInv /\ DInv => AckedDurable
  <2> SUFFICES ASSUME IInv, DInv PROVE AckedDurable
    OBVIOUS
  <2>1. acked.log \in Seq(Event) /\ disk.log \in Seq(Event)
    BY DEF IInv, DInv, WellFormed, Index, Record
  <2>2. IsPrefix(acked.log, disk.log)
    BY <2>1, PrefixElements DEF DInv, Keeps
  <2>3. QED
    BY <2>2 DEF DInv, Keeps, AckedDurable
<1>2. QED
  BY <1>1, InitDInv, NextDInv, Invariance, PTL DEF Spec

\* The log accounts for every environment, and loses nothing that was acknowledged.
THEOREM LogAlwaysKept == Spec => []LogIsKept
  BY LogExplainsAll, AcknowledgedStays, PTL DEF LogIsKept

-----------------------------------------------------------------------------
(* ModelRegistry: where an environment was only promoted to, rollback()    *)
(* returns it to what it ran before.                                       *)

\* A call that returns or whose write fails leaves its index in the memory.
LEMMA PersistMemory == ASSUME NEW new, Persist(new), up' PROVE mem' = new
BY DEF Persist, Saved, Fault

LEMMA DeployedLast ==
  ASSUME NEW idx \in Index, NEW e \in Environments, NEW v \in Version,
         NEW outcome \in {"promoted", "rolled_back"}
  PROVE  /\ Last(Deployed(idx, e, v, outcome).log).env = e
         /\ Last(Deployed(idx, e, v, outcome).log).status = outcome
         /\ Deployed(idx, e, v, outcome).alias[e] = v
<1> DEFINE entry == [version |-> v, env |-> e, status |-> outcome]
           new == Deployed(idx, e, v, outcome)
<1>1. new.log = Append(idx.log, entry) /\ new.alias = [idx.alias EXCEPT ![e] = v]
  BY DEF Deployed, Index
<1>2. entry \in Event /\ idx.log \in Seq(Event) /\ idx.alias \in [Aliases -> Version]
  BY DEF Event, Index
<1>3. Len(Append(idx.log, entry)) = Len(idx.log) + 1 /\ Append(idx.log, entry)[Len(idx.log) + 1] = entry
  BY <1>2, AppendProperties
<1>4. Last(new.log) = entry
  BY <1>1, <1>3 DEF Last
<1>5. new.alias[e] = v
  BY <1>1, <1>2 DEF Aliases
<1> HIDE DEF new
<1> QED
  BY <1>4, <1>5 DEF new

\* history[-2] is the entry before the last one.
LEMMA LastButOneIsBefore ==
  ASSUME NEW n \in Nat, NEW S, S \subseteq 1 .. n, NEW i \in LastButOne(S)
  PROVE  i \in S /\ \E l \in S : l > i /\ \A j \in S : j <= i \/ j = l
<1> DEFINE above == {j \in S : j > i}
<1>1. i \in S /\ Cardinality(above) = 1
  BY DEF LastButOne
<1>2. IsFiniteSet(1 .. n)
  BY FS_Interval
<1>3. IsFiniteSet(above)
  BY <1>2, FS_Subset
<1>4. PICK l : above = {l}
  BY <1>1, <1>3, FS_Singleton
<1>5. l \in S /\ l > i
  BY <1>4
<1>6. \A j \in S : j <= i \/ j > i
  BY <1>1
<1>7. \A j \in S : j > i => j \in above
  OBVIOUS
<1> HIDE DEF above
<1>8. \A j \in S : j <= i \/ j = l
  BY <1>4, <1>6, <1>7
<1> QED
  BY <1>1, <1>5, <1>8

LEMMA RollbackStep ==
  ASSUME IInv, NEW e \in Environments, RollsBack(e), EventsOf(mem, e) = Promotions(mem, e),
         NEW f \in Environments, Rollback(f)
  PROVE  mem'.alias[e] \in BeforeLast(e)
<1>1. mem \in Index /\ up'
  BY DEF IInv, WellFormed, RollsBack
<1>2. PICK i \in LastButOne(Promotions(mem, f)) :
             Persist(Deployed(mem, f, mem.log[i].version, "rolled_back"))
  BY DEF Rollback
<1>3. i \in DOMAIN mem.log /\ mem.log \in Seq(Event) /\ DOMAIN mem.log = 1 .. Len(mem.log)
      /\ Len(mem.log) \in Nat
  BY <1>1, LenProperties DEF LastButOne, Promotions, EventsOf, Index
<1>4. mem.log[i].version \in Version
  <2>1. mem.log[i] \in Event
    BY <1>3, ElementOfSeq
  <2> QED
    BY <2>1 DEF Event
<1>5. mem' = Deployed(mem, f, mem.log[i].version, "rolled_back")
  BY <1>1, <1>2, PersistMemory
<1>6. Last(mem'.log).env = f /\ mem'.alias[f] = mem.log[i].version
  BY <1>1, <1>4, <1>5, DeployedLast
<1>7. f = e /\ mem'.alias[e] = mem.log[i].version
  BY <1>6 DEF RollsBack
<1>8. EventsOf(mem, e) \subseteq 1 .. Len(mem.log) /\ i \in LastButOne(EventsOf(mem, e))
  BY <1>2, <1>3, <1>7 DEF EventsOf
<1>9. /\ i \in EventsOf(mem, e)
      /\ \E l \in EventsOf(mem, e) : l > i /\ \A j \in EventsOf(mem, e) : j <= i \/ j = l
  BY <1>3, <1>8, LastButOneIsBefore
<1> QED
  BY <1>7, <1>9 DEF BeforeLast

\* No other operation of a process that goes on ends the log with a rollback.
LEMMA OnlyRollbackRollsBack ==
  ASSUME IInv, Next, NEW e \in Environments, RollsBack(e)
  PROVE  \E f \in Environments : Rollback(f)
<1>1. /\ mem \in Index /\ up /\ up' /\ Len(mem'.log) # Len(mem.log)
      /\ Last(mem'.log).status = "rolled_back"
  <2>1. mem \in Index /\ Len(mem.log) \in Nat
    BY LenProperties DEF IInv, WellFormed, Index
  <2> QED
    BY <2>1 DEF RollsBack
<1>2. ~Register
  <2> SUFFICES ASSUME NEW v, Persist(Registered(mem, v)) PROVE FALSE
    BY DEF Register
  <2>1. mem' = Registered(mem, v)
    BY <1>1, PersistMemory
  <2>2. mem'.log = mem.log
    BY <1>1, <2>1 DEF Registered, Index
  <2> QED
    BY <1>1, <2>2
<1>3. ASSUME NEW a \in Labels PROVE ~SetAlias(a)
  <2> SUFFICES ASSUME NEW v, Persist([mem EXCEPT !.alias[a] = v]) PROVE FALSE
    BY DEF SetAlias
  <2>1. mem' = [mem EXCEPT !.alias[a] = v]
    BY <1>1, PersistMemory
  <2>2. mem'.log = mem.log
    BY <1>1, <2>1 DEF Index
  <2> QED
    BY <1>1, <2>2
<1>4. ASSUME NEW f \in Environments PROVE ~Promote(f)
  <2> SUFFICES ASSUME NEW v \in mem.versions, Persist(Deployed(mem, f, v, "promoted")) PROVE FALSE
    BY DEF Promote
  <2>1. mem' = Deployed(mem, f, v, "promoted")
    BY <1>1, PersistMemory
  <2>2. v \in Version
    BY <1>1 DEF Index
  <2>3. Last(mem'.log).status = "promoted"
    BY <1>1, <2>1, <2>2, DeployedLast
  <2> QED
    BY <1>1, <2>3
<1>5. ~Crash /\ ~Restart
  BY <1>1 DEF Crash, Restart
<1> QED
  BY <1>2, <1>3, <1>4, <1>5 DEF Next

\* A rollback of an environment that was only promoted to puts back the version it ran
\* before the last promotion, also when the index file cannot be written.
THEOREM RollbackRestores == Spec => RollbackUndoes
<1> DEFINE Undoes == \A e \in Environments :
             RollsBack(e) /\ EventsOf(mem, e) = Promotions(mem, e) => mem'.alias[e] \in BeforeLast(e)
<1>1. IInv /\ [Next]_vars => [Undoes]_vars
  BY RollbackStep, OnlyRollbackRollsBack
<1> HIDE DEF Undoes
<1>2. Spec => [][Undoes]_vars
  BY <1>1, Invariance, PTL DEF Spec
<1> QED
  BY <1>2 DEF RollbackUndoes, Undoes

-----------------------------------------------------------------------------
(* ServingLifecycle                                                        *)

LifecycleTyped ==
  /\ loads \in Nat
  /\ served.engine \in 0 .. loads /\ (served.healthy <=> served.engine # NoEngine)
  /\ request \in [Clients -> [at : {"none", "refused", "admitted", "generating", "failed", "answered"},
                              engine : Nat]]
  /\ retired \subseteq 1 .. loads
  /\ before \in [Clients -> SUBSET retired]

\* No engine comes back: neither that of the model in service nor the one that is being
\* loaded was replaced before.
EnginesAreNew ==
  /\ served.engine \notin retired
  /\ loader # Nobody => loads >= 1 /\ loads \notin retired /\ served.engine # loads

\* A request that was admitted finds an engine, unless it was disturbed.
AdmittedFindEngine == \A c \in Admitted : c \notin disturbed => served.healthy

LifecycleInv == LifecycleTyped /\ EnginesAreNew /\ AdmittedFindEngine /\ ReloadIsSeamless

LEMMA LifecycleStart == LifecycleInit => LifecycleInv
  BY DEF LifecycleInit, LifecycleInv, LifecycleTyped, EnginesAreNew, AdmittedFindEngine, Admitted,
         ReloadIsSeamless, NotServed, NoEngine, Nobody

LEMMA BeginLoadKeeps ==
  ASSUME LifecycleInv, NEW a \in Loaders, BeginLoad(a)
  PROVE  LifecycleInv'
<1>1. loads' = loads + 1 /\ UNCHANGED <<served, request, disturbed, retired, before>>
  BY DEF BeginLoad
<1>2. loads' \in Nat /\ loads' >= 1 /\ loads' \notin 0 .. loads
      /\ 0 .. loads \subseteq 0 .. loads' /\ 1 .. loads \subseteq 1 .. loads' /\ 1 .. loads \subseteq 0 .. loads
  BY <1>1 DEF LifecycleInv, LifecycleTyped
<1>3. LifecycleTyped'
  BY <1>1, <1>2 DEF LifecycleInv, LifecycleTyped
<1>4. EnginesAreNew'
  BY <1>1, <1>2 DEF LifecycleInv, LifecycleTyped, EnginesAreNew
<1>5. QED
  BY <1>1, <1>3, <1>4 DEF LifecycleInv, AdmittedFindEngine, Admitted, ReloadIsSeamless

LEMMA ReplaceKeeps ==
  ASSUME LifecycleInv, NEW a \in Loaders, LoadSucceeds(a) \/ LoadFails(a) \/ Unload(a)
  PROVE  LifecycleInv'
<1>1. /\ UNCHANGED <<loads, request, before>> /\ retired' = Replaced /\ loader' = Nobody
      /\ \/ /\ loader # Nobody /\ served'.engine = loads /\ served'.healthy /\ disturbed' = disturbed
         \/ served'.engine = NoEngine /\ ~served'.healthy /\ disturbed' = disturbed \cup Admitted
  <2>1. CASE LoadSucceeds(a)
    <3>1. loader # Nobody
      BY <2>1, LifecycleAssumption DEF LoadSucceeds, Nobody
    <3>2. QED
      BY <2>1, <3>1 DEF LoadSucceeds
  <2>2. CASE LoadFails(a)
    BY <2>2 DEF LoadFails
  <2>3. CASE Unload(a)
    BY <2>3 DEF Unload, NotServed, NoEngine
  <2>4. QED
    BY <2>1, <2>2, <2>3
<1>2. retired \subseteq retired' /\ retired' \subseteq 1 .. loads /\ NoEngine \notin retired'
      /\ \A e \in retired' : e \in retired \/ e = served.engine
  <2>1. served.engine \in 0 .. loads /\ retired \subseteq 1 .. loads /\ loads \in Nat
    BY DEF LifecycleInv, LifecycleTyped
  <2>2. NoEngine \notin 1 .. loads /\ (served.engine # NoEngine => served.engine \in 1 .. loads)
    BY <2>1 DEF NoEngine
  <2>3. QED
    BY <1>1, <2>1, <2>2 DEF Replaced
<1>3. LifecycleTyped'
  <2>1. served'.engine \in 0 .. loads /\ (served'.healthy <=> served'.engine # NoEngine)
    BY <1>1 DEF LifecycleInv, LifecycleTyped, EnginesAreNew, NoEngine
  <2>2. before' \in [Clients -> SUBSET retired']
    BY <1>1, <1>2 DEF LifecycleInv, LifecycleTyped
  <2>3. QED
    BY <1>1, <1>2, <2>1, <2>2 DEF LifecycleInv, LifecycleTyped
<1>4. EnginesAreNew'
  BY <1>1, <1>2 DEF LifecycleInv, EnginesAreNew
<1>5. AdmittedFindEngine'
  BY <1>1 DEF AdmittedFindEngine, Admitted
<1>6. ReloadIsSeamless'
  BY <1>1 DEF LifecycleInv, ReloadIsSeamless
<1>7. QED
  BY <1>3, <1>4, <1>5, <1>6 DEF LifecycleInv

LEMMA RequestKeeps ==
  ASSUME LifecycleInv, NEW c \in Clients, Refuse(c) \/ Admit(c) \/ GetEngine(c) \/ Answer(c)
  PROVE  LifecycleInv'
<1>1. UNCHANGED <<served, loader, loads, retired>>
  BY DEF Refuse, Admit, GetEngine, Answer
<1>2. CASE Refuse(c)
  BY <1>1, <1>2 DEF Refuse, LifecycleInv, LifecycleTyped, EnginesAreNew, AdmittedFindEngine, Admitted,
              ReloadIsSeamless
<1>3. CASE Admit(c)
  BY <1>1, <1>3 DEF Admit, LifecycleInv, LifecycleTyped, EnginesAreNew, AdmittedFindEngine, Admitted,
              ReloadIsSeamless
<1>4. CASE GetEngine(c)
  <2>1. /\ request[c].at = "admitted" /\ UNCHANGED <<disturbed, before>>
        /\ request' = [request EXCEPT ![c] = IF served.engine = NoEngine
                                             THEN [at |-> "failed", engine |-> NoEngine]
                                             ELSE [at |-> "generating", engine |-> served.engine]]
    BY <1>4 DEF GetEngine
  <2>2. LifecycleTyped'
    BY <1>1, <2>1 DEF LifecycleInv, LifecycleTyped, NoEngine
  <2>3. \A d \in Clients : d # c => request'[d] = request[d]
    BY <2>1 DEF LifecycleInv, LifecycleTyped
  <2>4. \/ request'[c].at = "failed" /\ served.engine = NoEngine
        \/ request'[c].at = "generating" /\ request'[c].engine = served.engine
    BY <2>1 DEF LifecycleInv, LifecycleTyped
  <2>5. served.engine \notin before[c] /\ (served.engine = NoEngine => c \in disturbed)
    BY <2>1 DEF LifecycleInv, LifecycleTyped, EnginesAreNew, AdmittedFindEngine, Admitted
  <2>6. AdmittedFindEngine' /\ ReloadIsSeamless'
    BY <1>1, <2>1, <2>3, <2>4, <2>5 DEF LifecycleInv, AdmittedFindEngine, Admitted, ReloadIsSeamless
  <2>7. QED
    BY <1>1, <2>2, <2>6 DEF LifecycleInv, EnginesAreNew
<1>5. CASE Answer(c)
  BY <1>1, <1>5 DEF Answer, LifecycleInv, LifecycleTyped, EnginesAreNew, AdmittedFindEngine, Admitted,
              ReloadIsSeamless
<1>6. QED
  BY <1>2, <1>3, <1>4, <1>5

LEMMA LifecycleStep == LifecycleInv /\ [LifecycleNext]_lifecycleVars => LifecycleInv'
<1> SUFFICES ASSUME LifecycleInv, [LifecycleNext]_lifecycleVars PROVE LifecycleInv'
  OBVIOUS
<1>1. CASE UNCHANGED lifecycleVars
  BY <1>1 DEF lifecycleVars, LifecycleInv, LifecycleTyped, EnginesAreNew, AdmittedFindEngine, Admitted,
              ReloadIsSeamless
<1>2. QED
  BY <1>1, BeginLoadKeeps, ReplaceKeeps, RequestKeeps DEF LifecycleNext

\* However many threads load and unload and however many requests are under way, a reload
\* that succeeds fails no request and hands out no engine that was gone before.
THEOREM ReloadsAreSeamless == LifecycleSpec => []ReloadIsSeamless
<1>1. LifecycleInv => ReloadIsSeamless
  BY DEF LifecycleInv
<1>2. QED
  BY <1>1, LifecycleStart, LifecycleStep, PTL DEF LifecycleSpec

-----------------------------------------------------------------------------
(* TaskIsolation                                                           *)

\* The first of the active tasks found the flags from before all of them, as long as tasks
\* are released last first.
IsolationInv ==
  /\ saved \in Seq([task : Tasks, flags : SUBSET Params]) /\ trainable \in SUBSET Params
  /\ saved # <<>> /\ nested => saved[1].flags = baseline
  /\ TasksIsolated

LEMMA IsolationStart == IsolationInit => IsolationInv
  BY DEF IsolationInit, IsolationInv, TasksIsolated

LEMMA IsolateKeeps ==
  ASSUME IsolationInv, NEW t \in Tasks, Isolate(t)
  PROVE  IsolationInv'
<1>1. trainable' = Adapters[t] /\ Adapters[t] \in SUBSET Params
  BY IsolationAssumption DEF Isolate, Tasks
<1>2. CASE t \in Active
  <2>1. nested' = FALSE /\ UNCHANGED <<saved, baseline>> /\ saved # <<>>
    BY <1>2 DEF Isolate, Active, IsolationInv
  <2>2. QED
    BY <1>1, <1>2, <2>1 DEF IsolationInv, TasksIsolated, Active
<1>3. CASE t \notin Active
  <2> DEFINE s == [task |-> t, flags |-> trainable]
  <2>1. /\ saved' = Append(saved, s)
        /\ baseline' = IF saved = <<>> THEN trainable ELSE baseline
        /\ nested' = (nested \/ saved = <<>>)
    BY <1>3 DEF Isolate
  <2>2. s \in [task : Tasks, flags : SUBSET Params] /\ s.task = t /\ s.flags = trainable
    BY DEF IsolationInv
  <2> HIDE DEF s
  <2>3. saved' \in Seq([task : Tasks, flags : SUBSET Params]) /\ saved' # <<>>
        /\ Len(saved') = Len(saved) + 1 /\ saved'[Len(saved) + 1] = s
        /\ (saved # <<>> => saved'[1] = saved[1])
        /\ (saved = <<>> => saved'[1] = s)
    BY <2>1, <2>2 DEF IsolationInv
  <2>4. t \in Active'
    BY <2>2, <2>3 DEF Active, IsolationInv
  <2>5. saved' # <<>> /\ nested' => saved'[1].flags = baseline'
    BY <2>1, <2>2, <2>3 DEF IsolationInv
  <2>6. QED
    BY <1>1, <2>3, <2>4, <2>5 DEF IsolationInv, TasksIsolated
<1>4. QED
  BY <1>2, <1>3

\* What is left when one element of a sequence goes.
LEMMA Remaining ==
  ASSUME NEW S, NEW s \in Seq(S), NEW i \in DOMAIN s
  PROVE  /\ RemoveAt(s, i) \in Seq(S) /\ Len(RemoveAt(s, i)) = Len(s) - 1
         /\ i # 1 => RemoveAt(s, i)[1] = s[1]
<1>1. i \in 1 .. Len(s) /\ Len(s) \in Nat
  OBVIOUS
<1>2. SubSeq(s, 1, i - 1) \in Seq(S) /\ Len(SubSeq(s, 1, i - 1)) = i - 1
      /\ \A j \in 1 .. i - 1 : SubSeq(s, 1, i - 1)[j] = s[j]
  BY <1>1
<1>3. SubSeq(s, i + 1, Len(s)) \in Seq(S) /\ Len(SubSeq(s, i + 1, Len(s))) = Len(s) - i
  BY <1>1
<1> DEFINE a == SubSeq(s, 1, i - 1)
           b == SubSeq(s, i + 1, Len(s))
<1>4. RemoveAt(s, i) = a \o b
  BY DEF RemoveAt
<1>5. a \in Seq(S) /\ Len(a) = i - 1 /\ (i # 1 => a[1] = s[1]) /\ b \in Seq(S) /\ Len(b) = Len(s) - i
  BY <1>1, <1>2, <1>3
<1> HIDE DEF a, b
<1>6. a \o b \in Seq(S) /\ Len(a \o b) = Len(a) + Len(b)
  BY <1>5, ConcatProperties
<1>7. i # 1 => (a \o b)[1] = a[1]
  <2>1. i # 1 => 1 \in 1 .. Len(a) + Len(b) /\ 1 <= Len(a)
    BY <1>1, <1>5
  <2>2. QED
    BY <1>5, <2>1, ConcatProperties
<1>8. QED
  BY <1>1, <1>4, <1>5, <1>6, <1>7, SMTT(30)

LEMMA ReleaseKeeps ==
  ASSUME IsolationInv, NEW t \in Tasks, Release(t)
  PROVE  IsolationInv'
<1>1. PICK i \in DOMAIN saved :
        /\ saved' = RemoveAt(saved, i)
        /\ trainable' = Reapplied(saved[i].flags, saved')
        /\ nested' = (nested /\ i = Len(saved))
        /\ UNCHANGED baseline
  BY DEF Release
<1>2. /\ saved' \in Seq([task : Tasks, flags : SUBSET Params]) /\ Len(saved') = Len(saved) - 1
      /\ i # 1 => saved'[1] = saved[1]
  BY <1>1, Remaining DEF IsolationInv
<1>3. i \in 1 .. Len(saved) /\ Len(saved) \in Nat /\ saved # <<>>
      /\ saved[i].flags \in SUBSET Params
  <2>1. saved \in Seq([task : Tasks, flags : SUBSET Params])
    BY DEF IsolationInv
  <2>2. i \in 1 .. Len(saved) /\ Len(saved) \in Nat
    BY <2>1
  <2>3. saved[i] \in [task : Tasks, flags : SUBSET Params] /\ saved # <<>>
    <3>1. saved[i] \in [task : Tasks, flags : SUBSET Params]
      BY <2>1, <2>2, ElementOfSeq
    <3>2. Len(saved) # 0
      BY <2>2
    <3>3. QED
      BY <3>1, <3>2, EmptySeq
  <2>4. QED
    BY <2>2, <2>3
<1>4. CASE saved' = <<>>
  <2>1. Len(saved) = 1 /\ i = 1
    BY <1>2, <1>3, <1>4
  <2>2. trainable' = saved[1].flags
    BY <1>1, <1>4, <2>1 DEF Reapplied
  <2>3. nested' => trainable' = baseline'
    BY <1>1, <1>3, <2>2 DEF IsolationInv
  <2>4. QED
    BY <1>2, <1>3, <1>4, <2>1, <2>2, <2>3 DEF IsolationInv, TasksIsolated
<1>5. CASE saved' # <<>>
  <2>1. Len(saved') \in 1 .. Len(saved') /\ Len(saved') >= 1 /\ Len(saved) >= 2
    BY <1>2, <1>3, <1>5
  <2>2. trainable' = Adapters[saved'[Len(saved')].task]
    BY <1>1, <1>5 DEF Reapplied, Last
  <2>3. saved'[Len(saved')].task \in Active' /\ saved'[Len(saved')].task \in Tasks
    <3>1. Len(saved') \in DOMAIN saved' /\ saved'[Len(saved')] \in [task : Tasks, flags : SUBSET Params]
      BY <1>2, <2>1, ElementOfSeq, LenProperties
    <3>2. QED
      BY <3>1 DEF Active
  <2>4. trainable' \in SUBSET Params
    BY <2>2, <2>3, IsolationAssumption DEF Tasks
  <2>5. nested' => saved'[1].flags = baseline'
    <3>1. nested' => i = Len(saved) /\ nested
      BY <1>1
    <3>2. nested' => i # 1 /\ nested
      BY <1>3, <2>1, <3>1
    <3>3. QED
      BY <1>1, <1>2, <1>3, <3>2 DEF IsolationInv
  <2>6. QED
    BY <1>2, <1>5, <2>2, <2>3, <2>4, <2>5 DEF IsolationInv, TasksIsolated
<1>6. QED
  BY <1>4, <1>5

LEMMA IsolationStep == IsolationInv /\ [IsolationNext]_isolationVars => IsolationInv'
<1> SUFFICES ASSUME IsolationInv, [IsolationNext]_isolationVars PROVE IsolationInv'
  OBVIOUS
<1>1. CASE SetFlags \/ UNCHANGED isolationVars
  BY <1>1 DEF SetFlags, isolationVars, IsolationInv, TasksIsolated, Active
<1>2. QED
  BY <1>1, IsolateKeeps, ReleaseKeeps DEF IsolationNext

\* For any model and any overlapping tasks: while one is active only the parameters of one
\* may move, and after the last the flags are those from before the first.
THEOREM TasksAreIsolated == IsolationSpec => []TasksIsolated
<1>1. IsolationInv => TasksIsolated
  BY DEF IsolationInv
<1>2. QED
  BY <1>1, IsolationStart, IsolationStep, PTL DEF IsolationSpec

-----------------------------------------------------------------------------
(* Vocabulary                                                              *)

VocabRecord ==
  [layout : Layouts, next : [Families -> Nat], id : [Tokens -> Int], family : [Tokens -> Families]]

Sound(v) == v \in VocabRecord /\ IdsSound(v)

VocabInv ==
  /\ Sound(vocab) /\ Sound(target)
  /\ todo \subseteq [token : Tokens, family : Families, id : Int]

\* The parts of a record, and that its ranges begin at a natural number.
LEMMA RecordTypes ==
  ASSUME NEW v \in VocabRecord
  PROVE  /\ v.layout \in Layouts /\ v.next \in [Families -> Nat]
         /\ v.id \in [Tokens -> Int] /\ v.family \in [Tokens -> Families]
         /\ \A f \in Families : /\ v.layout[f].start \in Nat /\ v.layout[f].capacity \in Nat
                                /\ v.next[f] \in Nat
  BY LayoutAssumption DEF VocabRecord

\* Ids are apart as soon as those of each family are: the ranges are.
LEMMA SoundByFamily ==
  ASSUME NEW v \in VocabRecord,
         \A f \in Families : v.next[f] <= v.layout[f].capacity,
         \A t \in Known(v) : /\ Start(v, v.family[t]) <= v.id[t]
                             /\ v.id[t] < Start(v, v.family[t]) + v.next[v.family[t]],
         \A t, u \in Known(v) : v.family[t] = v.family[u] /\ v.id[t] = v.id[u] => t = u
  PROVE  Sound(v)
<1>1. ASSUME NEW t \in Known(v), NEW u \in Known(v), v.id[t] = v.id[u]
      PROVE  v.family[t] = v.family[u]
  <2> DEFINE f == v.family[t]
             g == v.family[u]
  <2>1. t \in Tokens /\ u \in Tokens /\ f \in Families /\ g \in Families
    BY RecordTypes DEF Known
  <2>2. /\ v.layout[f].start <= v.id[t] /\ v.id[t] < v.layout[f].start + v.layout[f].capacity
        /\ v.layout[g].start <= v.id[u] /\ v.id[u] < v.layout[g].start + v.layout[g].capacity
    BY <2>1, RecordTypes DEF Start
  <2>3. f # g => \/ v.layout[f].start + v.layout[f].capacity <= v.layout[g].start
                 \/ v.layout[g].start + v.layout[g].capacity <= v.layout[f].start
    BY <2>1, RecordTypes, LayoutAssumption
  <2>4. QED
    BY <1>1, <2>1, <2>2, <2>3, RecordTypes
<1>2. QED
  BY <1>1 DEF Sound, IdsSound

\* The number of smaller ids tells the members of a set apart.
LEMMA RankApart ==
  ASSUME NEW S, IsFiniteSet(S), NEW id, \A t \in S : id[t] \in Int,
         \A t, u \in S : id[t] = id[u] => t = u
  PROVE  /\ \A t \in S : /\ Cardinality({u \in S : id[u] < id[t]}) \in Nat
                         /\ Cardinality({u \in S : id[u] < id[t]}) < Cardinality(S)
         /\ \A t, s \in S : Cardinality({u \in S : id[u] < id[t]}) = Cardinality({u \in S : id[u] < id[s]})
                            => t = s
<1> DEFINE Below(t) == {u \in S : id[u] < id[t]}
<1>1. \A t : Below(t) \in SUBSET S
  OBVIOUS
<1>2. \A t : IsFiniteSet(Below(t)) /\ Cardinality(Below(t)) \in Nat
  BY <1>1, FS_Subset, FS_CardinalityType
<1>3. ASSUME NEW t \in S
      PROVE  Cardinality(Below(t)) < Cardinality(S)
  <2>1. t \notin Below(t)
    OBVIOUS
  <2>2. Below(t) # S
    BY <2>1
  <2>3. Cardinality(Below(t)) <= Cardinality(S) /\ Cardinality(Below(t)) # Cardinality(S)
    BY <1>1, <2>2, FS_Subset
  <2>4. Cardinality(S) \in Nat /\ Cardinality(Below(t)) \in Nat
    BY <1>2, FS_CardinalityType
  <2> HIDE DEF Below
  <2>5. QED
    BY <2>3, <2>4
<1>4. ASSUME NEW t \in S, NEW s \in S, id[t] < id[s]
      PROVE  Cardinality(Below(t)) # Cardinality(Below(s))
  <2>1. Below(t) \in SUBSET Below(s)
    BY <1>4
  <2>2. t \in Below(s) /\ t \notin Below(t)
    BY <1>4
  <2>3. Below(t) # Below(s)
    BY <2>2
  <2>4. QED
    BY <1>2, <2>1, <2>3, FS_Subset
<1>5. ASSUME NEW t \in S, NEW s \in S, Cardinality(Below(t)) = Cardinality(Below(s))
      PROVE  t = s
  <2>1. ~(id[t] < id[s]) /\ ~(id[s] < id[t])
    BY <1>4, <1>5
  <2>2. QED
    BY <2>1
<1>6. QED
  BY <1>2, <1>3, <1>5

LEMMA EmptySound ==
  ASSUME NEW l \in Layouts
  PROVE  Sound(Empty(l)) /\ Known(Empty(l)) = {}
<1>1. Empty(l) \in VocabRecord
  BY LayoutAssumption DEF Empty, VocabRecord, NoId
<1>2. Known(Empty(l)) = {}
  BY DEF Empty, Known
<1>3. \A f \in Families : Empty(l).next[f] <= Empty(l).layout[f].capacity
  BY LayoutAssumption DEF Empty
<1>4. QED
  BY <1>1, <1>2, <1>3 DEF Sound, IdsSound

LEMMA AllocatedSound ==
  ASSUME NEW v, Sound(v), NEW t \in Tokens, NEW f \in Families, HasRoom(v, f)
  PROVE  Sound(Allocated(v, t, f))
<1> DEFINE w == Allocated(v, t, f)
           n == Start(v, f) + v.next[f]
<1>1. v \in VocabRecord /\ IdsSound(v)
  BY DEF Sound
<1>2. n \in Int /\ v.next[f] + 1 \in Nat /\ v.next[f] + 1 <= v.layout[f].capacity
  BY <1>1, RecordTypes DEF Start, HasRoom
<1>3. /\ w = [layout |-> w.layout, next |-> w.next, id |-> w.id, family |-> w.family]
      /\ w.layout = v.layout /\ w.next = [v.next EXCEPT ![f] = v.next[f] + 1]
      /\ w.id = [v.id EXCEPT ![t] = n] /\ w.family = [v.family EXCEPT ![t] = f]
  BY <1>1 DEF Allocated, VocabRecord
<1>4. /\ w \in VocabRecord /\ w.layout = v.layout
      /\ w.next[f] = v.next[f] + 1 /\ \A g \in Families : g # f => w.next[g] = v.next[g]
      /\ w.id[t] = n /\ \A u \in Tokens : u # t => w.id[u] = v.id[u]
      /\ w.family[t] = f /\ \A u \in Tokens : u # t => w.family[u] = v.family[u]
  BY <1>1, <1>2, <1>3, RecordTypes DEF VocabRecord
<1> HIDE DEF w
<1>5. \A g \in Families : w.next[g] <= w.layout[g].capacity
  BY <1>1, <1>2, <1>4 DEF IdsSound
<1>6. \A u \in Known(w) : u = t \/ u \in Known(v)
  BY <1>4 DEF Known
<1>7. ASSUME NEW u \in Known(w)
      PROVE  /\ Start(w, w.family[u]) <= w.id[u]
             /\ w.id[u] < Start(w, w.family[u]) + w.next[w.family[u]]
  <2>1. CASE u = t
    BY <1>1, <1>4, <2>1, RecordTypes DEF Start
  <2>2. CASE u # t
    <3>1. u \in Known(v) /\ u \in Tokens /\ v.family[u] \in Families
      BY <1>1, <1>6, <2>2, RecordTypes DEF Known
    <3>2. /\ Start(v, v.family[u]) <= v.id[u]
          /\ v.id[u] < Start(v, v.family[u]) + v.next[v.family[u]]
      BY <1>1, <3>1 DEF IdsSound
    <3>3. w.next[v.family[u]] >= v.next[v.family[u]] /\ v.next[v.family[u]] \in Nat
          /\ w.next[v.family[u]] \in Nat
      BY <1>1, <1>2, <1>4, <3>1, RecordTypes
    <3>4. QED
      BY <1>1, <1>4, <2>2, <3>1, <3>2, <3>3, RecordTypes DEF Start
  <2>3. QED
    BY <2>1, <2>2
<1>8. ASSUME NEW u \in Known(w), u # t, w.family[u] = f
      PROVE  w.id[u] # n
  <2>1. u \in Known(v) /\ u \in Tokens /\ v.family[u] = f
    BY <1>4, <1>6, <1>8 DEF Known
  <2>2. v.id[u] < n
    BY <1>1, <2>1 DEF IdsSound
  <2>3. QED
    BY <1>1, <1>2, <1>4, <1>8, <2>1, <2>2, RecordTypes
<1>9. ASSUME NEW s \in Known(w), NEW u \in Known(w), w.family[s] = w.family[u], w.id[s] = w.id[u]
      PROVE  s = u
  <2>1. CASE s # t /\ u # t
    <3>1. s \in Known(v) /\ u \in Known(v) /\ v.id[s] = v.id[u]
      BY <1>4, <1>6, <1>9, <2>1 DEF Known
    <3>2. QED
      BY <1>1, <3>1 DEF IdsSound
  <2>2. CASE s = t \/ u = t
    BY <1>4, <1>8, <1>9, <2>2
  <2>3. QED
    BY <2>1, <2>2
<1>10. QED
  BY <1>4, <1>5, <1>7, <1>9, SoundByFamily DEF w

\* A pinned token may leave a gap, and the family goes on behind it.
LEMMA PinnedSound ==
  ASSUME NEW v, Sound(v), NEW t \in Tokens, NEW f \in Families, NEW i \in Int, CanPin(v, f, i)
  PROVE  Sound(Pinned(v, t, f, i))
<1> DEFINE w == Pinned(v, t, f, i)
           n == IF i >= Start(v, f) + v.next[f] THEN i - Start(v, f) + 1 ELSE v.next[f]
<1>1. v \in VocabRecord /\ IdsSound(v)
  BY DEF Sound
<1>2. /\ v.next[f] \in Nat /\ v.layout[f].start \in Nat /\ v.layout[f].capacity \in Nat
      /\ v.layout[f].start <= i /\ i < v.layout[f].start + v.layout[f].capacity
      /\ v.next[f] <= v.layout[f].capacity
  BY <1>1, RecordTypes DEF CanPin, Start, End, IdsSound
<1>3. n \in Nat /\ v.next[f] <= n /\ n <= v.layout[f].capacity /\ i < v.layout[f].start + n
  BY <1>2 DEF Start
<1> HIDE DEF n
<1>4. /\ w = [layout |-> w.layout, next |-> w.next, id |-> w.id, family |-> w.family]
      /\ w.layout = v.layout /\ w.next = [v.next EXCEPT ![f] = n]
      /\ w.id = [v.id EXCEPT ![t] = i] /\ w.family = [v.family EXCEPT ![t] = f]
  BY DEF Pinned, n
<1> HIDE DEF w
<1>5. /\ w \in VocabRecord
      /\ w.next[f] = n /\ \A g \in Families : g # f => w.next[g] = v.next[g]
      /\ w.id[t] = i /\ \A u \in Tokens : u # t => w.id[u] = v.id[u]
      /\ w.family[t] = f /\ \A u \in Tokens : u # t => w.family[u] = v.family[u]
  BY <1>1, <1>3, <1>4, RecordTypes DEF VocabRecord
<1>6. \A g \in Families : w.next[g] <= w.layout[g].capacity
  BY <1>1, <1>3, <1>4, <1>5 DEF IdsSound
<1>7. \A u \in Known(w) : u = t \/ u \in Known(v)
  BY <1>5 DEF Known
<1>8. ASSUME NEW u \in Known(w)
      PROVE  /\ Start(w, w.family[u]) <= w.id[u]
             /\ w.id[u] < Start(w, w.family[u]) + w.next[w.family[u]]
  <2>1. CASE u = t
    BY <1>2, <1>3, <1>4, <1>5, <2>1 DEF Start
  <2>2. CASE u # t
    <3>1. u \in Known(v) /\ u \in Tokens /\ v.family[u] \in Families
      BY <1>1, <1>7, <2>2, RecordTypes DEF Known
    <3>2. /\ Start(v, v.family[u]) <= v.id[u]
          /\ v.id[u] < Start(v, v.family[u]) + v.next[v.family[u]]
      BY <1>1, <3>1 DEF IdsSound
    <3>3. w.next[v.family[u]] >= v.next[v.family[u]] /\ v.next[v.family[u]] \in Nat
          /\ w.next[v.family[u]] \in Nat
      BY <1>1, <1>3, <1>5, <3>1, RecordTypes
    <3>4. QED
      BY <1>1, <1>4, <1>5, <2>2, <3>1, <3>2, <3>3, RecordTypes DEF Start
  <2>3. QED
    BY <2>1, <2>2
<1>9. \A u \in Known(v) : v.id[u] # i
  BY DEF CanPin, IdsOf
<1>10. ASSUME NEW s \in Known(w), NEW u \in Known(w), w.id[s] = w.id[u]
       PROVE  s = u
  <2>1. CASE s # t /\ u # t
    <3>1. s \in Known(v) /\ u \in Known(v) /\ v.id[s] = v.id[u]
      BY <1>5, <1>7, <1>10, <2>1 DEF Known
    <3>2. QED
      BY <1>1, <3>1 DEF IdsSound
  <2>2. CASE s = t \/ u = t
    <3>1. s \in Tokens /\ u \in Tokens
      BY DEF Known
    <3>2. QED
      BY <1>5, <1>7, <1>9, <1>10, <2>2, <3>1
  <2>3. QED
    BY <2>1, <2>2
<1>11. QED
  BY <1>5, <1>6, <1>8, <1>10, SoundByFamily DEF w

\* The slot of a token is given back only if it is the last one.
LEMMA RemovedSound ==
  ASSUME NEW v, Sound(v), NEW t \in Known(v)
  PROVE  Sound(Removed(v, t))
<1> DEFINE w == Removed(v, t)
           f == v.family[t]
           n == IF v.id[t] = Start(v, f) + v.next[f] - 1 THEN v.next[f] - 1 ELSE v.next[f]
<1>1. v \in VocabRecord /\ IdsSound(v) /\ t \in Tokens /\ f \in Families
  BY RecordTypes DEF Sound, Known
<1>2. /\ v.next[f] \in Nat /\ v.layout[f].start \in Nat /\ v.id[t] \in Int
      /\ v.layout[f].start <= v.id[t] /\ v.id[t] < v.layout[f].start + v.next[f]
      /\ v.next[f] <= v.layout[f].capacity /\ v.layout[f].capacity \in Nat
  BY <1>1, RecordTypes DEF IdsSound, Start
<1>3. /\ n \in Nat /\ n <= v.layout[f].capacity
      /\ \/ n = v.next[f] /\ v.id[t] # v.layout[f].start + n - 1
         \/ n = v.next[f] - 1 /\ v.id[t] = v.layout[f].start + n
  BY <1>2 DEF Start
<1> HIDE DEF n
<1>4. /\ w = [layout |-> w.layout, next |-> w.next, id |-> w.id, family |-> w.family]
      /\ w.layout = v.layout /\ w.next = [v.next EXCEPT ![f] = n]
      /\ w.id = [v.id EXCEPT ![t] = NoId] /\ w.family = v.family
  BY DEF Removed, n
<1> HIDE DEF w, f
<1>5. /\ w \in VocabRecord
      /\ w.next[f] = n /\ \A g \in Families : g # f => w.next[g] = v.next[g]
      /\ w.id[t] = NoId /\ \A u \in Tokens : u # t => w.id[u] = v.id[u]
  BY <1>1, <1>3, <1>4, RecordTypes DEF VocabRecord, NoId
<1>6. \A g \in Families : w.next[g] <= w.layout[g].capacity
  BY <1>1, <1>3, <1>4, <1>5 DEF IdsSound
<1>7. \A u \in Known(w) : u # t /\ u \in Known(v) /\ u \in Tokens /\ w.id[u] = v.id[u]
  BY <1>5 DEF Known
<1>8. ASSUME NEW u \in Known(w)
      PROVE  /\ Start(w, w.family[u]) <= w.id[u]
             /\ w.id[u] < Start(w, w.family[u]) + w.next[w.family[u]]
  <2>1. /\ v.layout[v.family[u]].start <= v.id[u] /\ v.family[u] \in Families /\ v.id[u] \in Int
        /\ v.id[u] < v.layout[v.family[u]].start + v.next[v.family[u]] /\ v.id[u] # v.id[t]
    BY <1>1, <1>7, RecordTypes DEF IdsSound, Start
  <2>2. CASE v.family[u] = f
    BY <1>2, <1>3, <1>4, <1>5, <1>7, <2>1, <2>2 DEF Start
  <2>3. CASE v.family[u] # f
    BY <1>4, <1>5, <1>7, <2>1, <2>3 DEF Start
  <2>4. QED
    BY <2>2, <2>3
<1>9. \A s, u \in Known(w) : w.id[s] = w.id[u] => s = u
  BY <1>1, <1>7 DEF IdsSound
<1>10. QED
  BY <1>5, <1>6, <1>8, <1>9, SoundByFamily DEF w

\* As many tokens of a family are known as it has given slots out, or less.
LEMMA FamilyFits ==
  ASSUME NEW v, Sound(v), NEW f \in Families
  PROVE  LET S == {t \in Known(v) : v.family[t] = f} IN
         /\ IsFiniteSet(S) /\ Cardinality(S) \in Nat /\ Cardinality(S) <= v.next[f]
         /\ \A t \in S : v.id[t] \in Int
         /\ \A t, u \in S : v.id[t] = v.id[u] => t = u
<1> DEFINE S == {t \in Known(v) : v.family[t] = f}
           a == v.layout[f].start
           b == a + v.next[f] - 1
           ids == [t \in S |-> v.id[t]]
<1>1. v \in VocabRecord /\ IdsSound(v)
  BY DEF Sound
<1>2. a \in Nat /\ v.next[f] \in Nat /\ b \in Int
  BY <1>1, RecordTypes
<1>3. \A t \in S : v.id[t] \in a .. b
  BY <1>1, <1>2, RecordTypes DEF IdsSound, Known, Start
<1>4. \A t, u \in S : v.id[t] = v.id[u] => t = u
  BY <1>1 DEF IdsSound
<1> HIDE DEF S, a, b
<1>5. ids \in Injection(S, a .. b)
  BY <1>3, <1>4 DEF Injection, IsInjective
<1>6. IsFiniteSet(a .. b) /\ Cardinality(a .. b) = IF a > b THEN 0 ELSE b - a + 1
  BY <1>2, FS_Interval
<1>7. IsFiniteSet(S) /\ Cardinality(S) <= Cardinality(a .. b)
  BY <1>5, <1>6, FS_Injection
<1>8. Cardinality(a .. b) = v.next[f]
  BY <1>2, <1>6 DEF b
<1>9. Cardinality(S) \in Nat
  BY <1>7, FS_CardinalityType
<1>10. QED
  BY <1>2, <1>3, <1>4, <1>7, <1>8, <1>9 DEF S

\* load() gives each token the rank it has in its family.
LEMMA LoadedSound ==
  ASSUME NEW v, Sound(v)
  PROVE  Sound(Loaded(v))
<1> DEFINE w == Loaded(v)
           Of(f) == {t \in Known(v) : v.family[t] = f}
           PlaceOf(t) == Cardinality({u \in Of(v.family[t]) : v.id[u] < v.id[t]})
<1>1. v \in VocabRecord /\ IdsSound(v)
  BY DEF Sound
<1>2. \A f \in Families :
        /\ IsFiniteSet(Of(f)) /\ Cardinality(Of(f)) \in Nat /\ Cardinality(Of(f)) <= v.next[f]
        /\ \A t \in Of(f) : v.id[t] \in Int
        /\ \A t, u \in Of(f) : v.id[t] = v.id[u] => t = u
  BY FamilyFits
<1>3. \A t \in Known(v) : t \in Tokens /\ v.family[t] \in Families /\ t \in Of(v.family[t])
  BY <1>1, RecordTypes DEF Known
<1>4. ASSUME NEW f \in Families
      PROVE  /\ \A t \in Of(f) : PlaceOf(t) \in Nat /\ PlaceOf(t) < Cardinality(Of(f))
             /\ \A t, s \in Of(f) : PlaceOf(t) = PlaceOf(s) => t = s
  <2> DEFINE S == Of(f)
  <2>1. /\ IsFiniteSet(S) /\ (\A t \in S : v.id[t] \in Int)
        /\ \A t, u \in S : v.id[t] = v.id[u] => t = u
    BY <1>2
  <2>2. \A t \in S : PlaceOf(t) = Cardinality({u \in S : v.id[u] < v.id[t]})
    OBVIOUS
  <2> HIDE DEF S, PlaceOf
  <2>3. /\ \A t \in S : /\ Cardinality({u \in S : v.id[u] < v.id[t]}) \in Nat
                         /\ Cardinality({u \in S : v.id[u] < v.id[t]}) < Cardinality(S)
        /\ \A t, s \in S :
             Cardinality({u \in S : v.id[u] < v.id[t]}) = Cardinality({u \in S : v.id[u] < v.id[s]})
             => t = s
    BY <2>1, RankApart, SMTT(30)
  <2>4. QED
    BY <2>2, <2>3 DEF S
<1>5. /\ w = [layout |-> w.layout, next |-> w.next, id |-> w.id, family |-> w.family]
      /\ w.layout = v.layout /\ w.family = v.family
      /\ w.next = [f \in Families |-> Cardinality(Of(f))]
      /\ w.id = [t \in Tokens |-> IF t \in Known(v) THEN Start(v, v.family[t]) + PlaceOf(t) ELSE NoId]
  <2>1. \A t : {u \in Before(v, t) : v.family[u] = v.family[t]} = {u \in Of(v.family[t]) : v.id[u] < v.id[t]}
    BY DEF Before
  <2>2. QED
    BY <2>1 DEF Loaded
<1> HIDE DEF w, Of, PlaceOf
<1>6. \A t \in Known(v) : Start(v, v.family[t]) \in Nat /\ PlaceOf(t) \in Nat
  BY <1>1, <1>3, <1>4, RecordTypes DEF Start
<1>7. w \in VocabRecord
  <2>1. w.next \in [Families -> Nat]
    BY <1>2, <1>5
  <2>2. w.id \in [Tokens -> Int]
    BY <1>5, <1>6 DEF NoId
  <2>3. QED
    BY <1>1, <1>5, <2>1, <2>2, RecordTypes DEF VocabRecord
<1>8. \A t \in Known(w) : t \in Known(v) /\ w.id[t] = Start(v, v.family[t]) + PlaceOf(t)
  BY <1>5 DEF Known
<1>9. \A f \in Families : w.next[f] <= w.layout[f].capacity
  BY <1>1, <1>2, <1>5, RecordTypes DEF IdsSound
<1>10. ASSUME NEW t \in Known(w)
       PROVE  /\ Start(w, w.family[t]) <= w.id[t]
              /\ w.id[t] < Start(w, w.family[t]) + w.next[w.family[t]]
  <2>1. PlaceOf(t) < Cardinality(Of(v.family[t])) /\ Cardinality(Of(v.family[t])) \in Nat
    BY <1>2, <1>3, <1>4, <1>8
  <2>2. w.next[w.family[t]] = Cardinality(Of(v.family[t])) /\ Start(w, w.family[t]) = Start(v, v.family[t])
    BY <1>3, <1>5, <1>8 DEF Start
  <2>3. QED
    BY <1>6, <1>8, <2>1, <2>2
<1>11. ASSUME NEW t \in Known(w), NEW s \in Known(w), w.family[t] = w.family[s], w.id[t] = w.id[s]
       PROVE  t = s
  <2>1. v.family[t] = v.family[s] /\ t \in Known(v) /\ s \in Known(v)
    BY <1>5, <1>8, <1>11
  <2>2. Start(v, v.family[t]) + PlaceOf(t) = Start(v, v.family[t]) + PlaceOf(s)
    BY <1>8, <1>11, <2>1
  <2>3. Start(v, v.family[t]) \in Nat /\ PlaceOf(t) \in Nat /\ PlaceOf(s) \in Nat
    BY <1>6, <2>1
  <2>4. PlaceOf(t) = PlaceOf(s)
    BY <2>2, <2>3
  <2>5. t \in Of(v.family[t]) /\ s \in Of(v.family[t]) /\ v.family[t] \in Families
    BY <1>3, <2>1
  <2>6. QED
    BY <1>4, <2>4, <2>5
<1>12. QED
  BY <1>7, <1>9, <1>10, <1>11, SoundByFamily DEF w

\* The vocabulary of a tokenizer just built.
LEMMA DefaultSound ==
  /\ Sound(DefaultVocab) /\ Known(DefaultVocab) = DOMAIN Defaults
  /\ DefaultVocab.layout = DefaultLayout
  /\ \A t \in Tokens \ DOMAIN Defaults : DefaultVocab.family[t] = Guess[t]
<1> DEFINE w == DefaultVocab
           ts == DOMAIN Defaults
           Of(f) == {t \in ts : Defaults[t].family = f}
<1>1. /\ w = [layout |-> w.layout, next |-> w.next, id |-> w.id, family |-> w.family]
      /\ w.layout = DefaultLayout
      /\ w.next = [f \in Families |-> Cardinality(Of(f))]
      /\ w.id = [t \in Tokens |-> IF t \in ts THEN DefaultLayout[Defaults[t].family].start + Defaults[t].slot
                                   ELSE NoId]
      /\ w.family = [t \in Tokens |-> IF t \in ts THEN Defaults[t].family ELSE Guess[t]]
  BY DEF DefaultVocab
<1>2. \A f \in Families :
        /\ Cardinality(Of(f)) \in Nat /\ Cardinality(Of(f)) <= DefaultLayout[f].capacity
        /\ DefaultLayout[f].start \in Nat
        /\ \A t \in Of(f) : Defaults[t].slot < Cardinality(Of(f))
  <2>1. \A f \in Families : Of(f) \in SUBSET Tokens
    BY DefaultsAssumption
  <2>2. \A f \in Families : Cardinality(Of(f)) \in Nat
    BY <2>1, DefaultsAssumption, FS_Subset, FS_CardinalityType
  <2>3. QED
    BY <2>2, DefaultsAssumption, LayoutAssumption
<1>3. \A t \in ts : /\ t \in Tokens /\ Defaults[t].family \in Families /\ Defaults[t].slot \in Nat
                    /\ t \in Of(Defaults[t].family)
                    /\ Defaults[t] = [family |-> Defaults[t].family, slot |-> Defaults[t].slot]
  BY DefaultsAssumption
<1> DEFINE At(t) == DefaultLayout[Defaults[t].family].start + Defaults[t].slot
<1> HIDE DEF w, ts, Of
<1>nat. ASSUME NEW t \in ts PROVE At(t) \in Nat
  <2>1. Defaults[t].family \in Families /\ Defaults[t].slot \in Nat
    BY <1>3
  <2>2. DefaultLayout[Defaults[t].family].start \in Nat
    BY <1>2, <2>1
  <2>3. QED
    BY <2>1, <2>2
<1>ids. \A t \in Tokens : (t \in ts => w.id[t] = At(t)) /\ (t \notin ts => w.id[t] = NoId)
  BY <1>1
<1> HIDE DEF At
<1>ints. \A t \in Tokens : w.id[t] \in Int
  BY <1>nat, <1>ids DEF NoId
<1>4. w \in VocabRecord
  <2>1. w.next \in [Families -> Nat]
    BY <1>1, <1>2
  <2>2. w.id \in [Tokens -> Int]
    BY <1>1, <1>ints
  <2>3. w.family \in [Tokens -> Families]
    BY <1>1, <1>3, LayoutAssumption
  <2>4. QED
    BY <1>1, <2>1, <2>2, <2>3, LayoutAssumption DEF VocabRecord
<1>5. Known(w) = ts
  <2>1. ASSUME NEW t \in ts PROVE w.id[t] # NoId
    <3>1. w.id[t] = At(t) /\ At(t) \in Nat
      BY <1>3, <1>nat, <1>ids
    <3>2. QED
      BY <3>1 DEF NoId
  <2>2. QED
    BY <1>3, <1>ids, <2>1 DEF Known
<1>6. \A f \in Families : w.next[f] <= w.layout[f].capacity
  BY <1>1, <1>2
<1>7. ASSUME NEW t \in Known(w)
      PROVE  /\ Start(w, w.family[t]) <= w.id[t]
             /\ w.id[t] < Start(w, w.family[t]) + w.next[w.family[t]]
  <2>1. t \in ts /\ w.family[t] = Defaults[t].family /\ t \in Tokens /\ Defaults[t].family \in Families
        /\ w.id[t] = DefaultLayout[Defaults[t].family].start + Defaults[t].slot /\ Defaults[t].slot \in Nat
    BY <1>1, <1>3, <1>5 DEF At
  <2>2. w.next[w.family[t]] = Cardinality(Of(Defaults[t].family))
    BY <1>1, <2>1
  <2>3. Defaults[t].slot < Cardinality(Of(Defaults[t].family))
    BY <1>2, <1>3, <2>1
  <2>4. QED
    BY <1>1, <1>2, <2>1, <2>2, <2>3 DEF Start
<1>8. ASSUME NEW t \in Known(w), NEW s \in Known(w), w.family[t] = w.family[s], w.id[t] = w.id[s]
      PROVE  t = s
  <2>1. t \in ts /\ s \in ts
    BY <1>5
  <2>2. Defaults[t].family = Defaults[s].family /\ Defaults[t].slot = Defaults[s].slot
    <3>1. Defaults[t].family = Defaults[s].family
      BY <1>1, <1>3, <1>8, <2>1
    <3>2. At(t) = At(s) /\ At(t) \in Nat
      BY <1>3, <1>8, <1>nat, <1>ids, <2>1
    <3>3. DefaultLayout[Defaults[t].family].start \in Nat /\ Defaults[t].slot \in Nat /\ Defaults[s].slot \in Nat
      BY <1>2, <1>3, <2>1
    <3>4. QED
      BY <3>1, <3>2, <3>3 DEF At
  <2>3. Defaults[t] = Defaults[s]
    BY <1>3, <2>1, <2>2
  <2>4. QED
    BY <2>1, <2>3, DefaultsAssumption DEF ts
<1>9. Sound(w)
  BY <1>4, <1>6, <1>7, <1>8, SoundByFamily
<1>10. QED
  BY <1>1, <1>5, <1>9 DEF w, ts

\* restore_vocab_tokens(): behind the slots the default vocabulary uses, each token it
\* lacks gets the rank it has among those of the family its name suggests.
LEMMA RestoredSound ==
  ASSUME NEW v, Sound(v), Restorable(v)
  PROVE  Sound(Restored(v))
<1> DEFINE d == DefaultVocab
           w == Restored(v)
           Of(f) == {t \in Missing(v) : Guess[t] = f}
           PlaceOf(t) == Cardinality({u \in Of(Guess[t]) : v.id[u] < v.id[t]})
           Base(f) == Start(d, f) + d.next[f]
<1>1. v \in VocabRecord /\ IdsSound(v) /\ d \in VocabRecord /\ IdsSound(d)
  BY DefaultSound DEF Sound
<1>2. \A t \in Missing(v) : /\ t \in Tokens /\ t \in Known(v) /\ Guess[t] \in Families /\ t \in Of(Guess[t])
                            /\ t \notin Known(d) /\ d.family[t] = Guess[t] /\ v.id[t] \in Int
  BY <1>1, DefaultSound, LayoutAssumption, RecordTypes DEF Missing, Known
<1>3. \A f \in Families : /\ d.layout[f].start \in Nat /\ d.next[f] \in Nat /\ Start(d, f) \in Nat
                          /\ Base(f) \in Nat
  BY <1>1, RecordTypes DEF Start
<1>4. ASSUME NEW f \in Families
      PROVE  /\ IsFiniteSet(Of(f)) /\ Cardinality(Of(f)) \in Nat
             /\ \A t \in Of(f) : PlaceOf(t) \in Nat /\ PlaceOf(t) < Cardinality(Of(f))
             /\ \A t, s \in Of(f) : PlaceOf(t) = PlaceOf(s) => t = s
  <2> DEFINE S == Of(f)
  <2>1. S \in SUBSET Tokens
    BY <1>2
  <2>2. IsFiniteSet(S) /\ Cardinality(S) \in Nat
    BY <2>1, DefaultsAssumption, FS_Subset, FS_CardinalityType
  <2>3. (\A t \in S : v.id[t] \in Int) /\ (\A t, u \in S : v.id[t] = v.id[u] => t = u)
    BY <1>1, <1>2 DEF IdsSound
  <2>4. \A t \in S : PlaceOf(t) = Cardinality({u \in S : v.id[u] < v.id[t]})
    OBVIOUS
  <2> HIDE DEF S, PlaceOf
  <2>5. /\ \A t \in S : /\ Cardinality({u \in S : v.id[u] < v.id[t]}) \in Nat
                         /\ Cardinality({u \in S : v.id[u] < v.id[t]}) < Cardinality(S)
        /\ \A t, s \in S :
             Cardinality({u \in S : v.id[u] < v.id[t]}) = Cardinality({u \in S : v.id[u] < v.id[s]})
             => t = s
    BY <2>2, <2>3, RankApart
  <2>6. QED
    BY <2>2, <2>4, <2>5 DEF S
<1>5. /\ w = [layout |-> w.layout, next |-> w.next, id |-> w.id, family |-> w.family]
      /\ w.layout = d.layout /\ w.family = d.family
      /\ w.next = [f \in Families |-> d.next[f] + Cardinality(Of(f))]
      /\ w.id = [t \in Tokens |-> IF t \in Missing(v) THEN Base(Guess[t]) + PlaceOf(t) ELSE d.id[t]]
  <2>1. \A t : {u \in Missing(v) \cap Before(v, t) : Guess[u] = Guess[t]}
               = {u \in Of(Guess[t]) : v.id[u] < v.id[t]}
    BY DEF Before, Missing
  <2>2. QED
    BY <2>1 DEF Restored
<1>6. \A f \in Families : w.next[f] <= w.layout[f].capacity
  BY <1>5, DefaultSound DEF Restorable
<1> HIDE DEF w, d, Of, PlaceOf, Base
<1>7. ASSUME NEW t \in Missing(v)
      PROVE  /\ w.id[t] = Base(Guess[t]) + PlaceOf(t) /\ Base(Guess[t]) \in Nat /\ PlaceOf(t) \in Nat
             /\ PlaceOf(t) < Cardinality(Of(Guess[t])) /\ w.id[t] \in Int
             /\ Guess[t] \in Families /\ w.family[t] = Guess[t]
  <2>1. t \in Tokens /\ Guess[t] \in Families /\ t \in Of(Guess[t]) /\ d.family[t] = Guess[t]
    BY <1>2
  <2>2. w.id[t] = Base(Guess[t]) + PlaceOf(t) /\ w.family[t] = Guess[t]
    BY <1>5, <2>1
  <2>3. Base(Guess[t]) \in Nat
    BY <1>3, <2>1
  <2>4. PlaceOf(t) \in Nat /\ PlaceOf(t) < Cardinality(Of(Guess[t]))
    BY <1>4, <2>1
  <2>5. QED
    BY <2>1, <2>2, <2>3, <2>4
<1>8. w \in VocabRecord
  <2>1. w.next \in [Families -> Nat]
    BY <1>3, <1>4, <1>5
  <2>2. ASSUME NEW t \in Tokens PROVE w.id[t] \in Int
    <3>1. CASE t \in Missing(v)
      BY <1>7, <3>1
    <3>2. CASE t \notin Missing(v)
      BY <1>1, <1>5, <3>2, RecordTypes
    <3>3. QED
      BY <3>1, <3>2
  <2>3. w.id \in [Tokens -> Int]
    BY <1>5, <2>2
  <2>4. QED
    BY <1>1, <1>5, <2>1, <2>3, RecordTypes DEF VocabRecord
<1>9. \A t \in Known(w) : t \in Tokens /\ (t \notin Missing(v) => t \in Known(d) /\ w.id[t] = d.id[t])
  BY <1>5 DEF Known
<1>10. ASSUME NEW t \in Known(w), t \notin Missing(v)
       PROVE  /\ d.family[t] \in Families /\ d.id[t] \in Int
              /\ Start(d, d.family[t]) <= w.id[t] /\ w.id[t] < Base(d.family[t])
  BY <1>1, <1>9, <1>10, RecordTypes DEF IdsSound, Base
<1>11. ASSUME NEW t \in Known(w)
       PROVE  /\ Start(w, w.family[t]) <= w.id[t]
              /\ w.id[t] < Start(w, w.family[t]) + w.next[w.family[t]]
  <2>1. \A f \in Families : Start(w, f) = Start(d, f) /\ Start(w, f) + w.next[f] = Base(f) + Cardinality(Of(f))
    BY <1>3, <1>4, <1>5 DEF Start, Base
  <2>2. CASE t \in Missing(v)
    <3>1. Start(d, Guess[t]) <= Base(Guess[t])
      BY <1>3, <1>7, <2>2 DEF Base
    <3>2. Start(d, Guess[t]) \in Nat /\ Cardinality(Of(Guess[t])) \in Nat
      BY <1>3, <1>4, <1>7, <2>2
    <3>3. QED
      BY <1>7, <2>1, <2>2, <3>1, <3>2
  <2>3. CASE t \notin Missing(v)
    <3> DEFINE f == d.family[t]
    <3>1. f \in Families /\ d.id[t] \in Int /\ w.id[t] = d.id[t] /\ w.family[t] = f
          /\ Start(d, f) <= w.id[t] /\ w.id[t] < Base(f)
      BY <1>5, <1>9, <1>10, <2>3
    <3>2. Base(f) \in Nat /\ Cardinality(Of(f)) \in Nat
      BY <1>3, <1>4, <3>1
    <3>3. QED
      BY <2>1, <3>1, <3>2
  <2>4. QED
    BY <2>2, <2>3
<1>12. ASSUME NEW t \in Known(w), NEW s \in Known(w), w.family[t] = w.family[s], w.id[t] = w.id[s]
       PROVE  t = s
  <2>1. CASE t \in Missing(v) /\ s \in Missing(v)
    <3>1. Guess[t] = Guess[s] /\ PlaceOf(t) = PlaceOf(s)
      BY <1>7, <1>12, <2>1
    <3>2. t \in Of(Guess[t]) /\ s \in Of(Guess[t]) /\ Guess[t] \in Families
      BY <1>2, <2>1, <3>1
    <3>3. QED
      BY <1>4, <3>1, <3>2
  <2>2. CASE t \notin Missing(v) /\ s \notin Missing(v)
    <3>1. t \in Known(d) /\ s \in Known(d) /\ d.id[t] = d.id[s]
      BY <1>9, <1>12, <2>2
    <3>2. QED
      BY <1>1, <3>1 DEF IdsSound
  <2>3. ASSUME NEW x \in Known(w), NEW y \in Known(w), x \in Missing(v), y \notin Missing(v),
               w.family[x] = w.family[y]
        PROVE  w.id[x] # w.id[y]
    <3>above. /\ w.id[x] = Base(Guess[x]) + PlaceOf(x) /\ Base(Guess[x]) \in Nat /\ PlaceOf(x) \in Nat
          /\ w.family[x] = Guess[x]
      BY <1>7, <2>3
    <3>1. w.family[y] = d.family[y] /\ w.family[x] = Guess[x] /\ Base(Guess[x]) <= w.id[x]
          /\ Base(Guess[x]) \in Nat
      BY <1>5, <3>above
    <3>2. w.id[y] < Base(Guess[x]) /\ w.id[y] \in Int
      BY <1>9, <1>10, <2>3, <3>1
    <3>3. w.id[x] \in Int
      BY <1>7, <2>3
    <3>4. QED
      BY <3>1, <3>2, <3>3
  <2>4. QED
    BY <1>12, <2>1, <2>2, <2>3
<1>13. QED
  BY <1>6, <1>8, <1>11, <1>12, SoundByFamily DEF w

LEMMA VocabStart == VocabInit => VocabInv
<1>1. DefaultLayout \in Layouts
  BY LayoutAssumption
<1>2. QED
  BY <1>1, DefaultSound, EmptySound DEF VocabInit, VocabInv

\* Each step keeps both vocabularies sound.
LEMMA VocabStep == VocabInv /\ [VocabNext]_vocabVars => VocabInv'
<1> SUFFICES ASSUME VocabInv, [VocabNext]_vocabVars PROVE VocabInv'
  OBVIOUS
<1>1. /\ Sound(vocab) /\ Sound(target) /\ vocab \in VocabRecord /\ target \in VocabRecord
      /\ todo \subseteq [token : Tokens, family : Families, id : Int]
      /\ Sound(Empty(DefaultLayout))
  BY EmptySound, LayoutAssumption DEF VocabInv, Sound
<1>2. ASSUME NEW t \in Tokens, NEW f \in Families, RegisterToken(t, f) PROVE VocabInv'
  <2>1. Sound(Allocated(vocab, t, f))
    BY <1>1, <1>2, AllocatedSound DEF RegisterToken
  <2>2. QED
    BY <1>1, <1>2, <2>1 DEF RegisterToken, VocabInv
<1>3. ASSUME NEW t \in Tokens, NEW f \in Families, NEW i \in Start(vocab, f) .. End(vocab, f) - 1,
             RegisterPinnedToken(t, f, i)
      PROVE  VocabInv'
  <2>1. i \in Int
    BY <1>1, RecordTypes DEF Start, End
  <2>2. Sound(Pinned(vocab, t, f, i))
    BY <1>1, <1>3, <2>1, PinnedSound DEF RegisterPinnedToken
  <2>3. QED
    BY <1>1, <1>3, <2>2 DEF RegisterPinnedToken, VocabInv
<1>4. ASSUME NEW t \in Tokens, RemoveToken(t) PROVE VocabInv'
  <2>1. Sound(Removed(vocab, t))
    BY <1>1, <1>4, RemovedSound DEF RemoveToken
  <2>2. QED
    BY <1>1, <1>4, <2>1 DEF RemoveToken, VocabInv
<1>5. ASSUME SaveAndLoad PROVE VocabInv'
  <2>1. Sound(Loaded(vocab))
    BY <1>1, LoadedSound
  <2>2. QED
    BY <1>1, <1>5, <2>1 DEF SaveAndLoad, VocabInv
<1>6. ASSUME RestartFromCheckpoint PROVE VocabInv'
  <2>1. Sound(Restored(vocab))
    BY <1>1, <1>6, RestoredSound DEF RestartFromCheckpoint
  <2>2. QED
    BY <1>1, <1>6, <2>1 DEF RestartFromCheckpoint, VocabInv
<1>7. ASSUME NEW l \in Layouts, StartMigration(l) PROVE VocabInv'
  <2>1. Sound(Empty(l))
    BY EmptySound
  <2>2. \A t \in Known(vocab) : Carried(t) \in [token : Tokens, family : Families, id : Int]
    BY <1>1, RecordTypes DEF Known, Carried
  <2>3. QED
    BY <1>1, <1>7, <2>1, <2>2 DEF StartMigration, VocabInv
<1>8. ASSUME NEW r \in todo, MigrateRecord(r) PROVE VocabInv'
  <2>1. r.token \in Tokens /\ r.family \in Families /\ r.id \in Int
    BY <1>1
  <2>2. CanPin(target, r.family, r.id) => Sound(Pinned(target, r.token, r.family, r.id))
    BY <1>1, <2>1, PinnedSound
  <2>3. HasRoom(target, r.family) => Sound(Allocated(target, r.token, r.family))
    BY <1>1, <2>1, AllocatedSound
  <2>4. Sound(target') /\ Sound(vocab')
    BY <1>1, <1>8, <2>2, <2>3 DEF MigrateRecord
  <2>5. QED
    BY <1>1, <1>8, <2>4 DEF MigrateRecord, VocabInv
<1>9. ASSUME EndMigration PROVE VocabInv'
  BY <1>1, <1>9 DEF EndMigration, VocabInv
<1>10. CASE UNCHANGED vocabVars
  BY <1>1, <1>10 DEF vocabVars, VocabInv
<1>11. QED
  BY <1>2, <1>3, <1>4, <1>5, <1>6, <1>7, <1>8, <1>9, <1>10 DEF VocabNext

\* However tokens are registered, pinned, removed, saved, restored or migrated, in any
\* layout, no two tokens share an id and the next id given out is free.
THEOREM IdsStayApart == VocabSpec => []IdsApart
<1>1. VocabInv => IdsApart
  BY DEF VocabInv, Sound, IdsApart
<1>2. QED
  BY <1>1, VocabStart, VocabStep, PTL DEF VocabSpec

-----------------------------------------------------------------------------
(* CheckpointRetention                                                     *)

Entry == [path : PathNames, loss : Losses]

RetentionTyped ==
  /\ folder \in Seq(PathNames) /\ best \in Seq(Entry) /\ Len(best) <= KeepBest
  /\ lastPath \in Checkpoints \cup {NoPath}
  /\ saving \in [at : {"idle", "rank", "meta"}, path : PathNames \cup {NoPath},
                 loss : Losses \cup {NoLoss}]
  /\ saving.at = "rank" => saving.path \in PathNames /\ saving.loss \in Losses
  /\ ranked \subseteq Entry
  /\ unsure \subseteq Checkpoints

\* The first entry is the lowest that was ever ranked.
BestIsFirst ==
  /\ \A i \in 1 .. Len(best) : best[i] \in ranked
  /\ \A r \in ranked : best # <<>> /\ best[1].loss <= r.loss

\* The ranked files exist, each for one entry, and what is about to be ranked is another
\* one: deleting what falls out of the ranking takes no file that stays in it.
BestOnDisk ==
  /\ \A i \in 1 .. Len(best) : OnDisk(best[i].path)
  /\ \A i, j \in 1 .. Len(best) : best[i].path = best[j].path => i = j \/ best[i].path = BestFile
  /\ saving.at = "rank" => /\ OnDisk(saving.path)
                           /\ saving.path = BestFile \/ \A r \in ranked : r.path # saving.path

RetentionInv == RetentionTyped /\ BestIsFirst /\ (unsure = {} => BestOnDisk)

LEMMA RetentionStarts == RetentionInit => RetentionInv
<1> SUFFICES ASSUME RetentionInit PROVE RetentionInv
  OBVIOUS
<1>1. folder \in Seq(PathNames) /\ best \in Seq(Entry) /\ Len(best) = 0 /\ 1 .. Len(best) = {}
  BY EmptySeq DEF RetentionInit
<1>2. RetentionTyped
  BY <1>1, RetentionAssumption DEF RetentionInit, RetentionTyped, NotSaving, NoLoss
<1>3. BestIsFirst
  BY <1>1 DEF RetentionInit, BestIsFirst
<1>4. BestOnDisk
  BY <1>1 DEF RetentionInit, BestOnDisk, NotSaving
<1> QED
  BY <1>2, <1>3, <1>4 DEF RetentionInv

\* Deleting files leaves the others.
LEMMA WithoutKeeps ==
  ASSUME NEW files \in Seq(PathNames), NEW gone
  PROVE  /\ Without(files, gone) \in Seq(PathNames)
         /\ Range(Without(files, gone)) = Range(files) \ gone
<1> DEFINE kept == PathNames \ gone
           rest == Filtered(files, kept)
<1> HIDE DEF kept
<1>1. rest \in Seq(PathNames)
  BY FilteredPicks
<1>2. {rest[i] : i \in 1 .. Len(rest)} = {files[k] : k \in 1 .. Len(files)} \cap kept
  BY FilteredMembers
<1> HIDE DEF rest
<1>3. DOMAIN rest = 1 .. Len(rest) /\ DOMAIN files = 1 .. Len(files)
  BY <1>1, LenProperties
<1>4. \A k \in 1 .. Len(files) : files[k] \in PathNames
  BY ElementOfSeq
<1>5. Range(rest) = Range(files) \ gone
  BY <1>2, <1>3, <1>4 DEF Range, kept
<1>6. rest = Without(files, gone)
  BY DEF Without, kept, rest
<1> QED
  BY <1>1, <1>5, <1>6

LEMMA WrittenIsThere ==
  ASSUME folder \in Seq(PathNames), NEW path \in PathNames
  PROVE  /\ Written(path) \in Seq(PathNames)
         /\ Range(Written(path)) = Range(folder) \cup {path}
<1> DEFINE rest == Without(folder, {path})
<1>1. rest \in Seq(PathNames) /\ Range(rest) = Range(folder) \ {path}
  BY WithoutKeeps
<1>2. Written(path) = Append(rest, path)
  BY DEF Written
<1> HIDE DEF rest
<1>3. /\ Append(rest, path) \in Seq(PathNames) /\ Len(Append(rest, path)) = Len(rest) + 1
      /\ \A i \in 1 .. Len(rest) : Append(rest, path)[i] = rest[i]
      /\ Append(rest, path)[Len(rest) + 1] = path
  BY <1>1, AppendProperties
<1>4. /\ DOMAIN rest = 1 .. Len(rest) /\ Len(rest) \in Nat
      /\ DOMAIN Append(rest, path) = 1 .. (Len(rest) + 1)
  BY <1>1, <1>3, LenProperties
<1>5. Range(Append(rest, path)) = Range(rest) \cup {path}
  BY <1>3, <1>4 DEF Range
<1> QED
  BY <1>1, <1>2, <1>3, <1>5

\* The ranking is a list of the ranked entries and the new one, each once, and begins
\* with one that is as low as any of them.
LEMMA RankingRanks ==
  ASSUME best \in Seq(Entry), RankedEntry \in Entry, RankedEntry.loss = saving.loss,
         \A i \in 1 .. Len(best) : best[1].loss <= best[i].loss
  PROVE  /\ Ranking \in Seq(Entry) /\ Len(Ranking) >= 1
         /\ \E g : ComesFrom(Ranking, g, best, RankedEntry)
         /\ Ranking[1].loss <= saving.loss
         /\ \A i \in 1 .. Len(best) : Ranking[1].loss <= best[i].loss
<1> DEFINE lower == {b \in Range(best) : b.loss <= saving.loss}
           higher == Range(best) \ lower
           N == Len(best)
<1>1. /\ N \in Nat /\ saving.loss \in Nat
      /\ \A k \in 1 .. N : best[k].loss \in Nat
      /\ \A k \in 1 .. N : best[k] \in lower <=> best[k].loss <= saving.loss
  <2>1. N \in Nat /\ DOMAIN best = 1 .. N
    BY LenProperties
  <2>2. \A k \in 1 .. N : best[k] \in Entry
    BY ElementOfSeq
  <2> QED
    BY <2>1, <2>2, RetentionAssumption DEF Entry, Range
<1>2. \A k \in 1 .. N : ~(best[k] \in lower /\ best[k] \in higher)
  OBVIOUS
<1>3. Ranking = Inserted(best, lower, RankedEntry, higher)
  BY DEF Ranking, Inserted
<1> HIDE DEF lower, higher, N
<1>4. /\ Ranking \in Seq(Entry) /\ Len(Ranking) >= 1
      /\ \E g : ComesFrom(Ranking, g, best, RankedEntry) /\ BeginsWith(g, best, lower)
  <2>1. \A k \in 1 .. Len(best) : ~(best[k] \in lower /\ best[k] \in higher)
    BY <1>2 DEF N
  <2> QED
    BY <1>3, <2>1, InsertedPicks
<1>5. PICK g : ComesFrom(Ranking, g, best, RankedEntry) /\ BeginsWith(g, best, lower)
  BY <1>4
<1>5a. /\ g \in [1 .. Len(Ranking) -> 0 .. N]
       /\ \A i \in 1 .. Len(Ranking) : Ranking[i] = IF g[i] = 0 THEN RankedEntry ELSE best[g[i]]
       /\ g[1] = 0 => \A k \in 1 .. N : best[k] \notin lower
       /\ g[1] # 0 => best[g[1]] \in lower /\ \A k \in 1 .. N : k < g[1] => best[k] \notin lower
  BY <1>5 DEF ComesFrom, BeginsWith, N
<1>7. 1 \in 1 .. Len(Ranking)
  <2>1. Len(Ranking) \in Nat
    BY <1>4, LenProperties
  <2> QED
    BY <1>4, <2>1
<1>8. /\ Ranking[1].loss <= saving.loss
      /\ \A i \in 1 .. N : Ranking[1].loss <= best[i].loss
  <2>1. CASE g[1] = 0
    <3>1. Ranking[1] = RankedEntry
      BY <1>5a, <1>7, <2>1
    <3>2. \A k \in 1 .. N : ~(best[k].loss <= saving.loss)
      BY <1>1, <1>5a, <2>1
    <3> QED
      BY <1>1, <3>1, <3>2
  <2>2. CASE g[1] # 0
    <3>1. g[1] \in 1 .. N /\ Ranking[1] = best[g[1]]
      BY <1>1, <1>5a, <1>7, <2>2
    <3>2. best[g[1]].loss <= saving.loss /\ best[1].loss <= best[g[1]].loss /\ 1 \in 1 .. N
      BY <1>1, <1>5a, <2>2, <3>1 DEF N
    <3>3. best[1] \in lower
      BY <1>1, <3>1, <3>2
    <3>4. ~(1 < g[1])
      BY <1>5a, <2>2, <3>2, <3>3
    <3>5. g[1] = 1
      BY <1>1, <3>1, <3>4
    <3>6. Ranking[1] = best[1]
      BY <3>1, <3>5
    <3> QED
      BY <3>2, <3>5, <3>6 DEF N
  <2> QED
    BY <2>1, <2>2
<1> QED
  BY <1>4, <1>5, <1>8 DEF N

LEMMA SmallerOfTwo ==
  ASSUME NEW a \in Nat, NEW b \in Nat
  PROVE  Min({a, b}) \in {a, b} /\ Min({a, b}) <= a /\ Min({a, b}) <= b
<1> DEFINE P(x) == x \in {a, b} /\ \A y \in {a, b} : x <= y
<1>1. \E x : P(x)
  <2>1. CASE a <= b
    BY <2>1
  <2>2. CASE b <= a
    BY <2>2
  <2> QED
    BY <2>1, <2>2
<1>2. Min({a, b}) = CHOOSE x \in {a, b} : \A y \in {a, b} : x <= y
  BY DEF Min
<1>3. P(Min({a, b}))
  BY <1>1, <1>2
<1> QED
  BY <1>3

\* What save() and save_best() do to what is ranked: nothing, and the files stay.
LEMMA WritingKeeps ==
  ASSUME RetentionInv, NEW path \in PathNames, folder' = Written(path),
         UNCHANGED <<best, ranked>>
  PROVE  /\ folder' \in Seq(PathNames) /\ BestIsFirst'
         /\ path \in Range(folder') /\ Range(folder) \subseteq Range(folder')
<1>1. folder \in Seq(PathNames)
  BY DEF RetentionInv, RetentionTyped
<1>2. Written(path) \in Seq(PathNames) /\ Range(Written(path)) = Range(folder) \cup {path}
  BY <1>1, WrittenIsThere
<1>3. folder' \in Seq(PathNames) /\ Range(folder') = Range(folder) \cup {path}
  BY <1>2
<1>4. BestIsFirst'
  BY DEF RetentionInv, BestIsFirst
<1> QED
  BY <1>3, <1>4

LEMMA SaveKeeps == RetentionInv /\ Save => RetentionInv'
<1> SUFFICES ASSUME RetentionInv, Save PROVE RetentionInv'
  OBVIOUS
<1>1. PICK path \in Checkpoints, loss \in Losses \cup {NoLoss} :
        /\ folder' = Written(path) /\ lastPath' = path
        /\ unsure' = IF \E r \in ranked : r.path = path THEN unsure \cup {path} ELSE unsure
        /\ saving' = [at |-> IF loss = NoLoss THEN "meta" ELSE "rank", path |-> path, loss |-> loss]
        /\ UNCHANGED <<best, ranked>>
  BY DEF Save
<1>2. path \in PathNames
  BY DEF PathNames
<1>3. /\ folder' \in Seq(PathNames) /\ BestIsFirst' /\ path \in Range(folder')
      /\ Range(folder) \subseteq Range(folder')
  BY <1>1, <1>2, WritingKeeps
<1>4. RetentionTyped'
  <2>1. /\ saving' \in [at : {"idle", "rank", "meta"}, path : PathNames \cup {NoPath},
                        loss : Losses \cup {NoLoss}]
        /\ saving'.at = "rank" => saving'.path \in PathNames /\ saving'.loss \in Losses
    BY <1>1, <1>2
  <2>2. unsure' \subseteq Checkpoints
    BY <1>1 DEF RetentionInv, RetentionTyped
  <2> QED
    BY <1>1, <1>3, <2>1, <2>2 DEF RetentionInv, RetentionTyped
<1>5. ASSUME unsure' = {} PROVE BestOnDisk'
  <2>1. unsure = {} /\ \A r \in ranked : r.path # path
    BY <1>1, <1>5
  <2>2. BestOnDisk
    BY <2>1 DEF RetentionInv
  <2>3. saving'.path = path
    BY <1>1
  <2>4. \A i \in 1 .. Len(best') : best'[i].path \in Range(folder')
    BY <1>1, <1>3, <2>2 DEF BestOnDisk, OnDisk
  <2>5. \A i, j \in 1 .. Len(best') :
          best'[i].path = best'[j].path => i = j \/ best'[i].path = BestFile
    BY <1>1, <2>2 DEF BestOnDisk
  <2>6. saving'.path \in Range(folder') /\ \A r \in ranked' : r.path # saving'.path
    BY <1>1, <1>3, <2>1, <2>3 DEF OnDisk
  <2> QED
    BY <2>4, <2>5, <2>6 DEF BestOnDisk, OnDisk
<1> QED
  BY <1>3, <1>4, <1>5 DEF RetentionInv

LEMMA SaveBestKeeps == RetentionInv /\ SaveBest => RetentionInv'
<1> SUFFICES ASSUME RetentionInv, SaveBest PROVE RetentionInv'
  OBVIOUS
<1>1. PICK loss \in Losses :
        /\ folder' = Written(BestFile)
        /\ saving' = [at |-> "rank", path |-> BestFile, loss |-> loss]
        /\ UNCHANGED <<best, lastPath, ranked, unsure>>
  BY DEF SaveBest
<1>2. BestFile \in PathNames
  BY DEF PathNames
<1>3. /\ folder' \in Seq(PathNames) /\ BestIsFirst' /\ BestFile \in Range(folder')
      /\ Range(folder) \subseteq Range(folder')
  BY <1>1, <1>2, WritingKeeps
<1>4. RetentionTyped'
  <2>1. /\ saving' \in [at : {"idle", "rank", "meta"}, path : PathNames \cup {NoPath},
                        loss : Losses \cup {NoLoss}]
        /\ saving'.at = "rank" => saving'.path \in PathNames /\ saving'.loss \in Losses
    BY <1>1, <1>2
  <2> QED
    BY <1>1, <1>3, <2>1 DEF RetentionInv, RetentionTyped
<1>5. ASSUME unsure' = {} PROVE BestOnDisk'
  <2>1. BestOnDisk
    BY <1>1, <1>5 DEF RetentionInv
  <2>2. saving'.path = BestFile
    BY <1>1
  <2>3. \A i \in 1 .. Len(best') : best'[i].path \in Range(folder')
    BY <1>1, <1>3, <2>1 DEF BestOnDisk, OnDisk
  <2>4. \A i, j \in 1 .. Len(best') :
          best'[i].path = best'[j].path => i = j \/ best'[i].path = BestFile
    BY <1>1, <2>1 DEF BestOnDisk
  <2> QED
    BY <1>3, <2>2, <2>3, <2>4 DEF BestOnDisk, OnDisk
<1> QED
  BY <1>3, <1>4, <1>5 DEF RetentionInv

\* A file is ranked by one entry, and the new entry is about none of them.
LEMMA RankingDistinct ==
  ASSUME RetentionTyped, BestIsFirst, BestOnDisk, saving.at = "rank",
         NEW g, ComesFrom(Ranking, g, best, RankedEntry)
  PROVE  /\ \A i \in 1 .. Len(Ranking) : Ranking[i].path \in Range(folder)
         /\ \A i, j \in 1 .. Len(Ranking) :
              Ranking[i].path = Ranking[j].path => i = j \/ Ranking[i].path = BestFile
<1>1. /\ RankedEntry.path = saving.path /\ saving.path \in Range(folder)
      /\ saving.path = BestFile \/ \A r \in ranked : r.path # saving.path
  BY DEF BestOnDisk, OnDisk, RankedEntry
<1>2. ASSUME NEW i \in 1 .. Len(Ranking)
      PROVE  \/ g[i] = 0 /\ Ranking[i] = RankedEntry
             \/ g[i] \in 1 .. Len(best) /\ g[i] # 0 /\ Ranking[i] = best[g[i]]
  <2>1. g[i] \in 0 .. Len(best) /\ Ranking[i] = IF g[i] = 0 THEN RankedEntry ELSE best[g[i]]
    BY DEF ComesFrom
  <2>2. Len(best) \in Nat
    BY LenProperties DEF RetentionTyped
  <2> QED
    BY <2>1, <2>2
<1>3. \A i \in 1 .. Len(Ranking) : Ranking[i].path \in Range(folder)
  BY <1>1, <1>2 DEF BestOnDisk, OnDisk
<1>4. ASSUME NEW i \in 1 .. Len(Ranking), NEW j \in 1 .. Len(Ranking),
             Ranking[i].path = Ranking[j].path
      PROVE  i = j \/ Ranking[i].path = BestFile
  <2>1. g[i] = g[j] => i = j
    BY DEF ComesFrom
  <2>2. CASE g[i] = 0 /\ g[j] = 0
    BY <2>1, <2>2
  <2>3. CASE g[i] = 0 /\ g[j] # 0
    BY <1>1, <1>2, <1>4, <2>3 DEF BestIsFirst
  <2>4. CASE g[i] # 0 /\ g[j] = 0
    BY <1>1, <1>2, <1>4, <2>4 DEF BestIsFirst
  <2>5. CASE g[i] # 0 /\ g[j] # 0
    BY <1>2, <1>4, <2>1, <2>5, SMTT(30) DEF BestOnDisk
  <2> QED
    BY <2>2, <2>3, <2>4, <2>5
<1> QED
  BY <1>3, <1>4

LEMMA RankKeeps == RetentionInv /\ Rank => RetentionInv'
<1> SUFFICES ASSUME RetentionInv, Rank PROVE RetentionInv'
  OBVIOUS
<1> DEFINE ranks == Ranking
           N == Len(ranks)
           m == Min({KeepBest, N})
           stale == {ranks[i].path : i \in KeepBest + 1 .. N}
<1>1. /\ saving.at = "rank"
      /\ folder' = Without(folder, stale \ {BestFile})
      /\ best' = SubSeq(ranks, 1, m)
      /\ ranked' = ranked \cup {RankedEntry}
      /\ saving' = [saving EXCEPT !.at = "meta"]
      /\ UNCHANGED <<lastPath, unsure>>
  BY DEF Rank
<1>2. RetentionTyped /\ BestIsFirst
  BY DEF RetentionInv
<1>3. RankedEntry \in Entry /\ RankedEntry.loss = saving.loss /\ saving.loss \in Nat
  BY <1>1, <1>2, RetentionAssumption DEF RankedEntry, Entry, RetentionTyped
<1>4. \A i \in 1 .. Len(best) : best[1].loss <= best[i].loss
  BY <1>2 DEF BestIsFirst
<1>5. /\ ranks \in Seq(Entry) /\ N >= 1
      /\ \E g : ComesFrom(ranks, g, best, RankedEntry)
      /\ ranks[1].loss <= saving.loss
      /\ \A i \in 1 .. Len(best) : ranks[1].loss <= best[i].loss
  <2>1. best \in Seq(Entry)
    BY <1>2 DEF RetentionTyped
  <2> QED
    BY <1>3, <1>4, <2>1, RankingRanks
<1>6. PICK g : ComesFrom(ranks, g, best, RankedEntry)
  BY <1>5
<1>7. /\ ComesFrom(Ranking, g, best, RankedEntry)
      /\ BestOnDisk => /\ \A i \in 1 .. N : ranks[i].path \in Range(folder)
                       /\ \A i, j \in 1 .. N :
                            ranks[i].path = ranks[j].path => i = j \/ ranks[i].path = BestFile
  BY <1>1, <1>2, <1>6, RankingDistinct
<1> HIDE DEF ranks
<1>8. /\ N \in Nat /\ KeepBest \in Nat /\ KeepBest # 0
      /\ m \in Nat /\ 1 <= m /\ m <= N /\ m <= KeepBest
  <2>1. N \in Nat
    BY <1>5, LenProperties
  <2> QED
    BY <1>5, <2>1, SmallerOfTwo, RetentionAssumption
<1> HIDE DEF m
<1>9. /\ best' \in Seq(Entry) /\ Len(best') = m
      /\ \A i \in 1 .. m : best'[i] = ranks[i]
  <2>1. 1 \in 1 .. N + 1 /\ m \in 0 .. N
    BY <1>8
  <2>2. /\ SubSeq(ranks, 1, m) \in Seq(Entry)
        /\ Len(SubSeq(ranks, 1, m)) = (IF 1 <= m THEN m - 1 + 1 ELSE 0)
        /\ \A i \in 1 .. m - 1 + 1 : SubSeq(ranks, 1, m)[i] = ranks[1 + i - 1]
    BY <1>5, <2>1, SubSeqProperties
  <2>3. m - 1 + 1 = m /\ \A i \in 1 .. m : 1 + i - 1 = i
    BY <1>8
  <2> QED
    BY <1>1, <1>8, <2>2, <2>3
<1>10. folder' \in Seq(PathNames) /\ Range(folder') = Range(folder) \ (stale \ {BestFile})
  <2>1. folder \in Seq(PathNames)
    BY <1>2 DEF RetentionTyped
  <2> QED
    BY <1>1, <2>1, WithoutKeeps
<1>11. RetentionTyped'
  <2>1. /\ saving' \in [at : {"idle", "rank", "meta"}, path : PathNames \cup {NoPath},
                        loss : Losses \cup {NoLoss}]
        /\ saving'.at = "meta"
    BY <1>1, <1>2 DEF RetentionTyped
  <2>2. ranked' \subseteq Entry
    BY <1>1, <1>2, <1>3 DEF RetentionTyped
  <2> QED
    BY <1>1, <1>2, <1>8, <1>9, <1>10, <2>1, <2>2 DEF RetentionTyped
<1>12. BestIsFirst'
  <2>1. ASSUME NEW i \in 1 .. Len(best') PROVE best'[i] \in ranked'
    <3>1. i \in 1 .. N /\ best'[i] = ranks[i]
      BY <1>8, <1>9
    <3>2. g[i] \in 0 .. Len(best) /\ ranks[i] = IF g[i] = 0 THEN RankedEntry ELSE best[g[i]]
      BY <1>6, <3>1 DEF ComesFrom
    <3>3. Len(best) \in Nat
      BY <1>2, LenProperties DEF RetentionTyped
    <3>4. g[i] # 0 => g[i] \in 1 .. Len(best)
      BY <3>2, <3>3
    <3> QED
      BY <1>1, <1>2, <3>1, <3>2, <3>4 DEF BestIsFirst
  <2>2. best' # <<>> /\ best'[1] = ranks[1]
    BY <1>8, <1>9, EmptySeq
  <2>3. ASSUME NEW r \in ranked' PROVE ranks[1].loss <= r.loss
    <3>1. CASE r = RankedEntry
      BY <1>3, <1>5, <3>1
    <3>2. CASE r \in ranked
      <4>1. best # <<>> /\ best[1].loss <= r.loss
        BY <1>2, <3>2 DEF BestIsFirst
      <4>2. 1 \in 1 .. Len(best)
        BY <1>2, <4>1, EmptySeq, LenProperties DEF RetentionTyped
      <4>3. ranks[1].loss <= best[1].loss
        BY <1>5, <4>2
      <4>4. ranks[1] \in Entry /\ best[1] \in Entry /\ r \in Entry
        BY <1>2, <1>5, <1>8, <3>2, <4>2, ElementOfSeq DEF RetentionTyped
      <4>5. ranks[1].loss \in Nat /\ best[1].loss \in Nat /\ r.loss \in Nat
        BY <4>4, RetentionAssumption DEF Entry
      <4> QED
        BY <4>1, <4>3, <4>5
    <3> QED
      BY <1>1, <3>1, <3>2
  <2> QED
    BY <2>1, <2>2, <2>3 DEF BestIsFirst
<1>13. ASSUME unsure' = {} PROVE BestOnDisk'
  <2>1. BestOnDisk
    BY <1>1, <1>13 DEF RetentionInv
  <2>2. ASSUME NEW i \in 1 .. Len(best') PROVE best'[i].path \in Range(folder')
    <3>1. i \in 1 .. N /\ i <= KeepBest /\ best'[i] = ranks[i]
      BY <1>8, <1>9
    <3>2. ranks[i].path \in Range(folder)
      BY <1>7, <2>1, <3>1
    <3>3. ASSUME ranks[i].path \in stale PROVE ranks[i].path = BestFile
      <4>1. PICK j \in KeepBest + 1 .. N : ranks[j].path = ranks[i].path
        BY <3>3
      <4>2. j \in 1 .. N /\ i # j
        BY <1>8, <3>1
      <4> QED
        BY <1>7, <2>1, <3>1, <4>1, <4>2
    <3> QED
      BY <1>10, <3>1, <3>2, <3>3
  <2>3. ASSUME NEW i \in 1 .. Len(best'), NEW j \in 1 .. Len(best'),
               best'[i].path = best'[j].path
        PROVE  i = j \/ best'[i].path = BestFile
    <3>1. /\ i \in 1 .. N /\ best'[i] = ranks[i]
          /\ j \in 1 .. N /\ best'[j] = ranks[j]
      BY <1>8, <1>9
    <3> QED
      BY <1>7, <2>1, <2>3, <3>1
  <2>4. saving'.at # "rank"
    BY <1>1, <1>2 DEF RetentionTyped
  <2> QED
    BY <2>2, <2>3, <2>4 DEF BestOnDisk, OnDisk
<1> QED
  BY <1>11, <1>12, <1>13 DEF RetentionInv

LEMMA WriteMetaKeeps == RetentionInv /\ WriteMeta => RetentionInv'
<1> SUFFICES ASSUME RetentionInv, WriteMeta PROVE RetentionInv'
  OBVIOUS
<1>1. saving' = NotSaving /\ UNCHANGED <<folder, best, lastPath, ranked, unsure>>
  BY DEF WriteMeta
<1>2. /\ saving' \in [at : {"idle", "rank", "meta"}, path : PathNames \cup {NoPath},
                      loss : Losses \cup {NoLoss}]
      /\ saving'.at = "idle"
  BY <1>1 DEF NotSaving, NoLoss
<1>3. RetentionTyped'
  BY <1>1, <1>2 DEF RetentionInv, RetentionTyped
<1>4. BestIsFirst'
  BY <1>1 DEF RetentionInv, BestIsFirst
<1>5. unsure' = {} => BestOnDisk'
  BY <1>1, <1>2 DEF RetentionInv, BestOnDisk, OnDisk
<1> QED
  BY <1>3, <1>4, <1>5 DEF RetentionInv

\* What cleanup takes is recorded as unsure.
LEMMA CleanupKeeps == RetentionInv /\ Cleanup => RetentionInv'
<1> SUFFICES ASSUME RetentionInv, Cleanup PROVE RetentionInv'
  OBVIOUS
<1> DEFINE files == Without(folder, {BestFile})
           oldest == {files[i] : i \in 1 .. Len(files) - Keep}
<1>1. /\ oldest # {} /\ folder' = Without(folder, oldest) /\ unsure' = unsure \cup oldest
      /\ UNCHANGED <<best, lastPath, saving, ranked>>
  BY DEF Cleanup
<1>2. folder \in Seq(PathNames)
  BY DEF RetentionInv, RetentionTyped
<1>3. files \in Seq(PathNames) /\ Range(files) = Range(folder) \ {BestFile}
  BY <1>2, WithoutKeeps
<1> HIDE DEF files
<1>4. /\ DOMAIN files = 1 .. Len(files) /\ Len(files) \in Nat
      /\ \A k \in 1 .. Len(files) : files[k] \in PathNames
  BY <1>3, LenProperties, ElementOfSeq
<1>5. oldest \subseteq Checkpoints
  <2>1. \A i \in 1 .. Len(files) - Keep : i \in 1 .. Len(files)
    BY <1>4, RetentionAssumption
  <2>2. \A k \in 1 .. Len(files) : files[k] # BestFile
    BY <1>3, <1>4 DEF Range
  <2> QED
    BY <1>4, <2>1, <2>2 DEF PathNames
<1> HIDE DEF oldest
<1>6. folder' \in Seq(PathNames)
  BY <1>1, <1>2, WithoutKeeps
<1>7. RetentionTyped'
  BY <1>1, <1>5, <1>6 DEF RetentionInv, RetentionTyped
<1>8. BestIsFirst'
  BY <1>1 DEF RetentionInv, BestIsFirst
<1> QED
  BY <1>1, <1>7, <1>8 DEF RetentionInv

LEMMA NewManagerKeeps == RetentionInv /\ NewManager => RetentionInv'
<1> SUFFICES ASSUME RetentionInv, NewManager PROVE RetentionInv'
  OBVIOUS
<1>1. /\ best' = <<>> /\ lastPath' = NoPath /\ saving' = NotSaving
      /\ ranked' = {} /\ unsure' = {} /\ folder' = folder
  BY DEF NewManager
<1>2. best' \in Seq(Entry) /\ Len(best') = 0 /\ 1 .. Len(best') = {}
  BY <1>1, EmptySeq
<1>3. /\ saving' \in [at : {"idle", "rank", "meta"}, path : PathNames \cup {NoPath},
                      loss : Losses \cup {NoLoss}]
      /\ saving'.at = "idle"
  BY <1>1 DEF NotSaving, NoLoss
<1>4. RetentionTyped'
  BY <1>1, <1>2, <1>3, RetentionAssumption DEF RetentionInv, RetentionTyped
<1>5. BestIsFirst'
  BY <1>1, <1>2 DEF BestIsFirst
<1>6. BestOnDisk'
  BY <1>2, <1>3 DEF BestOnDisk
<1> QED
  BY <1>4, <1>5, <1>6 DEF RetentionInv

LEMMA RetentionStep == RetentionInv /\ [RetentionNext]_retentionVars => RetentionInv'
<1> SUFFICES ASSUME RetentionInv, [RetentionNext]_retentionVars PROVE RetentionInv'
  OBVIOUS
<1>1. CASE UNCHANGED retentionVars
  <2>1. UNCHANGED <<folder, best, lastPath, saving, ranked, unsure>>
    BY <1>1 DEF retentionVars
  <2> QED
    BY <2>1 DEF RetentionInv, RetentionTyped, BestIsFirst, BestOnDisk, OnDisk
<1> QED
  BY <1>1, SaveKeeps, SaveBestKeeps, RankKeeps, WriteMetaKeeps, CleanupKeeps, NewManagerKeeps
     DEF RetentionNext

\* Whatever the process does between writing a checkpoint, ranking it and listing it, and
\* wherever it dies, the ranked files are on disk and the lowest loss is among them, as
\* long as no name is saved twice and cleanup_checkpoints() is not called.
THEOREM BestAreKept == RetentionSpec => []BestIsKept
<1>1. RetentionInv => BestIsKept
  <2> SUFFICES ASSUME RetentionInv, unsure = {}
               PROVE  /\ \A i \in DOMAIN best : OnDisk(best[i].path)
                      /\ \A r \in ranked : \E i \in DOMAIN best : best[i].loss <= r.loss
    BY DEF BestIsKept
  <2>1. BestIsFirst /\ BestOnDisk /\ best \in Seq(Entry)
    BY DEF RetentionInv, RetentionTyped
  <2>2. DOMAIN best = 1 .. Len(best) /\ Len(best) \in Nat
    BY <2>1, LenProperties
  <2>3. best # <<>> => 1 \in DOMAIN best
    BY <2>1, <2>2, EmptySeq
  <2> QED
    BY <2>1, <2>2, <2>3 DEF BestIsFirst, BestOnDisk
<1>2. RetentionSpec => []RetentionInv
  BY RetentionStarts, RetentionStep, PTL DEF RetentionSpec
<1> QED
  BY <1>1, <1>2, PTL

-----------------------------------------------------------------------------
(* The parts together                                                      *)

\* The types of the served model, with the path that is being loaded.
LifecycleTypes ==
  /\ LifecycleTypeOK /\ loads \in Nat /\ (loader # Nobody => loads # 0)
  /\ loader \in [who : Loaders \cup {"nobody"}, path : Paths \cup {"none"}]

LEMMA LifecycleTypesStart == LifecycleInit => LifecycleTypes
  BY DEF LifecycleInit, LifecycleTypes, LifecycleTypeOK, NotServed, Nobody, NoEngine

LEMMA LifecycleTypesStep == LifecycleTypes /\ [LifecycleNext]_lifecycleVars => LifecycleTypes'
<1> SUFFICES ASSUME LifecycleTypes, [LifecycleNext]_lifecycleVars PROVE LifecycleTypes'
  OBVIOUS
<1> DEFINE Request(n) == [at : {"none", "refused", "admitted", "generating", "failed", "answered"},
                          engine : 0 .. n]
<1>0. /\ loads \in Nat /\ served \in [path : Paths \cup {"none"}, engine : 0 .. loads, healthy : BOOLEAN]
      /\ served.healthy <=> served.engine # NoEngine
      /\ request \in [Clients -> Request(loads)]
      /\ loader \in [who : Loaders \cup {"nobody"}, path : Paths \cup {"none"}]
      /\ loader # Nobody => loads # 0
  BY DEF LifecycleTypes, LifecycleTypeOK
<1>a. ASSUME loads' = loads, request' \in [Clients -> Request(loads)],
             UNCHANGED served, UNCHANGED loader
      PROVE  LifecycleTypes'
  BY <1>0, <1>a DEF LifecycleTypes, LifecycleTypeOK
<1>b. ASSUME loads' = loads, UNCHANGED request,
             served' \in [path : Paths \cup {"none"}, engine : 0 .. loads, healthy : BOOLEAN],
             served'.healthy <=> served'.engine # NoEngine,
             loader' = Nobody
      PROVE  LifecycleTypes'
  BY <1>0, <1>b DEF LifecycleTypes, LifecycleTypeOK, Nobody
<1>1. ASSUME NEW a \in Loaders, BeginLoad(a) PROVE LifecycleTypes'
  <2>1. loads' = loads + 1 /\ UNCHANGED <<served, request>>
        /\ loader' \in [who : Loaders \cup {"nobody"}, path : Paths \cup {"none"}]
    BY <1>1 DEF BeginLoad
  <2>2. 0 .. loads \subseteq 0 .. loads' /\ loads' \in Nat
    BY <1>0, <2>1
  <2>3. served' \in [path : Paths \cup {"none"}, engine : 0 .. loads', healthy : BOOLEAN]
    BY <1>0, <2>1, <2>2
  <2>4. request' \in [Clients -> Request(loads')]
    BY <1>0, <2>1, <2>2
  <2>5. QED
    BY <1>0, <2>1, <2>2, <2>3, <2>4 DEF LifecycleTypes, LifecycleTypeOK
<1>2. ASSUME NEW a \in Loaders, LoadSucceeds(a) PROVE LifecycleTypes'
  <2>1. loads # 0
    BY <1>0, <1>2, LifecycleAssumption DEF LoadSucceeds, Nobody
  <2>2. QED
    BY <1>0, <1>b, <1>2, <2>1 DEF LoadSucceeds, Nobody, NoEngine
<1>3. ASSUME NEW a \in Loaders, LoadFails(a) \/ Unload(a) PROVE LifecycleTypes'
  <2>1. loads' = loads /\ UNCHANGED request /\ loader' = Nobody
    BY <1>3 DEF LoadFails, Unload
  <2>2. served' \in {[path |-> loader.path, engine |-> 0, healthy |-> FALSE],
                    [path |-> "none", engine |-> 0, healthy |-> FALSE]}
    BY <1>3 DEF LoadFails, Unload, NotServed, NoEngine
  <2>3. 0 \in 0 .. loads /\ loader.path \in Paths \cup {"none"}
    BY <1>0
  <2>4. /\ served' \in [path : Paths \cup {"none"}, engine : 0 .. loads, healthy : BOOLEAN]
        /\ served'.healthy = FALSE /\ served'.engine = 0
    <3>1. ASSUME NEW q \in Paths \cup {"none"}, served' = [path |-> q, engine |-> 0, healthy |-> FALSE]
          PROVE  /\ served' \in [path : Paths \cup {"none"}, engine : 0 .. loads, healthy : BOOLEAN]
                 /\ served'.healthy = FALSE /\ served'.engine = 0
      BY <2>3, <3>1
    <3>2. QED
      BY <2>2, <2>3, <3>1
  <2>5. QED
    BY <1>b, <2>1, <2>4 DEF NoEngine
<1>4. ASSUME NEW c \in Clients, Refuse(c) \/ Admit(c) \/ GetEngine(c) \/ Answer(c) PROVE LifecycleTypes'
  <2>1. loads' = loads /\ UNCHANGED <<served, loader>>
    BY <1>4 DEF Refuse, Admit, GetEngine, Answer
  <2>2. request' \in [Clients -> Request(loads)]
    BY <1>0, <1>4 DEF Refuse, Admit, GetEngine, Answer, NoEngine
  <2>3. QED
    BY <1>a, <2>1, <2>2
<1>5. CASE UNCHANGED lifecycleVars
  BY <1>5 DEF lifecycleVars, LifecycleTypes, LifecycleTypeOK
<1>6. QED
  BY <1>1, <1>2, <1>3, <1>4, <1>5 DEF LifecycleNext

LEMMA IsolationTypesStep ==
  ASSUME IsolationInv, baseline \subseteq Params, [IsolationNext]_isolationVars
  PROVE  baseline' \subseteq Params
<1>1. trainable \subseteq Params
  BY DEF IsolationInv
<1>2. CASE IsolationNext
  BY <1>1, <1>2 DEF IsolationNext, SetFlags, Isolate, Release
<1>3. QED
  BY <1>2 DEF isolationVars

LEMMA IsolationTypes == IsolationInv /\ baseline \subseteq Params => IsolationTypeOK
<1> SUFFICES ASSUME IsolationInv, baseline \subseteq Params, NEW i \in DOMAIN saved
             PROVE  trainable \subseteq Params /\ saved[i].task \in Tasks
  BY DEF IsolationTypeOK, Active, IsolationInv
<1> DEFINE R == [task : Tasks, flags : SUBSET Params]
<1>0. saved \in Seq(R)
  BY DEF IsolationInv
<1> HIDE DEF R
<1>a. saved[i] \in R
  BY <1>0, LenProperties
<1>1. saved[i] \in [task : Tasks, flags : SUBSET Params]
  BY <1>a DEF R
<1>2. QED
  BY <1>1 DEF IsolationInv

LEMMA RetentionTypes == RetentionInv => RetentionTypeOK
<1> SUFFICES ASSUME RetentionInv PROVE RetentionTypeOK
  OBVIOUS
<1>1. RetentionTyped
  BY DEF RetentionInv
<1>2. Range(folder) \subseteq PathNames
  BY <1>1 DEF RetentionTyped, Range
<1>3. QED
  BY <1>1, <1>2 DEF RetentionTyped, RetentionTypeOK

\* Whichever part is driven, the others stand still, so that each is as it is alone.
LEMMA ModelsParts ==
  [ModelsNext]_modelsVars =>
    /\ [Next]_vars /\ [LifecycleNext]_lifecycleVars /\ [VocabNext]_vocabVars
    /\ [RetentionNext]_retentionVars /\ [IsolationNext]_isolationVars
<1>1. ASSUME ModelsNext
      PROVE  /\ [Next]_vars /\ [LifecycleNext]_lifecycleVars /\ [VocabNext]_vocabVars
             /\ [RetentionNext]_retentionVars /\ [IsolationNext]_isolationVars
  BY <1>1 DEF ModelsNext
<1>2. ASSUME UNCHANGED modelsVars
      PROVE  /\ UNCHANGED vars /\ UNCHANGED lifecycleVars /\ UNCHANGED vocabVars
             /\ UNCHANGED retentionVars /\ UNCHANGED isolationVars
  BY <1>2 DEF modelsVars
<1>3. QED
  BY <1>1, <1>2

\* A behaviour of the parts together is one of each of them, so that each theorem about a
\* part holds of the composition that is checked.
THEOREM ModelsCompose ==
  ModelsSpec => Spec /\ LifecycleSpec /\ VocabSpec /\ RetentionSpec /\ IsolationSpec
<1>1. ModelsInit => Init /\ LifecycleInit /\ VocabInit /\ RetentionInit /\ IsolationInit
  BY DEF ModelsInit
<1>2. QED
  BY <1>1, ModelsParts, PTL
     DEF ModelsSpec, Spec, LifecycleSpec, VocabSpec, RetentionSpec, IsolationSpec

\* For any paths, requests, checkpoints and tasks, the served model, the requests, the
\* checkpoints and the active tasks keep their types; a model is healthy exactly when it
\* has an engine, and no more checkpoints are ranked than are to be kept.
THEOREM ModelsTypeCorrect == ModelsSpec => []ModelsTypeOK
<1> DEFINE I == LifecycleTypes /\ RetentionInv /\ IsolationInv /\ baseline \subseteq Params
<1>1. ModelsInit => I
  <2>1. IsolationInit => baseline \subseteq Params
    BY DEF IsolationInit
  <2>2. QED
    BY <2>1, LifecycleTypesStart, RetentionStarts, IsolationStart DEF ModelsInit
<1>2. I /\ [ModelsNext]_modelsVars => I'
  BY ModelsParts, LifecycleTypesStep, RetentionStep, IsolationStep, IsolationTypesStep
<1>3. I => ModelsTypeOK
  BY RetentionTypes, IsolationTypes DEF ModelsTypeOK, LifecycleTypes
<1> HIDE DEF I
<1>4. QED
  BY <1>1, <1>2, <1>3, PTL DEF ModelsSpec
=============================================================================
