---------------------------- MODULE SharedMemory ----------------------------
(***************************************************************************)
(* cadgenesis.agents.shared_memory.LayeredSharedMemory: one region, with   *)
(* its capacity and its time to live, a listener and the semantic pool     *)
(* that writes are mirrored to.  Regions share nothing but the lock.       *)
(*                                                                         *)
(* set() reads the clock, then changes the region under the lock, then     *)
(* calls the listeners and the mirror without it: threads come between     *)
(* any two of these.  The n-th change of the region stands for its value.  *)
(***************************************************************************)
EXTENDS Integers, FiniteSets

CONSTANTS
  Keys,
  Agents,      \* threads that call set()
  Capacity,    \* of the region
  TTL,         \* of the region; the code's None is a TTL of MaxTime
  MaxWrites,   \* bound: calls of set()
  MaxTime      \* bound: the clock

ASSUME MemoryAssumption ==
  /\ Keys # {} /\ Capacity \in Nat \ {0} /\ TTL \in Nat /\ MaxWrites \in Nat /\ MaxTime \in Nat

VARIABLES
  time,
  region,      \* per key, the number of the write and its time; 0 for no entry
  writes,      \* changes so far
  call,        \* what each thread does in set()
  announced,   \* the write the listener was last told of, per key
  mirrored,    \* the write the semantic pool holds, per key
  unmirrored,  \* the writes whose mirror raised, which set() suppresses
  finished,    \* ghost: the writes of each key whose set() returned
  earlier      \* ghost: for each write, those of its key finished before its set() began

memVars == <<time, region, writes, call, announced, mirrored, unmirrored, finished, earlier>>

Writes == 1 .. MaxWrites
NoEntry == [write |-> 0, at |-> 0]
Idle == [at |-> "idle", key |-> CHOOSE k \in Keys : TRUE, time |-> 0, write |-> 0, seen |-> {}]

MemInit ==
  /\ time = 0 /\ writes = 0
  /\ region = [k \in Keys |-> NoEntry]
  /\ call = [a \in Agents |-> Idle]
  /\ announced = [k \in Keys |-> 0] /\ mirrored = [k \in Keys |-> 0]
  /\ unmirrored = {} /\ finished = [k \in Keys |-> {}]
  /\ earlier = [w \in Writes |-> {}]

Present(r) == {k \in Keys : r[k] # NoEntry}

\* Mutant of Evicted: the test comes a write too late.
EvictedLate(r) ==
  IF Cardinality(Present(r)) <= Capacity + 1 THEN {r}
  ELSE {[r EXCEPT ![k] = NoEntry] : k \in {k \in Present(r) : \A j \in Present(r) : r[k].at <= r[j].at}}

\* The region after the write, and after the oldest entry went if that is one too many.
\* Of entries with one time the code takes the first of the dictionary.
Evicted(r) ==
  IF Cardinality(Present(r)) <= Capacity THEN {r}
  ELSE {[r EXCEPT ![k] = NoEntry] : k \in {k \in Present(r) : \A j \in Present(r) : r[k].at <= r[j].at}}

\* set() reads the clock.
BeginSet(a) ==
  \E k \in Keys :
    /\ call[a].at = "idle"
    /\ call' = [call EXCEPT ![a] = [at |-> "timed", key |-> k, time |-> time, write |-> 0, seen |-> finished[k]]]
    /\ UNCHANGED <<time, region, writes, announced, mirrored, unmirrored, finished, earlier>>

\* Mutant of WriteUnderLock: set() returns, and leaves the rest to another thread.
WriteAndReturn(a) ==
  LET c == call[a] IN
  /\ c.at = "timed" /\ writes < MaxWrites
  /\ writes' = writes + 1
  /\ region' \in Evicted([region EXCEPT ![c.key] = [write |-> writes + 1, at |-> c.time]])
  /\ earlier' = [earlier EXCEPT ![writes + 1] = c.seen]
  /\ finished' = [finished EXCEPT ![c.key] = @ \cup {writes + 1}]
  /\ call' = [call EXCEPT ![a].at = "announcing", ![a].write = writes + 1]
  /\ UNCHANGED <<time, announced, mirrored, unmirrored>>

WriteUnderLock(a) ==
  LET c == call[a] IN
  /\ c.at = "timed" /\ writes < MaxWrites
  /\ writes' = writes + 1
  /\ region' \in Evicted([region EXCEPT ![c.key] = [write |-> writes + 1, at |-> c.time]])
  /\ earlier' = [earlier EXCEPT ![writes + 1] = c.seen]
  /\ call' = [call EXCEPT ![a].at = "announcing", ![a].write = writes + 1]
  /\ UNCHANGED <<time, announced, mirrored, unmirrored, finished>>

\* _notify(): what a listener raises is suppressed.
Announce(a) ==
  LET c == call[a] IN
  /\ c.at = "announcing"
  /\ announced' = [announced EXCEPT ![c.key] = c.write]
  /\ call' = [call EXCEPT ![a].at = "mirroring"]
  /\ UNCHANGED <<time, region, writes, mirrored, unmirrored, finished, earlier>>

Returned(a) ==
  /\ finished' = [finished EXCEPT ![call[a].key] = @ \cup {call[a].write}]
  /\ call' = [call EXCEPT ![a] = Idle]

\* _mirror(), and set() returns.
Mirror(a) ==
  /\ call[a].at = "mirroring"
  /\ mirrored' = [mirrored EXCEPT ![call[a].key] = call[a].write]
  /\ Returned(a)
  /\ UNCHANGED <<time, region, writes, announced, unmirrored, earlier>>

\* Both pools raise: the write is not mirrored, and set() returns as ever.
MirrorFails(a) ==
  /\ call[a].at = "mirroring"
  /\ unmirrored' = unmirrored \cup {call[a].write}
  /\ Returned(a)
  /\ UNCHANGED <<time, region, writes, announced, mirrored, earlier>>

\* remove() and clear(), which tell nobody.
Remove ==
  \E ks \in SUBSET Present(region) :
    /\ ks # {} /\ (Cardinality(ks) = 1 \/ ks = Present(region))
    /\ region' = [k \in Keys |-> IF k \in ks THEN NoEntry ELSE region[k]]
    /\ UNCHANGED <<time, writes, call, announced, mirrored, unmirrored, finished, earlier>>

\* get() finds an entry that is too old, and drops it.
GetExpired ==
  \E k \in Present(region) :
    /\ time - region[k].at > TTL
    /\ region' = [region EXCEPT ![k] = NoEntry]
    /\ UNCHANGED <<time, writes, call, announced, mirrored, unmirrored, finished, earlier>>

TimePasses ==
  /\ time < MaxTime /\ time' = time + 1
  /\ UNCHANGED <<region, writes, call, announced, mirrored, unmirrored, finished, earlier>>

MemNext ==
  \/ \E a \in Agents : BeginSet(a) \/ WriteUnderLock(a) \/ Announce(a) \/ Mirror(a) \/ MirrorFails(a)
  \/ Remove \/ GetExpired \/ TimePasses

MemSpec == MemInit /\ [][MemNext]_memVars

-----------------------------------------------------------------------------
(* Properties                                                              *)

Entry == [write : 0 .. MaxWrites, at : 0 .. MaxTime]
SetCall == [at : {"idle", "timed", "announcing", "mirroring"}, key : Keys, time : 0 .. MaxTime,
            write : 0 .. MaxWrites, seen : SUBSET Writes]

\* The types of the state; a region is never over its capacity, between two calls or
\* within one.
MemTypeOK ==
  /\ time \in 0 .. MaxTime /\ writes \in 0 .. MaxWrites
  /\ region \in [Keys -> Entry] /\ Cardinality(Present(region)) <= Capacity
  /\ call \in [Agents -> SetCall]
  /\ announced \in [Keys -> 0 .. MaxWrites] /\ mirrored \in [Keys -> 0 .. MaxWrites]
  /\ finished \in [Keys -> SUBSET (1 .. writes)] /\ unmirrored \subseteq 1 .. writes
  /\ earlier \in [Writes -> SUBSET Writes]

\* Listener and mirror are told outside the lock, and two overlapping writes may reach
\* them in either order.  They never fall back further than that: once a set() has
\* returned, they do not hold a write of that key that had returned before it began,
\* except for a mirror that failed.
CopiesAreRecent ==
  \A k \in Keys : \A w \in finished[k] :
    /\ announced[k] \notin earlier[w]
    /\ w \notin unmirrored => mirrored[k] \notin earlier[w]
=============================================================================
