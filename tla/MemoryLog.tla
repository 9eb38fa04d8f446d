------------------------------ MODULE MemoryLog ------------------------------
(***************************************************************************)
(* The incremental log of a memory store (memory/persistence.py): append() *)
(* under a lock file, replay(), truncate_log(), and what a failing write   *)
(* or a process that dies leaves behind.  A record is the number of its    *)
(* append().                                                               *)
(***************************************************************************)
EXTENDS Naturals, Sequences, SequencesExt, FiniteSetsExt

CONSTANTS
  Writers,     \* processes that share the directory
  MaxRecords,  \* bound: calls of append()
  MaxTrouble   \* bound: crashes, failing writes and truncations

ASSUME MemoryAssumption == MaxRecords \in Nat /\ MaxTrouble \in Nat

VARIABLES
  lines,    \* the log: each line is its record, or Broken
  ragged,   \* the last line has no end yet
  file,     \* how often the log was removed: which file its name stands for
  lockfile, \* the lock file exists
  writer,   \* for each process: where it is in append(), with what, in which file
  memory,   \* for each process: the records its store holds
  appends, trouble,
  acked,    \* ghost: the records of appends that returned, since the log was removed
  spoiled   \* ghost: a write failed half-way, and its lock was released

memoryVars == <<lines, ragged, file, lockfile, writer, memory, appends, trouble, acked, spoiled>>
log == <<lines, ragged, file>>
ghosts == <<acked, spoiled>>

Broken == 0
Idle == [at |-> "idle", record |-> Broken, file |-> 0, clean |-> FALSE]
Holding == {"locked", "open", "writing", "written"}

MemoryInit ==
  /\ lines = <<>> /\ ragged = FALSE /\ file = 0
  /\ lockfile = FALSE
  /\ writer = [w \in Writers |-> Idle]
  /\ memory = [w \in Writers |-> {}]
  /\ appends = 0 /\ trouble = 0
  /\ acked = {} /\ spoiled = FALSE

Goto(w, at) == writer' = [writer EXCEPT ![w].at = at]

-----------------------------------------------------------------------------
(* append                                                                  *)

\* The store has the record before the log does.
AppendAdds(w) ==
  /\ writer[w].at = "idle" /\ appends < MaxRecords
  /\ appends' = appends + 1
  /\ memory' = [memory EXCEPT ![w] = @ \cup {appends'}]
  /\ writer' = [writer EXCEPT ![w] = [Idle EXCEPT !.at = "waiting", !.record = appends']]
  /\ UNCHANGED <<log, lockfile, trouble, ghosts>>

\* (Mutant: the lock file is opened without O_EXCL.)
AcquireShared(w) ==
  /\ writer[w].at = "waiting"
  /\ lockfile' = TRUE
  /\ Goto(w, "locked")
  /\ UNCHANGED <<log, memory, appends, trouble, ghosts>>

\* os.open() with O_CREAT | O_EXCL.
Acquire(w) ==
  /\ writer[w].at = "waiting" /\ ~lockfile
  /\ lockfile' = TRUE
  /\ Goto(w, "locked")
  /\ UNCHANGED <<log, memory, appends, trouble, ghosts>>

\* The lock file is still there at the deadline: append() raises, the store keeps the record.
GiveUp(w) ==
  /\ writer[w].at = "waiting" /\ lockfile
  /\ writer' = [writer EXCEPT ![w] = Idle]
  /\ UNCHANGED <<log, lockfile, memory, appends, trouble, ghosts>>

OpenLog(w) ==
  /\ writer[w].at = "locked"
  /\ writer' = [writer EXCEPT ![w].at = "open", ![w].file = file]
  /\ UNCHANGED <<log, lockfile, memory, appends, trouble, ghosts>>

\* A part of the line reaches the file: on a line of its own, unless the last has no end.
WriteBegins(w) ==
  /\ writer[w].at = "open"
  /\ writer' = [writer EXCEPT ![w].at = "writing", ![w].clean = ~ragged]
  /\ IF writer[w].file = file
     THEN ragged' = TRUE /\ lines' = IF ragged THEN lines ELSE Append(lines, Broken)
     ELSE UNCHANGED <<lines, ragged>>
  /\ UNCHANGED <<file, lockfile, memory, appends, trouble, ghosts>>

WriteEnds(w) ==
  /\ writer[w].at = "writing"
  /\ Goto(w, "written")
  /\ IF writer[w].file = file
     THEN /\ ragged' = FALSE
          /\ lines' = IF writer[w].clean /\ ragged
                      THEN [lines EXCEPT ![Len(lines)] = writer[w].record] ELSE lines
     ELSE UNCHANGED <<lines, ragged>>
  /\ UNCHANGED <<file, lockfile, memory, appends, trouble, ghosts>>

\* The lock file is removed, and append() returns.
Release(w) ==
  /\ writer[w].at = "written"
  /\ lockfile' = FALSE
  /\ writer' = [writer EXCEPT ![w] = Idle]
  /\ acked' = IF writer[w].file = file THEN acked \cup {writer[w].record} ELSE acked
  /\ UNCHANGED <<log, memory, appends, trouble, spoiled>>

-----------------------------------------------------------------------------
(* What may go wrong, and the other operations.                            *)

\* The write raises, before or after a part of the line; the lock is released.
WriteFails(w) ==
  /\ writer[w].at \in {"open", "writing"} /\ trouble < MaxTrouble
  /\ trouble' = trouble + 1
  /\ spoiled' = (spoiled \/ (writer[w].at = "writing" /\ writer[w].file = file))
  /\ lockfile' = FALSE
  /\ writer' = [writer EXCEPT ![w] = Idle]
  /\ UNCHANGED <<log, memory, appends, acked>>

\* The process dies and comes back with an empty store; what it had locked stays locked.
Crash(w) ==
  /\ trouble < MaxTrouble
  /\ trouble' = trouble + 1
  /\ writer' = [writer EXCEPT ![w] = Idle]
  /\ memory' = [memory EXCEPT ![w] = {}]
  /\ UNCHANGED <<log, lockfile, appends, ghosts>>

\* truncate_log() asks for no lock.
TruncateLog ==
  /\ trouble < MaxTrouble
  /\ trouble' = trouble + 1
  /\ lines' = <<>> /\ ragged' = FALSE /\ file' = file + 1
  /\ acked' = {} /\ spoiled' = FALSE
  /\ UNCHANGED <<lockfile, writer, memory, appends>>

\* The lines that replay() applies before it is through, or raises at a broken one.
Readable == {lines[i] : i \in {j \in DOMAIN lines : \A k \in 1..j : lines[k] # Broken}}

Replay(w) ==
  /\ writer[w].at = "idle"
  /\ memory' = [memory EXCEPT ![w] = @ \cup Readable]
  /\ UNCHANGED <<log, lockfile, writer, appends, trouble, ghosts>>

MemoryNext ==
  \/ TruncateLog
  \/ \E w \in Writers :
       \/ AppendAdds(w) \/ Acquire(w) \/ GiveUp(w) \/ OpenLog(w)
       \/ WriteBegins(w) \/ WriteEnds(w) \/ Release(w)
       \/ WriteFails(w) \/ Crash(w) \/ Replay(w)

MemorySpec == MemoryInit /\ [][MemoryNext]_memoryVars

MemoryTypeOK ==
  /\ lines \in Seq(Nat) /\ ragged \in BOOLEAN /\ file \in Nat /\ lockfile \in BOOLEAN
  /\ writer \in [Writers -> [at : {"idle", "waiting"} \cup Holding, record : Nat, file : Nat,
                             clean : BOOLEAN]]
  /\ memory \in [Writers -> SUBSET Nat]
  /\ appends \in 0..MaxRecords /\ trouble \in 0..MaxTrouble
  /\ acked \subseteq 1..appends /\ spoiled \in BOOLEAN

\* A record whose append() returned is found by every later replay(), whoever crashes
\* while writing: the lock that a dead writer leaves behind keeps the others from writing
\* after its torn line.  (A write that fails half-way releases the lock, and the next
\* record goes on the same line.)
AckedReplays == spoiled \/ acked \subseteq Readable
=============================================================================
