---------------------------- MODULE CreditLedger ----------------------------
(***************************************************************************)
(* cadgenesis.collaboration.compute_credits.ComputeCreditLedger: balances, *)
(* usage records and grants, each kept in memory and rewritten as a whole  *)
(* in a file of its own.                                                   *)
(*                                                                         *)
(* A call holds self._lock, so that calls do not interleave; but it writes *)
(* two or three files one after the other, and a write may fail (the call  *)
(* raises and what it did in memory stays) or the process may die between  *)
(* them.  Each file is loaded on its own, and an unreadable one is empty.  *)
(* (An amount of a sixth credit type is kept in memory, and to_dict()      *)
(* leaves it out of the file: such accounts are not modelled.)             *)
(***************************************************************************)
EXTENDS Integers, Sequences, Lists

CONSTANTS
  Accounts,   \* pairs of an entity and one of the five credit types CreditBalance declares
  Amounts,    \* the amounts of a call, which may be negative: nothing tests them
  MaxCalls,   \* bound: calls that change something
  MaxFaults   \* bound: failed writes and process deaths

ASSUME LedgerAssumption ==
  /\ Amounts \subseteq Int
  /\ MaxCalls \in Nat /\ MaxFaults \in Nat

VARIABLES
  up,        \* is the process running
  mem,       \* _balances, _usage_records and _grants
  disk,      \* the same in the three files
  calls,     \* the calls made so far; a position in it stands for the call
  current,   \* the call in progress and the file it writes next
  returned,  \* ghost: the calls that returned
  lost,      \* ghost: the files that were found unreadable
  faults

vars == <<up, mem, disk, calls, current, returned, lost, faults>>

Ids == 1 .. MaxCalls
Kinds == {"add", "deduct", "grant"}
Call == [kind : Kinds, account : Accounts, amount : Amounts]
Files == {"balances", "usage", "grants"}
NoCall == [id |-> 0, file |-> "balances"]

\* The content of the three files.  "applied" are the calls whose amount is in the
\* balances, and is the one part the code does not write down.
Store == [balance : [Accounts -> Int], applied : SUBSET Ids, usage : SUBSET Ids, grants : SUBSET Ids]
Empty == [balance |-> [a \in Accounts |-> 0], applied |-> {}, usage |-> {}, grants |-> {}]

Init ==
  /\ up = TRUE
  /\ mem = Empty /\ disk = Empty
  /\ calls = <<>>
  /\ current = NoCall
  /\ returned = {} /\ lost = {} /\ faults = 0

-----------------------------------------------------------------------------

Delta(c) == IF c.kind = "deduct" THEN 0 - c.amount ELSE c.amount

\* CreditBalance.add() and the subtraction of deduct().
Applied(store, id, c) ==
  [store EXCEPT !.balance[c.account] = @ + Delta(c), !.applied = @ \cup {id}]

\* deduct() refuses more than there is; deduct_credits() then returns False.
Affordable(c) == c.kind = "deduct" => mem.balance[c.account] >= c.amount

Started(c, file) ==
  /\ up /\ current = NoCall /\ Len(calls) < MaxCalls
  /\ calls' = Append(calls, c)
  /\ current' = [id |-> Len(calls) + 1, file |-> file]
  /\ UNCHANGED <<up, disk, returned, lost, faults>>

\* add_credits() and deduct_credits() change the balance and turn to its file.
AddOrDeduct ==
  \E c \in Call :
    /\ c.kind # "grant" /\ Affordable(c)
    /\ Started(c, "balances")
    /\ mem' = Applied(mem, Len(calls) + 1, c)

\* create_grant() keeps the grant and turns to the file of grants.
CreateGrant ==
  \E c \in Call :
    /\ c.kind = "grant"
    /\ Started(c, "grants")
    /\ mem' = [mem EXCEPT !.grants = @ \cup {Len(calls) + 1}]

Writing(file) == up /\ current # NoCall /\ current.file = file

\* Mutant of WriteGrants: the amount is added here, and again by add_credits().
WriteGrantsTwice ==
  LET c == calls[current.id] IN
  /\ Writing("grants")
  /\ disk' = [disk EXCEPT !.grants = mem.grants]
  /\ mem' = Applied(Applied(mem, current.id, c), current.id, c)
  /\ current' = [current EXCEPT !.file = "balances"]
  /\ UNCHANGED <<up, calls, returned, lost, faults>>

\* "Apply the grant immediately": add_credits() within create_grant().
WriteGrants ==
  /\ Writing("grants")
  /\ disk' = [disk EXCEPT !.grants = mem.grants]
  /\ mem' = Applied(mem, current.id, calls[current.id])
  /\ current' = [current EXCEPT !.file = "balances"]
  /\ UNCHANGED <<up, calls, returned, lost, faults>>

\* _persist_balances(), and the usage record that is appended after it.
WriteBalances ==
  /\ Writing("balances")
  /\ disk' = [disk EXCEPT !.balance = mem.balance, !.applied = mem.applied]
  /\ mem' = [mem EXCEPT !.usage = @ \cup {current.id}]
  /\ current' = [current EXCEPT !.file = "usage"]
  /\ UNCHANGED <<up, calls, returned, lost, faults>>

\* Mutant of WriteUsage: the file is left to the next call.
WriteUsageLater ==
  /\ Writing("usage")
  /\ current' = NoCall
  /\ returned' = returned \cup {current.id}
  /\ UNCHANGED <<up, mem, disk, calls, lost, faults>>

\* _persist_usage(), and the call returns.
WriteUsage ==
  /\ Writing("usage")
  /\ disk' = [disk EXCEPT !.usage = mem.usage]
  /\ current' = NoCall
  /\ returned' = returned \cup {current.id}
  /\ UNCHANGED <<up, mem, calls, lost, faults>>

-----------------------------------------------------------------------------

Fault == faults < MaxFaults /\ faults' = faults + 1 /\ UNCHANGED <<disk, calls, returned, lost>>

\* A write raises before the rename: the file is as it was, the call ends there, and
\* what it has put in memory stays there.
WriteFails ==
  /\ up /\ current # NoCall /\ Fault
  /\ current' = NoCall
  /\ UNCHANGED <<up, mem>>

Crash ==
  /\ up /\ Fault
  /\ up' = FALSE
  /\ current' = NoCall
  /\ UNCHANGED mem

\* __init__ loads each file, and goes on without one that it cannot read.
Restart ==
  /\ ~up
  /\ up' = TRUE
  /\ \E bad \in SUBSET Files :
       /\ lost' = lost \cup bad
       /\ mem' = [balance |-> IF "balances" \in bad THEN Empty.balance ELSE disk.balance,
                  applied |-> IF "balances" \in bad THEN {} ELSE disk.applied,
                  usage   |-> IF "usage" \in bad THEN {} ELSE disk.usage,
                  grants  |-> IF "grants" \in bad THEN {} ELSE disk.grants]
  /\ UNCHANGED <<disk, calls, current, returned, faults>>

Next ==
  \/ AddOrDeduct \/ CreateGrant
  \/ WriteGrants \/ WriteBalances \/ WriteUsage
  \/ WriteFails \/ Crash \/ Restart

Spec == Init /\ [][Next]_vars

-----------------------------------------------------------------------------
(* Properties                                                              *)

TypeOK ==
  /\ up \in BOOLEAN
  /\ mem \in Store /\ disk \in Store
  /\ calls \in Seq(Call) /\ Len(calls) <= MaxCalls
  /\ current = NoCall \/ (up /\ current \in [id : 1 .. Len(calls), file : Files])
  /\ returned \subseteq 1 .. Len(calls)
  /\ lost \subseteq Files
  /\ faults \in 0 .. MaxFaults

Stores == {mem, disk}

\* Something negative was added or granted to an account.
Reduced(made, a) ==
  \E i \in 1 .. Len(made) : made[i].account = a /\ made[i].kind # "deduct" /\ made[i].amount < 0

\* No deduction overdraws an account, whatever failed: a balance is negative, in memory or
\* in the file, only if a negative amount was added or granted to the account.
NonNegative == \A s \in Stores, a \in Accounts : s.balance[a] >= 0 \/ Reduced(calls, a)

\* A usage record never stands for an amount that is missing from the balances: the
\* balances file is written first.
UsageIsApplied == "balances" \notin lost => \A s \in Stores : s.usage \subseteq s.applied

\* A grant that has been credited is in the list of grants, in memory and on disk.
GrantsKnown ==
  "grants" \notin lost =>
    \A s \in Stores : \A id \in s.applied : calls[id].kind = "grant" => id \in s.grants

Records(s) ==
  \A id \in returned :
    /\ "balances" \notin lost => id \in s.applied
    /\ "usage" \notin lost => id \in s.usage
    /\ "grants" \notin lost => (calls[id].kind = "grant" => id \in s.grants)

\* The files hold everything of each call that returned, as far as none of them was
\* unreadable; so does memory while the process runs.
ReturnedIsRecorded == Records(disk) /\ (up => Records(mem))

\* What each of the calls ids adds to the balance of an account.
Contribution(made, ids, a) ==
  [n \in Ids |-> IF n \in ids /\ made[n].account = a THEN Delta(made[n]) ELSE 0]

\* Each balance of s is the sum of the usage records of s and of calls that have neither
\* such a record nor returned: there are none unless one is in progress, or a write failed
\* or the process died within one.
Explained(s) ==
  \E cut \in SUBSET ((1 .. Len(calls)) \ (returned \cup s.usage)) :
    /\ faults = 0 /\ current = NoCall => cut = {}
    /\ \A a \in Accounts :
         s.balance[a] = Total(Contribution(calls, s.usage \cup cut, a), MaxCalls)

\* The audit trail: in the files, and in memory while the process runs, the usage records
\* explain the balances but for the calls that were cut off, each counted once at most.  It
\* is said of ledgers whose balances and usage files could be read at every start.
BalanceExplained ==
  lost \cap {"balances", "usage"} = {} => Explained(disk) /\ (up => Explained(mem))
=============================================================================
