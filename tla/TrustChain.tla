----------------------------- MODULE TrustChain -----------------------------
(***************************************************************************)
(* cadgenesis.trust.core.TrustLayer, with the records the ExperimentLedger *)
(* makes.  A record signs and hashes the payload it is given and keeps a   *)
(* reference to it; each one names the hash of the record before it.  The  *)
(* payload of an experiment is the provenance object itself, which the     *)
(* program goes on changing.  A hash and a signature are those of a        *)
(* content: the content stands for both.                                   *)
(***************************************************************************)
EXTENDS Integers, Sequences, Lists

CONSTANTS
  Objects,      \* provenance objects of the program
  MaxRecords,   \* bound: the records
  MaxChanges    \* bound: changes of provenance objects

ASSUME TrustAssumption == MaxRecords \in Nat /\ MaxChanges \in Nat

VARIABLES
  content,    \* how often each object was changed
  records,    \* of the trust layer
  lastHash,
  archive,    \* what export_records() wrote last
  relinked    \* ghost: records came in that were not linked to the one before them

trustVars == <<content, records, lastHash, archive, relinked>>

NoHash == <<"none", 0>>

TrustInit ==
  /\ content = [o \in Objects |-> 0]
  /\ records = <<>> /\ lastHash = NoHash /\ archive = <<>>
  /\ relinked = FALSE

\* A record: its payload by reference, or by value after it was imported.
RecordOf(o, prev) == [object |-> o, imported |-> FALSE, hash |-> <<o, content[o]>>, previous |-> prev]

\* The hash and the signature agree with the payload.
Verifies(r) == r.imported \/ r.hash = <<r.object, content[r.object]>>

\* create_record(), under the lock of the layer: create_experiment() and
\* update_experiment() hand over their provenance.
CreateRecord(o) ==
  /\ Len(records) < MaxRecords
  /\ records' = Append(records, RecordOf(o, lastHash))
  /\ lastHash' = <<o, content[o]>>
  /\ UNCHANGED <<content, archive, relinked>>

\* The program adds a result or a status to a provenance it got from the ledger.
ChangeProvenance(o) ==
  /\ content[o] < MaxChanges
  /\ content' = [content EXCEPT ![o] = @ + 1]
  /\ UNCHANGED <<records, lastHash, archive, relinked>>

\* What is exported is the payload of now with the hash of then.
ExportRecords ==
  /\ archive' = [i \in DOMAIN records |-> [valid |-> Verifies(records[i]), record |-> records[i]]]
  /\ archive' # archive
  /\ UNCHANGED <<content, records, lastHash, relinked>>

\* import_records() leaves out what does not verify, and links nothing anew.
Incoming ==
  LET valid == Filtered(archive, {x \in {archive[i] : i \in DOMAIN archive} : x.valid}) IN
  [i \in DOMAIN valid |-> [valid[i].record EXCEPT !.imported = TRUE]]

Linked(rs, first) == \A i \in DOMAIN rs : rs[i].previous = IF i = 1 THEN first ELSE rs[i - 1].hash

\* Mutant of ImportRecords: the chain goes on from where it was.
ImportBeside ==
  /\ Incoming # <<>> /\ Len(records) + Len(Incoming) <= MaxRecords
  /\ records' = records \o Incoming
  /\ relinked' = (relinked \/ ~Linked(Incoming, lastHash))
  /\ UNCHANGED <<content, archive, lastHash>>

ImportRecords ==
  /\ Incoming # <<>> /\ Len(records) + Len(Incoming) <= MaxRecords
  /\ records' = records \o Incoming
  /\ lastHash' = Incoming[Len(Incoming)].hash
  /\ relinked' = (relinked \/ ~Linked(Incoming, lastHash))
  /\ UNCHANGED <<content, archive>>

\* Another process opens an empty layer, and has the archive only.
Reopen ==
  /\ records # <<>>
  /\ records' = <<>> /\ lastHash' = NoHash /\ relinked' = FALSE
  /\ UNCHANGED <<content, archive>>

TrustNext ==
  \/ \E o \in Objects : CreateRecord(o) \/ ChangeProvenance(o)
  \/ ExportRecords \/ ImportRecords \/ Reopen

TrustSpec == TrustInit /\ [][TrustNext]_trustVars

-----------------------------------------------------------------------------
(* Properties                                                              *)

\* verify_chain(), but for the payloads.
ChainLinked == Linked(records, NoHash)

TrustTypeOK ==
  /\ content \in [Objects -> 0 .. MaxChanges] /\ Len(records) <= MaxRecords
  /\ relinked \in BOOLEAN

\* The chain has no gap, across exports, imports and restarts and whatever becomes of the
\* payloads, unless records came in that do not follow on what was there.
ChainUnbroken == relinked \/ ChainLinked
=============================================================================
