---------------------------- MODULE Vocabulary ----------------------------
(***************************************************************************)
(* cadgenesis.tokenizer.vocabulary.CADVocabulary: every token family owns  *)
(* a range of ids, and a token gets the next one of its family or the one  *)
(* it is pinned to.  Checkpoints, weights and stored sequences refer to    *)
(* tokens by id, so that ids must survive a save and a load, a restart     *)
(* from a checkpoint, and a migration to other ranges.                     *)
(*                                                                         *)
(* A vocabulary is a record.  Registering and removing are atomic, by the  *)
(* lock; a migration builds a second vocabulary token by token, while the  *)
(* first one may change.                                                   *)
(***************************************************************************)
EXTENDS Integers, FiniteSets

CONSTANTS
  Tokens,
  Families,
  Layouts,        \* each gives every family the start and the capacity of its range
  DefaultLayout,
  Defaults,       \* the family of each token the default vocabulary registers, by id
  Guess           \* guess_family(): the family each token's name suggests

\* The ranges of a layout are contiguous, and so disjoint.
ASSUME LayoutAssumption ==
  /\ DefaultLayout \in Layouts
  /\ Layouts \subseteq [Families -> [start : Nat, capacity : Nat]]
  /\ \A l \in Layouts, f, g \in Families :
       f # g => \/ l[f].start + l[f].capacity <= l[g].start
                \/ l[g].start + l[g].capacity <= l[f].start
  /\ Guess \in [Tokens -> Families]

\* The default tokens took the slots of their families one after the other.
ASSUME DefaultsAssumption ==
  /\ IsFiniteSet(Tokens) /\ DOMAIN Defaults \subseteq Tokens
  /\ Defaults \in [DOMAIN Defaults -> [family : Families, slot : Nat]]
  /\ \A t, u \in DOMAIN Defaults : Defaults[t] = Defaults[u] => t = u
  /\ \A f \in Families :
       LET ts == {t \in DOMAIN Defaults : Defaults[t].family = f} IN
       Cardinality(ts) <= DefaultLayout[f].capacity /\ \A t \in ts : Defaults[t].slot < Cardinality(ts)

VARIABLES
  vocab,
  target,   \* the vocabulary a migration is building
  todo,     \* the records the migration still has to carry over
  dropped   \* those that found no place: unmapped_ids

vocabVars == <<vocab, target, todo, dropped>>

NoId == -1

Known(v) == {t \in Tokens : v.id[t] # NoId}
Start(v, f) == v.layout[f].start
End(v, f) == v.layout[f].start + v.layout[f].capacity
IdsOf(v) == {v.id[t] : t \in Known(v)}

Empty(l) == [layout |-> l, next |-> [f \in Families |-> 0],
             id |-> [t \in Tokens |-> NoId], family |-> Guess]

\* allocate(): the next slot of the family, if there is one.
HasRoom(v, f) == v.next[f] < v.layout[f].capacity

Allocated(v, t, f) ==
  [layout |-> v.layout, next |-> [v.next EXCEPT ![f] = @ + 1],
   id |-> [v.id EXCEPT ![t] = Start(v, f) + v.next[f]], family |-> [v.family EXCEPT ![t] = f]]

\* register() with a token_id: the family's next slot moves past it.
CanPin(v, f, i) == Start(v, f) <= i /\ i < End(v, f) /\ i \notin IdsOf(v)

Pinned(v, t, f, i) ==
  [layout |-> v.layout,
   next |-> [v.next EXCEPT ![f] = IF i >= Start(v, f) + @ THEN i - Start(v, f) + 1 ELSE @],
   id |-> [v.id EXCEPT ![t] = i], family |-> [v.family EXCEPT ![t] = f]]

\* Only the last slot of a family is reclaimed.
Removed(v, t) ==
  LET f == v.family[t] IN
  [layout |-> v.layout, id |-> [v.id EXCEPT ![t] = NoId], family |-> v.family,
   next |-> [v.next EXCEPT ![f] = IF v.id[t] = Start(v, f) + @ - 1 THEN @ - 1 ELSE @]]

-----------------------------------------------------------------------------
(* A save and a load, and a restart from a checkpoint                      *)

\* load() registers the saved tokens again in the order of their ids, and pins none.
Before(v, t) == {u \in Known(v) : v.id[u] < v.id[t]}

Loaded(v) ==
  [layout |-> v.layout, family |-> v.family,
   id |-> [t \in Tokens |->
             IF t \in Known(v)
             THEN Start(v, v.family[t]) + Cardinality({u \in Before(v, t) : v.family[u] = v.family[t]})
             ELSE NoId],
   next |-> [f \in Families |-> Cardinality({t \in Known(v) : v.family[t] = f})]]

\* restore_vocab_tokens() on a tokenizer just built: what the default vocabulary lacks is
\* registered in the order of the ids, under the family its name suggests.
DefaultVocab ==
  LET ts == DOMAIN Defaults IN
  [layout |-> DefaultLayout,
   next |-> [f \in Families |-> Cardinality({t \in ts : Defaults[t].family = f})],
   id |-> [t \in Tokens |-> IF t \in ts THEN DefaultLayout[Defaults[t].family].start + Defaults[t].slot ELSE NoId],
   family |-> [t \in Tokens |-> IF t \in ts THEN Defaults[t].family ELSE Guess[t]]]

Missing(v) == Known(v) \ Known(DefaultVocab)

Restored(v) ==
  LET d == DefaultVocab IN
  [layout |-> d.layout, family |-> d.family,
   id |-> [t \in Tokens |->
             IF t \in Missing(v)
             THEN Start(d, Guess[t]) + d.next[Guess[t]]
                  + Cardinality({u \in Missing(v) \cap Before(v, t) : Guess[u] = Guess[t]})
             ELSE d.id[t]],
   next |-> [f \in Families |-> d.next[f] + Cardinality({t \in Missing(v) : Guess[t] = f})]]

\* register_many() raises when a family is full.
Restorable(v) == \A f \in Families : Restored(v).next[f] <= DefaultLayout[f].capacity

-----------------------------------------------------------------------------
(* Operations                                                              *)

VocabInit ==
  /\ vocab = DefaultVocab
  /\ target = Empty(DefaultLayout) /\ todo = {} /\ dropped = {}

\* register(); merge_tokens(), split_token() and the evolution come to it too.
RegisterToken(t, f) ==
  /\ t \notin Known(vocab) /\ HasRoom(vocab, f)
  /\ vocab' = Allocated(vocab, t, f)
  /\ UNCHANGED <<target, todo, dropped>>

RegisterPinnedToken(t, f, i) ==
  /\ t \notin Known(vocab) /\ CanPin(vocab, f, i)
  /\ vocab' = Pinned(vocab, t, f, i)
  /\ UNCHANGED <<target, todo, dropped>>

\* Mutant of RemoveToken: every removal gives a slot back.
RemoveReclaims(t) ==
  /\ t \in Known(vocab)
  /\ vocab' = [vocab EXCEPT !.id[t] = NoId, !.next[vocab.family[t]] = @ - 1]
  /\ UNCHANGED <<target, todo, dropped>>

\* remove_token(), and each removal of trim_unused().
RemoveToken(t) ==
  /\ t \in Known(vocab)
  /\ vocab' = Removed(vocab, t)
  /\ UNCHANGED <<target, todo, dropped>>

SaveAndLoad ==
  /\ vocab' = Loaded(vocab)
  /\ UNCHANGED <<target, todo, dropped>>

\* The process that restores has no migration under way.
RestartFromCheckpoint ==
  /\ Restorable(vocab)
  /\ vocab' = Restored(vocab)
  /\ target' = Empty(DefaultLayout) /\ todo' = {} /\ dropped' = {}

\* migrate_layout(): a new vocabulary, and a snapshot of the records.
Carried(t) == [token |-> t, family |-> vocab.family[t], id |-> vocab.id[t]]

StartMigration(l) ==
  /\ todo = {} /\ Known(target) = {} /\ dropped = {}
  /\ target' = Empty(l)
  /\ todo' = {Carried(t) : t \in Known(vocab)}
  /\ UNCHANGED <<vocab, dropped>>

\* A record keeps its id if that is in the new range of its family and free, or takes the
\* next slot, or is dropped.
MigrateRecord(r) ==
  /\ r \in todo /\ \A q \in todo : r.id <= q.id
  /\ todo' = todo \ {r}
  /\ \/ /\ CanPin(target, r.family, r.id)
        /\ target' = Pinned(target, r.token, r.family, r.id) /\ UNCHANGED dropped
     \/ /\ ~CanPin(target, r.family, r.id) /\ HasRoom(target, r.family)
        /\ target' = Allocated(target, r.token, r.family) /\ UNCHANGED dropped
     \/ /\ ~CanPin(target, r.family, r.id) /\ ~HasRoom(target, r.family)
        /\ dropped' = dropped \cup {r} /\ UNCHANGED target
  /\ UNCHANGED vocab

\* The caller assigns tok.vocab = result.vocab, or forgets the result.
EndMigration ==
  /\ todo = {} /\ (Known(target) # {} \/ dropped # {})
  /\ vocab' \in {vocab, target}
  /\ target' = Empty(DefaultLayout) /\ dropped' = {} /\ UNCHANGED todo

VocabNext ==
  \/ \E t \in Tokens, f \in Families :
       RegisterToken(t, f) \/ \E i \in Start(vocab, f) .. End(vocab, f) - 1 : RegisterPinnedToken(t, f, i)
  \/ \E t \in Tokens : RemoveToken(t)
  \/ SaveAndLoad \/ RestartFromCheckpoint
  \/ \E l \in Layouts : StartMigration(l)
  \/ \E r \in todo : MigrateRecord(r)
  \/ EndMigration

VocabSpec == VocabInit /\ [][VocabNext]_vocabVars

-----------------------------------------------------------------------------
(* Properties                                                              *)

\* Each token has an id of its own below the next slot of its family.
IdsSound(v) ==
  /\ \A f \in Families : v.next[f] <= v.layout[f].capacity
  /\ \A t \in Known(v) :
       /\ Start(v, v.family[t]) <= v.id[t]
       /\ v.id[t] < Start(v, v.family[t]) + v.next[v.family[t]]
  /\ \A t, u \in Known(v) : v.id[t] = v.id[u] => t = u

\* Whatever was registered, pinned, removed, loaded, restored or migrated, in any order,
\* no two tokens share an id, and the next one given out is free.
IdsApart == IdsSound(vocab) /\ IdsSound(target)

\* "Re-register a checkpoint's vocab into ``tokenizer`` so ids match exactly": what a
\* restart restores now gives every token the id it has.
RestoreKeepsIds == Restorable(vocab) => \A t \in Known(vocab) : Restored(vocab).id[t] = vocab.id[t]
=============================================================================
