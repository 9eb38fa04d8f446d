---------------------------- MODULE GreedySearch ----------------------------
(***************************************************************************)
(* What the decoders of inference/engine.py promise, with no cache, draft  *)
(* or confidence: tokens come one at a time, the greedy ones are those of  *)
(* the model, nothing follows the end token, and the result says whether   *)
(* that token ended it.                                                    *)
(***************************************************************************)
EXTENDS Integers, Sequences

CONSTANTS Tokens, Eos, MaxLen

VARIABLES
  target,   \* target[i]: the model's best token after the i - 1 best ones before it
  sampled,  \* the call draws its tokens at random
  out,      \* the tokens so far
  outcome   \* "running", "eos", "length", or "raised"

searchVars == <<target, sampled, out, outcome>>

Ended(s) == s # <<>> /\ s[Len(s)] = Eos

SearchInit ==
  /\ target \in [1..MaxLen -> Tokens]
  /\ sampled \in BOOLEAN
  /\ out = <<>>
  /\ outcome = "running"

\* The end token may stop the search in the step that gives it.
Emit(t) ==
  /\ outcome = "running" /\ ~Ended(out) /\ Len(out) < MaxLen
  /\ ~sampled => t = target[Len(out) + 1]
  /\ out' = Append(out, t)
  /\ outcome' = "running" \/ (t = Eos /\ outcome' = "eos")
  /\ UNCHANGED <<target, sampled>>

\* A call that samples counts its prefix against the length as well.
Finish ==
  /\ outcome = "running"
  /\ outcome' = IF Ended(out) THEN "eos" ELSE "length"
  /\ outcome' = "length" => sampled \/ Len(out) = MaxLen
  /\ UNCHANGED <<target, sampled, out>>

Raise ==
  /\ outcome = "running" /\ sampled
  /\ outcome' = "raised"
  /\ UNCHANGED <<target, sampled, out>>

SearchNext == Finish \/ Raise \/ \E t \in Tokens : Emit(t)

SearchSpec == SearchInit /\ [][SearchNext]_searchVars
=============================================================================
