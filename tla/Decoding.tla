------------------------------ MODULE Decoding ------------------------------
(***************************************************************************)
(* The decoders of inference/engine.py and inference/eagle.py: full and    *)
(* cached greedy search, sampling from a prefix, and the two speculative   *)
(* ones, which let a cheap guesser propose a few tokens and keep those     *)
(* that the model agrees with.                                             *)
(*                                                                         *)
(* The model is a function of the ids it has seen.  Its greedy choices are *)
(* fixed along the path they lead to (target); off that path it may say    *)
(* anything.  A cache holds the ids that decode_step() was fed.            *)
(***************************************************************************)
EXTENDS Integers, Sequences

CONSTANTS
  Tokens,    \* what the model may generate: _mask_bos() takes the start token out
  Bos, Eos,
  StartIds,  \* the start_ids of a sampling call
  MaxLen,    \* max_len
  Guesses,   \* num_speculative_tokens
  Ngram

ASSUME DecodingAssumption ==
  /\ Eos \in Tokens /\ Bos \notin Tokens
  /\ MaxLen \in Nat \ {0} /\ Guesses \in Nat \ {0} /\ Ngram \in Nat \ {0}
  /\ StartIds \subseteq Seq(Tokens \cup {Bos}) \ {<<>>}

Greedy == {"full", "cached", "ngram", "eagle"}
Methods == Greedy \cup {"sample", "sample_full"}

VARIABLES
  method,   \* which decoder was called
  target,   \* the greedy choice at each position of the greedy path
  start,    \* the ids before the first generated one
  tgt,      \* the sequence so far
  input,    \* the sequence with the guesses of this round
  cache,    \* the ids in the key/value cache
  confs,    \* for each confidence kept, the ids it was computed from
  pc,       \* where the decoder is
  ended   \* the end token was seen

decodingVars == <<method, target, start, tgt, input, cache, confs, pc, ended>>

\* What the model may take for the best token after ids.
OnPath(ids) ==
  /\ Len(ids) \in 1..MaxLen
  /\ ids[1] = Bos
  /\ \A i \in 2..Len(ids) : ids[i] = target[i - 1]
Best(ids) == IF OnPath(ids) THEN {target[Len(ids)]} ELSE Tokens

Room == Len(tgt) - 1 < MaxLen
Smaller(a, b) == IF a < b THEN a ELSE b

\* (Mutant: no slot is kept.)
LimitFull == Smaller(Guesses, MaxLen - (Len(tgt) - 1))

\* One slot is kept for the token that the model itself adds to the round.
Limit == Smaller(Guesses, MaxLen - (Len(tgt) - 1) - 1)

\* The n-gram guesser repeats what followed the first earlier occurrence of the
\* last ids.
Matches(ids) ==
  {s \in 1..(Len(ids) - Ngram) :
     /\ s + Ngram < Len(ids)
     /\ SubSeq(ids, s, s + Ngram - 1) = SubSeq(ids, Len(ids) - Ngram + 1, Len(ids))}
NgramDrafts(ids, k) ==
  IF Matches(ids) = {} THEN {<<>>}
  ELSE {SubSeq(ids, s + Ngram, Smaller(s + Ngram + k - 1, Len(ids))) :
          s \in {f \in Matches(ids) : \A g \in Matches(ids) : f <= g}}

\* The draft head says anything, the start token and ids past the end included.
EagleDrafts(k) == [1..k -> Tokens \cup {Bos}]

DecodingInit ==
  /\ method \in Methods
  /\ target \in [1..MaxLen -> Tokens]
  /\ start \in IF method \in Greedy THEN {<<Bos>>} ELSE StartIds
  /\ tgt = start
  /\ input = <<>> /\ cache = <<>> /\ confs = <<>>
  /\ pc = IF method = "sample" THEN "prefill" ELSE "loop"
  /\ ended = FALSE

\* The sequence grows by t; the end token ends the call, otherwise it goes on at next.
Advance(t, next) ==
  /\ tgt' = Append(tgt, t)
  /\ ended' = (t = Eos)
  /\ pc' = IF t = Eos THEN "done" ELSE next

\* decode_step() feeds the last id; the caller keeps its confidence.
Feed ==
  /\ cache' = Append(cache, tgt[Len(tgt)])
  /\ confs' = Append(confs, cache')

FullStep ==
  /\ method = "full" /\ pc = "loop" /\ Room
  /\ confs' = Append(confs, tgt)
  /\ \E t \in Best(tgt) : Advance(t, "loop")
  /\ UNCHANGED <<method, target, start, input, cache>>

CachedStep ==
  /\ method = "cached" /\ pc = "loop" /\ Room
  /\ Feed
  /\ \E t \in Best(cache') : Advance(t, "loop")
  /\ UNCHANGED <<method, target, start, input>>

\* sample() feeds its whole prefix, the last id of which the first round feeds again.
SamplePrefill ==
  /\ pc = "prefill"
  /\ cache' = start
  /\ pc' = "loop"
  /\ UNCHANGED <<method, target, start, tgt, input, confs, ended>>

SampleStep ==
  /\ method = "sample" /\ pc = "loop" /\ Len(tgt) < MaxLen
  /\ Feed
  /\ \E t \in Tokens : Advance(t, "loop")
  /\ UNCHANGED <<method, target, start, input>>

\* Without a cache the last row is taken twice, of the logits and of that row, and
\* _mask_bos() raises IndexError on the number that is left.
SampleFull ==
  /\ method = "sample_full" /\ pc = "loop" /\ Len(tgt) < MaxLen
  /\ confs' = Append(confs, tgt)
  /\ pc' = "raised"
  /\ UNCHANGED <<method, target, start, tgt, input, cache, ended>>

NgramRound ==
  /\ method = "ngram" /\ pc = "loop" /\ Room
  /\ \E d \in NgramDrafts(tgt, Limit) : input' = tgt \o d
  /\ confs' = Append(confs, input')
  /\ pc' = "verify"
  /\ UNCHANGED <<method, target, start, tgt, cache, ended>>

\* The model's choice after tgt is one row of the forward pass over input.
NgramVerify ==
  /\ method = "ngram" /\ pc = "verify" /\ Len(tgt) < Len(input)
  /\ \E t \in Best(SubSeq(input, 1, Len(tgt))) :
       /\ tgt' = Append(tgt, t)
       /\ pc' = IF t = input[Len(tgt) + 1] THEN "verify" ELSE "settle"
  /\ UNCHANGED <<method, target, start, input, cache, confs, ended>>

NgramTail ==
  /\ method = "ngram" /\ pc = "verify" /\ Len(tgt) = Len(input)
  /\ \E t \in Best(input) : tgt' = Append(tgt, t)
  /\ pc' = "settle"
  /\ UNCHANGED <<method, target, start, input, cache, confs, ended>>

\* The end token is looked for at the end of the round only.
NgramSettle ==
  /\ pc = "settle"
  /\ ended' = (tgt[Len(tgt)] = Eos)
  /\ pc' = IF ended' THEN "done" ELSE "loop"
  /\ UNCHANGED <<method, target, start, tgt, input, cache, confs>>

EagleRound ==
  /\ method = "eagle" /\ pc = "loop" /\ Room
  /\ Feed
  /\ \E t \in Best(cache'), d \in EagleDrafts(Limit) :
       /\ input' = tgt \o d
       /\ Advance(t, IF d # <<>> /\ d[1] = t THEN "verify" ELSE "loop")
  /\ UNCHANGED <<method, target, start>>

EagleVerify ==
  /\ method = "eagle" /\ pc = "verify" /\ Len(tgt) < Len(input)
  /\ Feed
  /\ \E t \in Best(cache') : Advance(t, IF t = input[Len(tgt) + 1] THEN "verify" ELSE "loop")
  /\ UNCHANGED <<method, target, start, input>>

\* (Mutant: the confidence of the last token of a round is dropped.)
EagleTailSilent ==
  /\ method = "eagle" /\ pc = "verify" /\ Len(tgt) = Len(input)
  /\ cache' = Append(cache, tgt[Len(tgt)])
  /\ \E t \in Best(cache') : Advance(t, "loop")
  /\ UNCHANGED <<method, target, start, input, confs>>

EagleTail ==
  /\ method = "eagle" /\ pc = "verify" /\ Len(tgt) = Len(input)
  /\ Feed
  /\ \E t \in Best(cache') : Advance(t, "loop")
  /\ UNCHANGED <<method, target, start, input>>

Exhausted ==
  /\ pc = "loop"
  /\ IF method \in Greedy THEN ~Room ELSE Len(tgt) >= MaxLen
  /\ pc' = "done"
  /\ UNCHANGED <<method, target, start, tgt, input, cache, confs, ended>>

DecodingNext ==
  \/ FullStep \/ CachedStep
  \/ SamplePrefill \/ SampleStep \/ SampleFull
  \/ NgramRound \/ NgramVerify \/ NgramTail \/ NgramSettle
  \/ EagleRound \/ EagleVerify \/ EagleTail
  \/ Exhausted

DecodingSpec == DecodingInit /\ [][DecodingNext]_decodingVars

Ids == Tokens \cup {Bos}

DecodingTypeOK ==
  /\ method \in Methods
  /\ target \in [1..MaxLen -> Tokens]
  /\ start \in Seq(Ids) \ {<<>>}
  /\ tgt \in Seq(Ids) \ {<<>>}
  /\ input \in Seq(Ids) /\ cache \in Seq(Ids) /\ confs \in Seq(Seq(Ids))
  /\ pc \in {"prefill", "loop", "verify", "settle", "done", "raised"}
  /\ ended \in BOOLEAN

\* Each greedy decoder, the speculative ones with their guesses included, gives exactly
\* the tokens that the model's own choices lead to, none after the end token and none
\* past max_len, and reports whether the end token ended it.
Search == INSTANCE GreedySearch WITH
  sampled <- method \notin Greedy,
  out     <- SubSeq(tgt, Len(start) + 1, Len(tgt)),
  outcome <- CASE pc = "raised" -> "raised"
               [] pc = "done" -> IF ended THEN "eos" ELSE "length"
               [] OTHER -> "running"
ImplementsGreedy == Search!SearchSpec

\* per_token_confidence: token i of a full, cached or EAGLE search comes with the
\* confidence that the model had in it, after the tokens before it.  (An n-gram round
\* keeps one confidence however many tokens it adds.)
ConfidencePerToken ==
  method \in {"full", "cached", "eagle"}
    => confs = [i \in 1..(Len(tgt) - 1) |-> SubSeq(tgt, 1, i)]

\* "cached decoding is exactly equivalent to full-sequence decoding": what is in the
\* cache is what stands in the sequence.
CachedIsFull == cache = SubSeq(tgt, 1, Len(cache))
=============================================================================
