-------------------------------- MODULE Lists --------------------------------
(***************************************************************************)
(* What the code does with lists in one expression, as recursive functions *)
(* over the positions: unlike the operators of the libraries these can be  *)
(* reasoned about (module ListProofs).                                     *)
(***************************************************************************)
EXTENDS Integers, Sequences

\* [x for x in s if x in T]: the members of s that are in T, in their order.
Filtered(s, T) ==
  LET kept[n \in 0 .. Len(s)] ==
        IF n = 0 THEN <<>> ELSE IF s[n] \in T THEN Append(kept[n - 1], s[n]) ELSE kept[n - 1]
  IN  kept[Len(s)]

\* sum(f[n] for n in 1 .. N)
Total(f, N) ==
  LET total[n \in 0 .. N] == IF n = 0 THEN 0 ELSE total[n - 1] + f[n]
  IN  total[N]
=============================================================================
