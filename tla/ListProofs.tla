------------------------------ MODULE ListProofs ------------------------------
(***************************************************************************)
(* Facts about the operators of Lists, and induction over the naturals in  *)
(* the form that needs no operator for a parameter: a set of naturals that *)
(* holds 0 and the successor of each member is Nat.                        *)
(***************************************************************************)
EXTENDS Lists, TLAPS, WellFoundedInduction, FiniteSetTheorems, SequenceTheorems

-----------------------------------------------------------------------------
(* Induction                                                               *)

\* Every nonempty set of naturals has a least member.
LEMMA LeastElement ==
  ASSUME NEW T \in SUBSET Nat, T # {}
  PROVE  \E n \in T : \A m \in T : n <= m
<1> DEFINE R == {p \in Nat \X Nat : p[1] < p[2]}
<1>1. IsWellFoundedOn(R, Nat)
  BY NatLessThanWellFounded DEF OpToRel
<1>2. PICK x \in T : \A y \in T : ~ (<<y, x>> \in R)
  BY <1>1, WFMin
<1>3. \A y \in T : x <= y
  <2>1. TAKE y \in T
  <2>2. <<y, x>> \in Nat \X Nat
    OBVIOUS
  <2>3. ~ (y < x)
    BY <1>2, <2>2
  <2> QED
    BY <2>3
<1> QED BY <1>3

\* A set of naturals with 0 and the successor of each member holds them all.
LEMMA Induction ==
  ASSUME NEW T \in SUBSET Nat, 0 \in T, \A n \in T : n + 1 \in T
  PROVE  T = Nat
<1>1. SUFFICES ASSUME Nat \ T # {} PROVE FALSE
  OBVIOUS
<1>2. PICK n \in Nat \ T : \A m \in Nat \ T : n <= m
  BY <1>1, LeastElement
<1>3. n - 1 \in T
  BY <1>2
<1> QED
  BY <1>2, <1>3

-----------------------------------------------------------------------------
(* Filtered lists                                                          *)

\* The run of the loop over s up to n.
Loop(s, T, g, n) ==
  g[0] = <<>> /\ \A i \in 1 .. n : g[i] = IF s[i] \in T THEN Append(g[i - 1], s[i]) ELSE g[i - 1]

\* The loop can be run up to each position.
LEMMA LoopRuns ==
  ASSUME NEW S, NEW s \in Seq(S), NEW T, NEW n \in 0 .. Len(s)
  PROVE  \E g \in [0 .. n -> Seq(S)] : Loop(s, T, g, n)
<1> DEFINE P == {k \in Nat : k <= Len(s) => \E g \in [0 .. k -> Seq(S)] : Loop(s, T, g, k)}
<1>1. 0 \in P
  <2> DEFINE h == [i \in 0 .. 0 |-> <<>>]
  <2>1. h \in [0 .. 0 -> Seq(S)] /\ h[0] = <<>> /\ 1 .. 0 = {}
    OBVIOUS
  <2>2. Loop(s, T, h, 0)
    BY <2>1 DEF Loop
  <2> QED
    BY <2>1, <2>2
<1>2. \A k \in P : k + 1 \in P
  <2>1. SUFFICES ASSUME NEW k \in P, k + 1 <= Len(s)
                 PROVE  \E g \in [0 .. k + 1 -> Seq(S)] : Loop(s, T, g, k + 1)
    BY SMTT(30)
  <2>2. PICK g \in [0 .. k -> Seq(S)] : Loop(s, T, g, k)
    BY <2>1
  <2> DEFINE more == IF s[k + 1] \in T THEN Append(g[k], s[k + 1]) ELSE g[k]
             h == [i \in 0 .. k + 1 |-> IF i = k + 1 THEN more ELSE g[i]]
  <2>3. more \in Seq(S)
    <3>1. g[k] \in Seq(S) /\ s[k + 1] \in S
      BY <2>1
    <3> QED
      BY <3>1
  <2>4. h \in [0 .. k + 1 -> Seq(S)]
    BY <2>1, <2>3
  <2>5. Loop(s, T, h, k + 1)
    <3> HIDE DEF more
    <3>1. h[0] = <<>>
      BY <2>1, <2>2 DEF Loop
    <3>2. ASSUME NEW i \in 1 .. k + 1
          PROVE  h[i] = IF s[i] \in T THEN Append(h[i - 1], s[i]) ELSE h[i - 1]
      <4>1. CASE i = k + 1
        <5>1. h[i] = more /\ h[i - 1] = g[k]
          BY <2>1, <4>1
        <5> QED
          BY <4>1, <5>1 DEF more
      <4>2. CASE i # k + 1
        <5>1. i \in 1 .. k /\ h[i] = g[i] /\ h[i - 1] = g[i - 1]
          BY <2>1, <4>2
        <5> QED
          BY <2>2, <5>1 DEF Loop
      <4> QED
        BY <4>1, <4>2
    <3> QED
      BY <3>1, <3>2 DEF Loop
  <2> QED
    BY <2>4, <2>5
<1>3. P = Nat
  BY <1>1, <1>2, Induction
<1> QED
  BY <1>3

\* Filtered() is what the loop has collected at the end of the list.
LEMMA FilteredLoop ==
  ASSUME NEW S, NEW s \in Seq(S), NEW T
  PROVE  \E g \in [0 .. Len(s) -> Seq(S)] : Loop(s, T, g, Len(s)) /\ Filtered(s, T) = g[Len(s)]
<1> DEFINE Step(g) == [n \in 0 .. Len(s) |->
             IF n = 0 THEN <<>> ELSE IF s[n] \in T THEN Append(g[n - 1], s[n]) ELSE g[n - 1]]
           kept == CHOOSE g : g = Step(g)
<1>1. PICK g \in [0 .. Len(s) -> Seq(S)] : Loop(s, T, g, Len(s))
  <2>1. Len(s) \in 0 .. Len(s)
    OBVIOUS
  <2> QED
    BY <2>1, LoopRuns
<1>2. g = Step(g)
  <2>1. ASSUME NEW n \in 0 .. Len(s) PROVE g[n] = Step(g)[n]
    <3>1. n = 0 \/ n \in 1 .. Len(s)
      OBVIOUS
    <3> QED
      BY <1>1, <3>1 DEF Loop
  <2> QED
    BY <2>1
<1>3. kept = Step(kept)
  BY <1>2
<1> HIDE DEF kept
<1>4. Loop(s, T, kept, Len(s))
  <2>1. kept[0] = <<>>
    BY <1>3
  <2>2. ASSUME NEW i \in 1 .. Len(s)
        PROVE kept[i] = IF s[i] \in T THEN Append(kept[i - 1], s[i]) ELSE kept[i - 1]
    <3>1. i \in 0 .. Len(s) /\ i # 0
      OBVIOUS
    <3>2. kept[i] = Step(kept)[i]
      BY <1>3
    <3> QED
      BY <3>1, <3>2
  <2> QED
    BY <2>1, <2>2 DEF Loop
<1>5. kept \in [0 .. Len(s) -> Seq(S)]
  <2> DEFINE P == {k \in Nat : k <= Len(s) => kept[k] \in Seq(S)}
  <2>1. 0 \in P
    <3>1. kept[0] = <<>> /\ <<>> \in Seq(S)
      BY <1>4 DEF Loop
    <3> QED
      BY <3>1
  <2>2. \A k \in P : k + 1 \in P
    <3>1. SUFFICES ASSUME NEW k \in P, k + 1 <= Len(s) PROVE kept[k + 1] \in Seq(S)
      OBVIOUS
    <3>2. kept[k] \in Seq(S) /\ s[k + 1] \in S /\ k + 1 \in 1 .. Len(s)
      BY <3>1
    <3>3. kept[k + 1] = IF s[k + 1] \in T THEN Append(kept[k], s[k + 1]) ELSE kept[k]
      BY <1>4, <3>2 DEF Loop
    <3> QED
      BY <3>2, <3>3
  <2>3. P = Nat
    BY <2>1, <2>2, Induction
  <2>4. \A k \in 0 .. Len(s) : kept[k] \in Seq(S)
    BY <2>3
  <2> QED
    BY <1>3, <2>4
<1> QED
  BY <1>4, <1>5 DEF Filtered, kept

\* A filtered list holds the members that pass, each once for every place it stands at,
\* and in their order: its positions map to those of the list, upwards.
LEMMA FilteredPicks ==
  ASSUME NEW S, NEW s \in Seq(S), NEW T
  PROVE  /\ Filtered(s, T) \in Seq(S)
         /\ \E f \in [1 .. Len(Filtered(s, T)) -> 1 .. Len(s)] :
              /\ \A i \in 1 .. Len(Filtered(s, T)) : Filtered(s, T)[i] = s[f[i]] /\ s[f[i]] \in T
              /\ \A i, j \in 1 .. Len(Filtered(s, T)) : i < j => f[i] < f[j]
              /\ \A k \in 1 .. Len(s) : s[k] \in T => \E i \in 1 .. Len(Filtered(s, T)) : f[i] = k
<1>1. PICK g \in [0 .. Len(s) -> Seq(S)] : Loop(s, T, g, Len(s)) /\ Filtered(s, T) = g[Len(s)]
  BY FilteredLoop
<1> DEFINE Picks(n, f) ==
             /\ \A i \in 1 .. Len(g[n]) : g[n][i] = s[f[i]] /\ s[f[i]] \in T
             /\ \A i, j \in 1 .. Len(g[n]) : i < j => f[i] < f[j]
             /\ \A k \in 1 .. n : s[k] \in T => \E i \in 1 .. Len(g[n]) : f[i] = k
           P == {n \in Nat : n <= Len(s) => \E f \in [1 .. Len(g[n]) -> 1 .. n] : Picks(n, f)}
<1>2. 0 \in P
  <2>1. g[0] = <<>> /\ 1 .. Len(<<>>) = {} /\ 1 .. 0 = {}
    BY <1>1 DEF Loop
  <2> DEFINE h == [i \in 1 .. 0 |-> i]
  <2>2. h \in [1 .. Len(g[0]) -> 1 .. 0] /\ Picks(0, h)
    BY <2>1
  <2> HIDE DEF Picks
  <2> QED
    BY <2>2
<1>3. \A n \in P : n + 1 \in P
  <2>1. SUFFICES ASSUME NEW n \in P, n + 1 <= Len(s)
                 PROVE  \E f \in [1 .. Len(g[n + 1]) -> 1 .. n + 1] : Picks(n + 1, f)
    <3> HIDE DEF Picks
    <3> QED
      OBVIOUS
  <2>2. PICK f \in [1 .. Len(g[n]) -> 1 .. n] : Picks(n, f)
    BY <2>1
  <2>3. /\ g[n] \in Seq(S) /\ n + 1 \in 1 .. Len(s) /\ s[n + 1] \in S
        /\ g[n + 1] = IF s[n + 1] \in T THEN Append(g[n], s[n + 1]) ELSE g[n]
    BY <1>1, <2>1 DEF Loop
  <2>4. CASE s[n + 1] \notin T
    <3>1. g[n + 1] = g[n]
      BY <2>3, <2>4
    <3>2. f \in [1 .. Len(g[n + 1]) -> 1 .. n + 1]
      BY <2>2, <3>1
    <3>3. Picks(n + 1, f)
      <4>1. \A k \in 1 .. n + 1 : s[k] \in T => k \in 1 .. n
        BY <2>4
      <4> QED
        BY <2>2, <3>1, <4>1
    <3> HIDE DEF Picks
    <3> QED
      BY <3>2, <3>3
  <2>5. CASE s[n + 1] \in T
    <3> DEFINE m == Len(g[n])
               h == [i \in 1 .. m + 1 |-> IF i = m + 1 THEN n + 1 ELSE f[i]]
    <3>1. /\ m \in Nat /\ Len(g[n + 1]) = m + 1
          /\ \A i \in 1 .. m : g[n + 1][i] = g[n][i]
          /\ g[n + 1][m + 1] = s[n + 1]
      BY <2>3, <2>5
    <3> HIDE DEF m
    <3>2. h \in [1 .. m + 1 -> 1 .. n + 1]
      BY <2>2, <3>1 DEF m
    <3>3. \A i \in 1 .. m + 1 : g[n + 1][i] = s[h[i]] /\ s[h[i]] \in T
      <4>1. TAKE i \in 1 .. m + 1
      <4>2. CASE i = m + 1
        BY <2>5, <3>1, <4>2
      <4>3. CASE i # m + 1
        <5>1. i \in 1 .. m /\ h[i] = f[i]
          BY <3>1, <4>3
        <5> QED
          BY <2>2, <3>1, <5>1 DEF m
      <4> QED
        BY <4>2, <4>3
    <3>4. \A i, j \in 1 .. m + 1 : i < j => h[i] < h[j]
      <4>1. TAKE i, j \in 1 .. m + 1
      <4>2. HAVE i < j
      <4>3. i \in 1 .. m /\ h[i] = f[i]
        BY <3>1, <4>2
      <4>6. f[i] \in 1 .. n
        BY <2>2, <4>3 DEF m
      <4>4. CASE j = m + 1
        BY <3>1, <4>3, <4>4, <4>6, <2>1
      <4>5. CASE j # m + 1
        <5>1. j \in 1 .. m /\ h[j] = f[j]
          BY <3>1, <4>5
        <5> QED
          BY <2>2, <4>2, <4>3, <5>1 DEF m
      <4> QED
        BY <4>4, <4>5
    <3>5. \A k \in 1 .. n + 1 : s[k] \in T => \E i \in 1 .. m + 1 : h[i] = k
      <4>1. TAKE k \in 1 .. n + 1
      <4>2. HAVE s[k] \in T
      <4>3. CASE k = n + 1
        BY <3>1, <4>3
      <4>4. CASE k # n + 1
        <5>1. PICK i \in 1 .. m : f[i] = k
          BY <2>1, <2>2, <4>2, <4>4 DEF m
        <5> QED
          BY <3>1, <5>1
      <4> QED
        BY <4>3, <4>4
    <3>6. Picks(n + 1, h)
      BY <3>1, <3>3, <3>4, <3>5
    <3> HIDE DEF Picks, h
    <3> QED
      BY <3>1, <3>2, <3>6
  <2> QED
    BY <2>4, <2>5
<1>4. P = Nat
  <2> HIDE DEF P
  <2>1. P \in SUBSET Nat
    BY DEF P
  <2> QED
    BY <1>2, <1>3, <2>1, Induction
<1>5. Len(s) \in Nat
  OBVIOUS
<1>6. \E f \in [1 .. Len(g[Len(s)]) -> 1 .. Len(s)] : Picks(Len(s), f)
  <2> HIDE DEF Picks
  <2> QED
    BY <1>4, <1>5
<1>7. PICK f \in [1 .. Len(g[Len(s)]) -> 1 .. Len(s)] : Picks(Len(s), f)
  BY <1>6
<1>8. Filtered(s, T) = g[Len(s)]
  BY <1>1
<1>9. Filtered(s, T) \in Seq(S) /\ f \in [1 .. Len(Filtered(s, T)) -> 1 .. Len(s)]
  BY <1>1, <1>5, <1>8
<1>10. \A i \in 1 .. Len(Filtered(s, T)) : Filtered(s, T)[i] = s[f[i]] /\ s[f[i]] \in T
  BY <1>7, <1>8
<1>11. \A i, j \in 1 .. Len(Filtered(s, T)) : i < j => f[i] < f[j]
  BY <1>7, <1>8
<1>12. \A k \in 1 .. Len(s) : s[k] \in T => \E i \in 1 .. Len(Filtered(s, T)) : f[i] = k
  BY <1>7, <1>8
<1> QED
  BY <1>9, <1>10, <1>11, <1>12

\* The members of a filtered list are those of the list that pass.
LEMMA FilteredMembers ==
  ASSUME NEW S, NEW s \in Seq(S), NEW T
  PROVE  {Filtered(s, T)[i] : i \in 1 .. Len(Filtered(s, T))} = {s[k] : k \in 1 .. Len(s)} \cap T
<1> DEFINE r == Filtered(s, T)
<1>1. PICK f \in [1 .. Len(r) -> 1 .. Len(s)] :
        /\ \A i \in 1 .. Len(r) : r[i] = s[f[i]] /\ s[f[i]] \in T
        /\ \A k \in 1 .. Len(s) : s[k] \in T => \E i \in 1 .. Len(r) : f[i] = k
  BY FilteredPicks
<1> HIDE DEF r
<1>2. ASSUME NEW k \in 1 .. Len(s), s[k] \in T PROVE \E i \in 1 .. Len(r) : r[i] = s[k]
  <2>1. PICK i \in 1 .. Len(r) : f[i] = k
    BY <1>1, <1>2
  <2> QED
    BY <1>1, <2>1
<1>3. ASSUME NEW i \in 1 .. Len(r) PROVE r[i] \in {s[k] : k \in 1 .. Len(s)} \cap T
  <2>1. f[i] \in 1 .. Len(s) /\ r[i] = s[f[i]] /\ s[f[i]] \in T
    BY <1>1
  <2> QED
    BY <2>1
<1>4. {r[i] : i \in 1 .. Len(r)} = {s[k] : k \in 1 .. Len(s)} \cap T
  BY <1>2, <1>3
<1> QED
  BY <1>4 DEF r

\* A list without repetitions is still one when it is filtered.
LEMMA FilteredInjective ==
  ASSUME NEW S, NEW s \in Seq(S), NEW T,
         \A k, l \in 1 .. Len(s) : s[k] = s[l] => k = l,
         NEW i \in 1 .. Len(Filtered(s, T)), NEW j \in 1 .. Len(Filtered(s, T)),
         Filtered(s, T)[i] = Filtered(s, T)[j]
  PROVE  i = j
<1> DEFINE r == Filtered(s, T)
<1>1. PICK f \in [1 .. Len(r) -> 1 .. Len(s)] :
        /\ \A m \in 1 .. Len(r) : r[m] = s[f[m]]
        /\ \A m, n \in 1 .. Len(r) : m < n => f[m] < f[n]
  BY FilteredPicks
<1>2. i \in 1 .. Len(r) /\ j \in 1 .. Len(r) /\ r[i] = r[j]
  OBVIOUS
<1> HIDE DEF r
<1>3. f[i] \in 1 .. Len(s) /\ f[j] \in 1 .. Len(s) /\ s[f[i]] = s[f[j]]
  BY <1>1, <1>2
<1>4. f[i] = f[j]
  BY <1>3
<1>5. ~(i < j) /\ ~(j < i)
  BY <1>1, <1>2, <1>3, <1>4
<1> QED
  BY <1>2, <1>5

\* A position of two lists with one element between them.
LEMMA Beyond ==
  ASSUME NEW a \in Nat, NEW b \in Nat, NEW i \in 1 .. (a + 1 + b)
  PROVE  \/ i \in 1 .. a
         \/ i = a + 1
         \/ i > a + 1 /\ i \in (a + 2) .. (a + 1 + b)
              /\ \E k \in 1 .. b : k = i - (a + 1) /\ i = a + 1 + k
<1>1. CASE i > a + 1
  <2>1. i - (a + 1) \in 1 .. b /\ i = a + 1 + (i - (a + 1))
    BY <1>1
  <2> QED
    BY <1>1, <2>1
<1> QED
  BY <1>1

\* An increasing map is injective.
LEMMA IncreasingInjective ==
  ASSUME NEW a \in Nat, NEW N \in Nat, NEW f \in [1 .. a -> 1 .. N],
         \A i, j \in 1 .. a : i < j => f[i] < f[j]
  PROVE  \A k, l \in 1 .. a : f[k] = f[l] => k = l
<1> SUFFICES ASSUME NEW k \in 1 .. a, NEW l \in 1 .. a, f[k] = f[l] PROVE k = l
  OBVIOUS
<1>1. f[k] \in Nat /\ f[l] \in Nat
  OBVIOUS
<1>2. ~(k < l) /\ ~(l < k)
  BY <1>1
<1> QED
  BY <1>2

\* [x for x in s if x in T] + [e] + [x for x in s if x in U], and where its elements come
\* from, 0 standing for e.
Inserted(s, T, e, U) == Filtered(s, T) \o <<e>> \o Filtered(s, U)

ComesFrom(r, g, s, e) ==
  /\ g \in [1 .. Len(r) -> 0 .. Len(s)]
  /\ \A i \in 1 .. Len(r) : r[i] = IF g[i] = 0 THEN e ELSE s[g[i]]
  /\ \A i, j \in 1 .. Len(r) : g[i] = g[j] => i = j

\* The first one is the first of T, or e when there is none.
BeginsWith(g, s, T) ==
  /\ g[1] = 0 => \A k \in 1 .. Len(s) : s[k] \notin T
  /\ g[1] # 0 => s[g[1]] \in T /\ \A k \in 1 .. Len(s) : k < g[1] => s[k] \notin T

LEMMA InsertedPicks ==
  ASSUME NEW S, NEW s \in Seq(S), NEW T, NEW U, NEW e \in S,
         \A k \in 1 .. Len(s) : ~(s[k] \in T /\ s[k] \in U)
  PROVE  /\ Inserted(s, T, e, U) \in Seq(S) /\ Len(Inserted(s, T, e, U)) >= 1
         /\ \E g : ComesFrom(Inserted(s, T, e, U), g, s, e) /\ BeginsWith(g, s, T)
<1> DEFINE r == Inserted(s, T, e, U)
<1> DEFINE A == Filtered(s, T)
           B == Filtered(s, U)
           N == Len(s)
<1>1. A \in Seq(S) /\ B \in Seq(S) /\ N \in Nat
  BY FilteredPicks, LenProperties
<1>2. PICK f \in [1 .. Len(A) -> 1 .. N] :
        /\ \A i \in 1 .. Len(A) : A[i] = s[f[i]] /\ s[f[i]] \in T
        /\ \A i, j \in 1 .. Len(A) : i < j => f[i] < f[j]
        /\ \A k \in 1 .. N : s[k] \in T => \E i \in 1 .. Len(A) : f[i] = k
  BY FilteredPicks
<1>3. PICK h \in [1 .. Len(B) -> 1 .. N] :
        /\ \A i \in 1 .. Len(B) : B[i] = s[h[i]] /\ s[h[i]] \in U
        /\ \A i, j \in 1 .. Len(B) : i < j => h[i] < h[j]
  BY FilteredPicks
<1>4. r = A \o <<e>> \o B
  BY DEF Inserted
<1> HIDE DEF A, B, N, r
<1> DEFINE a == Len(A)
           b == Len(B)
           n == a + 1 + b
<1>5. /\ a \in Nat /\ b \in Nat
      /\ A \o <<e>> \in Seq(S) /\ Len(A \o <<e>>) = a + 1
      /\ \A i \in 1 .. a : (A \o <<e>>)[i] = A[i]
      /\ (A \o <<e>>)[a + 1] = e
  <2>1. <<e>> \in Seq(S) /\ Len(<<e>>) = 1 /\ <<e>>[1] = e
    OBVIOUS
  <2>2. a \in Nat /\ b \in Nat
    BY <1>1, LenProperties
  <2> QED
    BY <1>1, <2>1, <2>2, ConcatProperties
<1>6. /\ r \in Seq(S) /\ Len(r) = n
      /\ \A i \in 1 .. a : r[i] = A[i]
      /\ r[a + 1] = e
      /\ \A i \in (a + 2) .. n : r[i] = B[i - (a + 1)]
  <2> DEFINE C == A \o <<e>>
  <2>1. C \in Seq(S) /\ Len(C) = a + 1 /\ Len(C) \in Nat
    BY <1>5
  <2>c. r = C \o B
    BY <1>4
  <2>2. /\ \A i \in 1 .. a : C[i] = A[i]
        /\ C[a + 1] = e
    BY <1>5
  <2> HIDE DEF C
  <2>3. /\ r \in Seq(S) /\ Len(r) = Len(C) + b
        /\ \A i \in 1 .. Len(C) : r[i] = C[i]
        /\ \A i \in (Len(C) + 1) .. (Len(C) + b) : r[i] = B[i - Len(C)]
    <3> DEFINE D == C \o B
    <3>1. /\ D \in Seq(S) /\ Len(D) = Len(C) + Len(B)
          /\ \A i \in 1 .. Len(C) + Len(B) : D[i] = IF i <= Len(C) THEN C[i] ELSE B[i - Len(C)]
      BY <1>1, <2>1, ConcatProperties
    <3> HIDE DEF D
    <3>2. r = D /\ Len(B) \in Nat
      BY <1>5, <2>c DEF D
    <3>3. \A i \in 1 .. Len(C) : i \in 1 .. Len(C) + Len(B) /\ i <= Len(C)
      BY <2>1, <3>2
    <3>4. \A i \in (Len(C) + 1) .. (Len(C) + Len(B)) :
            i \in 1 .. Len(C) + Len(B) /\ ~(i <= Len(C))
      BY <2>1, <3>2
    <3> QED
      BY <3>1, <3>2, <3>3, <3>4
  <2>4. /\ Len(C) + b = n /\ Len(C) + 1 = a + 2
        /\ a + 1 \in 1 .. Len(C) /\ \A i \in 1 .. a : i \in 1 .. Len(C)
    BY <1>5, <2>1
  <2> QED
    BY <2>1, <2>2, <2>3, <2>4
<1>7. \A k \in 1 .. b : r[a + 1 + k] = B[k]
  <2> SUFFICES ASSUME NEW k \in 1 .. b PROVE r[a + 1 + k] = B[k]
    OBVIOUS
  <2>1. a + 1 + k \in (a + 2) .. n /\ (a + 1 + k) - (a + 1) = k
    BY <1>5
  <2> QED
    BY <1>6, <2>1
<1> DEFINE g == [i \in 1 .. n |-> IF i <= a THEN f[i] ELSE IF i = a + 1 THEN 0 ELSE h[i - (a + 1)]]
<1>8. /\ DOMAIN g = 1 .. n /\ g = [i \in 1 .. n |-> g[i]]
      /\ \A i \in 1 .. a : g[i] = f[i]
      /\ g[a + 1] = 0
  BY <1>5
<1>9. \A k \in 1 .. b : g[a + 1 + k] = h[k]
  <2> SUFFICES ASSUME NEW k \in 1 .. b PROVE g[a + 1 + k] = h[k]
    OBVIOUS
  <2>1. /\ a + 1 + k \in 1 .. n /\ (a + 1 + k) - (a + 1) = k
        /\ ~(a + 1 + k <= a) /\ a + 1 + k # a + 1
    BY <1>5
  <2> QED
    BY <2>1
<1>10. /\ \A i \in 1 .. a : f[i] \in 1 .. N /\ f[i] # 0
       /\ \A k \in 1 .. b : h[k] \in 1 .. N /\ h[k] # 0
  <2>1. \A m \in 1 .. N : m # 0
    BY <1>1
  <2> QED
    BY <2>1
<1> HIDE DEF g
<1> HIDE DEF a, b
<1>11. ASSUME NEW i \in 1 .. n
       PROVE  \/ i \in 1 .. a /\ g[i] = f[i] /\ r[i] = A[i]
              \/ i = a + 1 /\ g[i] = 0 /\ r[i] = e
              \/ \E k \in 1 .. b : i = a + 1 + k /\ g[i] = h[k] /\ r[i] = B[k]
  <2>1. CASE i \in 1 .. a
    BY <1>6, <1>8, <2>1
  <2>2. CASE i = a + 1
    BY <1>6, <1>8, <2>2
  <2>3. CASE \E k \in 1 .. b : i = a + 1 + k
    BY <1>7, <1>9, <2>3
  <2>4. i \in 1 .. a \/ i = a + 1 \/ \E k \in 1 .. b : i = a + 1 + k
    BY <1>5, Beyond
  <2> QED
    BY <2>1, <2>2, <2>3, <2>4
<1> HIDE DEF n
<1>12. g \in [1 .. n -> 0 .. N]
  <2>1. 0 \in 0 .. N /\ \A m \in 1 .. N : m \in 0 .. N
    BY <1>1
  <2>2. \A i \in 1 .. n : g[i] \in 0 .. N
    BY <1>10, <1>11, <2>1
  <2> QED
    BY <1>8, <2>2
<1>13. \A i \in 1 .. n : r[i] = IF g[i] = 0 THEN e ELSE s[g[i]]
  <2> SUFFICES ASSUME NEW i \in 1 .. n PROVE r[i] = IF g[i] = 0 THEN e ELSE s[g[i]]
    OBVIOUS
  <2>1. CASE i \in 1 .. a /\ g[i] = f[i] /\ r[i] = A[i]
    BY <1>2, <1>10, <2>1 DEF a
  <2>2. CASE i = a + 1 /\ g[i] = 0 /\ r[i] = e
    BY <2>2
  <2>3. CASE \E k \in 1 .. b : i = a + 1 + k /\ g[i] = h[k] /\ r[i] = B[k]
    BY <1>3, <1>10, <2>3 DEF b
  <2> QED
    BY <1>11, <2>1, <2>2, <2>3
<1>14. ASSUME NEW i \in 1 .. n, NEW j \in 1 .. n, g[i] = g[j] PROVE i = j
  <2>1. /\ f \in [1 .. a -> 1 .. N] /\ \A k, l \in 1 .. a : k < l => f[k] < f[l]
        /\ h \in [1 .. b -> 1 .. N] /\ \A k, l \in 1 .. b : k < l => h[k] < h[l]
    BY <1>2, <1>3 DEF a, b
  <2>2. /\ \A k, l \in 1 .. a : f[k] = f[l] => k = l
        /\ \A k, l \in 1 .. b : h[k] = h[l] => k = l
    <3>0. a \in Nat /\ b \in Nat /\ N \in Nat
      BY <1>1, <1>5
    <3>1. \A k, l \in 1 .. a : f[k] = f[l] => k = l
      <4>1. f \in [1 .. a -> 1 .. N]
        BY <2>1
      <4>2. \A k, l \in 1 .. a : k < l => f[k] < f[l]
        BY <2>1
      <4> QED
        BY <3>0, <4>1, <4>2, IncreasingInjective
    <3>2. \A k, l \in 1 .. b : h[k] = h[l] => k = l
      <4>1. h \in [1 .. b -> 1 .. N]
        BY <2>1
      <4>2. \A k, l \in 1 .. b : k < l => h[k] < h[l]
        BY <2>1
      <4> QED
        BY <3>0, <4>1, <4>2, IncreasingInjective
    <3> QED
      BY <3>1, <3>2
  <2>3. \A k \in 1 .. a, l \in 1 .. b : f[k] # h[l]
    <3> SUFFICES ASSUME NEW k \in 1 .. a, NEW l \in 1 .. b, f[k] = h[l] PROVE FALSE
      OBVIOUS
    <3>1. f[k] \in 1 .. N /\ s[f[k]] \in T /\ s[f[k]] \in U
      BY <1>2, <1>3, <1>10 DEF a, b
    <3> QED
      BY <3>1 DEF N
  <2>4. \/ i \in 1 .. a /\ g[i] = f[i]
        \/ i = a + 1 /\ g[i] = 0
        \/ \E k \in 1 .. b : i = a + 1 + k /\ g[i] = h[k]
    BY <1>11
  <2>5. \/ j \in 1 .. a /\ g[j] = f[j]
        \/ j = a + 1 /\ g[j] = 0
        \/ \E k \in 1 .. b : j = a + 1 + k /\ g[j] = h[k]
    BY <1>11
  <2> QED
    BY <1>10, <1>14, <2>2, <2>3, <2>4, <2>5
<1>15. /\ g[1] = 0 => \A k \in 1 .. N : s[k] \notin T
       /\ g[1] # 0 => s[g[1]] \in T /\ \A k \in 1 .. N : k < g[1] => s[k] \notin T
  <2>1. CASE a = 0
    <3>1. g[1] = 0
      BY <1>8, <2>1
    <3>2. \A k \in 1 .. N : s[k] \notin T
      <4>1. 1 .. Len(A) = {}
        BY <2>1 DEF a
      <4> QED
        BY <1>2, <4>1
    <3> QED
      BY <3>1, <3>2
  <2>2. CASE a # 0
    <3>1. 1 \in 1 .. a
      BY <1>5, <2>2
    <3>2. g[1] = f[1] /\ f[1] # 0 /\ s[f[1]] \in T /\ f[1] \in 1 .. N
      BY <1>2, <1>8, <1>10, <3>1 DEF a
    <3>3. ASSUME NEW k \in 1 .. N, k < f[1], s[k] \in T PROVE FALSE
      <4>1. PICK i \in 1 .. a : f[i] = k
        BY <1>2, <3>3 DEF a
      <4>2. i = 1 \/ 1 < i
        BY <1>5
      <4>3. f[1] <= f[i]
        BY <1>1, <1>2, <3>1, <3>2, <4>1, <4>2 DEF a
      <4> QED
        BY <1>1, <3>2, <3>3, <4>1, <4>3
    <3> QED
      BY <3>2, <3>3
  <2> QED
    BY <2>1, <2>2
<1>16. Len(r) = n /\ n >= 1
  BY <1>5, <1>6 DEF n
<1>17. /\ g \in [1 .. Len(r) -> 0 .. N]
       /\ \A i \in 1 .. Len(r) : r[i] = IF g[i] = 0 THEN e ELSE s[g[i]]
       /\ \A i, j \in 1 .. Len(r) : g[i] = g[j] => i = j
  BY <1>12, <1>13, <1>14, <1>16
<1>18. ComesFrom(r, g, s, e) /\ BeginsWith(g, s, T)
  BY <1>15, <1>17 DEF N, ComesFrom, BeginsWith
<1> QED
  BY <1>6, <1>16, <1>18 DEF r

-----------------------------------------------------------------------------
(* Lists without repetitions                                               *)

Members(s) == {s[i] : i \in 1 .. Len(s)}
Once(s) == \A i, j \in 1 .. Len(s) : s[i] = s[j] => i = j

LEMMA NoMembers == Members(<<>>) = {} /\ Once(<<>>)
<1>1. Len(<<>>) = 0 /\ 1 .. 0 = {}
  OBVIOUS
<1> QED
  BY <1>1 DEF Members, Once

LEMMA MembersTyped ==
  ASSUME NEW S, NEW s \in Seq(S)
  PROVE  /\ Members(s) \subseteq S /\ Members(s) = {s[i] : i \in DOMAIN s}
         /\ \A i \in 1 .. Len(s) : s[i] \in Members(s)
         /\ s = <<>> <=> Members(s) = {}
<1>1. Len(s) \in Nat /\ DOMAIN s = 1 .. Len(s)
  BY LenProperties
<1>2. \A i \in 1 .. Len(s) : s[i] \in S
  BY ElementOfSeq
<1>3. s # <<>> => 1 \in 1 .. Len(s)
  BY <1>1, EmptySeq
<1>4. s = <<>> => 1 .. Len(s) = {}
  BY EmptySeq
<1> QED
  BY <1>1, <1>2, <1>3, <1>4 DEF Members

LEMMA AppendedMembers ==
  ASSUME NEW S, NEW s \in Seq(S), NEW e \in S
  PROVE  /\ Append(s, e) \in Seq(S) /\ Len(Append(s, e)) = Len(s) + 1
         /\ \A i \in 1 .. Len(s) : Append(s, e)[i] = s[i]
         /\ Append(s, e)[Len(s) + 1] = e
         /\ Members(Append(s, e)) = Members(s) \cup {e}
         /\ Once(s) /\ e \notin Members(s) => Once(Append(s, e))
<1> DEFINE r == Append(s, e)
<1>1. /\ r \in Seq(S) /\ Len(r) = Len(s) + 1
      /\ \A i \in 1 .. Len(s) : r[i] = s[i]
      /\ r[Len(s) + 1] = e
  BY AppendProperties
<1>2. Len(s) \in Nat
  BY LenProperties
<1> HIDE DEF r
<1>3. Members(r) = Members(s) \cup {e}
  BY <1>1, <1>2 DEF Members
<1>4. ASSUME Once(s), e \notin Members(s), NEW i \in 1 .. Len(r), NEW j \in 1 .. Len(r), r[i] = r[j]
      PROVE  i = j
  <2>1. ASSUME NEW k \in 1 .. Len(r)
        PROVE  \/ k \in 1 .. Len(s) /\ r[k] = s[k] /\ s[k] # e
               \/ k = Len(s) + 1 /\ r[k] = e
    <3>1. \A l \in 1 .. Len(s) : s[l] # e
      BY <1>4 DEF Members
    <3>2. k \in 1 .. Len(s) \/ k = Len(s) + 1
      BY <1>1, <1>2
    <3> QED
      BY <1>1, <3>1, <3>2
  <2> QED
    BY <1>4, <2>1 DEF Once
<1> QED
  BY <1>1, <1>3, <1>4 DEF r, Once

LEMMA TailMembers ==
  ASSUME NEW S, NEW s \in Seq(S), s # <<>>
  PROVE  /\ Head(s) \in Members(s) /\ Tail(s) \in Seq(S)
         /\ Members(s) = Members(Tail(s)) \cup {Head(s)}
         /\ Once(s) => Once(Tail(s)) /\ Head(s) \notin Members(Tail(s))
<1> DEFINE r == Tail(s)
<1>1. /\ r \in Seq(S) /\ Len(r) = Len(s) - 1 /\ \A i \in 1 .. Len(r) : r[i] = s[i + 1]
      /\ Head(s) = s[1] /\ Len(s) \in Nat /\ Len(s) # 0
  BY HeadTailProperties, EmptySeq
<1> HIDE DEF r
<1>2. /\ 1 \in 1 .. Len(s)
      /\ \A i \in 1 .. Len(r) : i + 1 \in 1 .. Len(s) /\ i + 1 # 1
      /\ \A k \in 1 .. Len(s) : k = 1 \/ \E i \in 1 .. Len(r) : k = i + 1
  <2>1. \A k \in 1 .. Len(s) : k # 1 => k - 1 \in 1 .. Len(r) /\ k = (k - 1) + 1
    BY <1>1
  <2> QED
    BY <1>1, <2>1
<1>3. Members(s) = Members(r) \cup {Head(s)}
  <2>1. \A i \in 1 .. Len(r) : r[i] \in Members(s)
    BY <1>1, <1>2 DEF Members
  <2>2. \A k \in 1 .. Len(s) : s[k] \in Members(r) \cup {Head(s)}
    <3> SUFFICES ASSUME NEW k \in 1 .. Len(s), k # 1 PROVE s[k] \in Members(r)
      BY <1>1
    <3>1. PICK i \in 1 .. Len(r) : k = i + 1
      BY <1>2
    <3>2. s[k] = r[i]
      BY <1>1, <3>1
    <3> QED
      BY <3>2 DEF Members
  <2>3. Head(s) \in Members(s)
    BY <1>1, <1>2 DEF Members
  <2>4. \A x : x \in Members(s) <=> \E k \in 1 .. Len(s) : x = s[k]
    BY DEF Members
  <2>5. \A x : x \in Members(r) <=> \E k \in 1 .. Len(r) : x = r[k]
    BY DEF Members
  <2> QED
    BY <2>1, <2>2, <2>3, <2>4, <2>5
<1>4. ASSUME Once(s), NEW i \in 1 .. Len(r), NEW j \in 1 .. Len(r), r[i] = r[j] PROVE i = j
  <2>1. i + 1 = j + 1
    BY <1>1, <1>2, <1>4 DEF Once
  <2> QED
    BY <2>1
<1>5. ASSUME Once(s) PROVE Head(s) \notin Members(r)
  BY <1>1, <1>2, <1>5 DEF Once, Members
<1> QED
  BY <1>1, <1>2, <1>3, <1>4, <1>5 DEF r, Once, Members

LEMMA JoinedMembers ==
  ASSUME NEW S, NEW s \in Seq(S), NEW t \in Seq(S)
  PROVE  /\ s \o t \in Seq(S)
         /\ Members(s \o t) = Members(s) \cup Members(t)
         /\ Once(s) /\ Once(t) /\ Members(s) \cap Members(t) = {} => Once(s \o t)
<1> DEFINE r == s \o t
           m == Len(s)
           n == Len(t)
<1>1. /\ r \in Seq(S) /\ Len(r) = m + n
      /\ \A i \in 1 .. m + n : r[i] = IF i <= m THEN s[i] ELSE t[i - m]
  BY ConcatProperties
<1>2. m \in Nat /\ n \in Nat
  BY LenProperties
<1> HIDE DEF r, m, n
<1>3. ASSUME NEW i \in 1 .. m + n
      PROVE  \/ i \in 1 .. m /\ r[i] = s[i]
             \/ \E k \in 1 .. n : i = m + k /\ r[i] = t[k]
  <2>1. CASE i <= m
    BY <1>1, <1>2, <2>1
  <2>2. CASE ~(i <= m)
    <3>1. i - m \in 1 .. n /\ i = m + (i - m) /\ r[i] = t[i - m]
      BY <1>1, <1>2, <2>2
    <3> QED
      BY <3>1
  <2> QED
    BY <2>1, <2>2
<1>4. \A i \in 1 .. m : i \in 1 .. m + n /\ r[i] = s[i]
  BY <1>1, <1>2
<1>5. ASSUME NEW k \in 1 .. n PROVE m + k \in 1 .. m + n /\ r[m + k] = t[k]
  <2>1. m + k \in 1 .. m + n /\ ~(m + k <= m) /\ (m + k) - m = k
    BY <1>2
  <2> QED
    BY <1>1, <2>1
<1>6. Members(r) = Members(s) \cup Members(t)
  <2>1. \A i \in 1 .. m + n : r[i] \in Members(s) \cup Members(t)
    BY <1>3 DEF Members, m, n
  <2>2. \A i \in 1 .. m : s[i] \in Members(r)
    BY <1>1, <1>4 DEF Members
  <2>3. \A k \in 1 .. n : t[k] \in Members(r)
    BY <1>1, <1>5 DEF Members
  <2> QED
    BY <1>1, <2>1, <2>2, <2>3 DEF Members, m, n
<1>7. ASSUME Once(s), Once(t), Members(s) \cap Members(t) = {},
             NEW i \in 1 .. m + n, NEW j \in 1 .. m + n, r[i] = r[j]
      PROVE  i = j
  <2>1. \A k \in 1 .. m, l \in 1 .. n : s[k] # t[l]
    BY <1>7 DEF Members, m, n
  <2> QED
    BY <1>3, <1>7, <2>1 DEF Once, m, n
<1> QED
  BY <1>1, <1>6, <1>7 DEF r, Once

LEMMA KeptMembers ==
  ASSUME NEW S, NEW s \in Seq(S), NEW T
  PROVE  /\ Filtered(s, T) \in Seq(S)
         /\ Members(Filtered(s, T)) = Members(s) \cap T
         /\ Once(s) => Once(Filtered(s, T))
<1>1. ASSUME Once(s), NEW i \in 1 .. Len(Filtered(s, T)), NEW j \in 1 .. Len(Filtered(s, T)),
             Filtered(s, T)[i] = Filtered(s, T)[j]
      PROVE  i = j
  <2>1. \A k, l \in 1 .. Len(s) : s[k] = s[l] => k = l
    BY <1>1 DEF Once
  <2> QED
    BY <1>1, <2>1, FilteredInjective
<1>2. Members(Filtered(s, T)) = Members(s) \cap T
  BY FilteredMembers DEF Members
<1> QED
  BY <1>1, <1>2, FilteredPicks DEF Once

\* When the first element passes it stays the first one.
LEMMA FilteredHead ==
  ASSUME NEW S, NEW s \in Seq(S), NEW T, 1 \in 1 .. Len(s), s[1] \in T
  PROVE  Len(Filtered(s, T)) >= 1 /\ Filtered(s, T)[1] = s[1]
<1> DEFINE r == Filtered(s, T)
<1>1. r \in Seq(S)
  BY FilteredPicks
<1>2. PICK f \in [1 .. Len(r) -> 1 .. Len(s)] :
        /\ \A i \in 1 .. Len(r) : r[i] = s[f[i]]
        /\ \A i, j \in 1 .. Len(r) : i < j => f[i] < f[j]
        /\ \A k \in 1 .. Len(s) : s[k] \in T => \E i \in 1 .. Len(r) : f[i] = k
  BY FilteredPicks, SMTT(30)
<1> HIDE DEF r
<1>3. PICK i \in 1 .. Len(r) : f[i] = 1
  BY <1>2
<1>4. 1 \in 1 .. Len(r) /\ Len(r) >= 1
  BY <1>1, <1>3
<1>5. i = 1
  <2>1. f[1] \in 1 .. Len(s)
    BY <1>4
  <2>2. ~(f[1] < 1)
    BY <2>1
  <2>3. ~(1 < i)
    BY <1>2, <1>3, <1>4, <2>2
  <2> QED
    BY <1>3, <2>3
<1>6. Len(r) >= 1 /\ r[1] = s[1]
  BY <1>2, <1>3, <1>4, <1>5
<1> QED
  BY <1>6 DEF r

\* A list without repetitions is as long as it has members.
LEMMA MembersCounted ==
  ASSUME NEW S, NEW s \in Seq(S), Once(s)
  PROVE  IsFiniteSet(Members(s)) /\ Cardinality(Members(s)) = Len(s)
<1>1. /\ Len(s) \in Nat /\ s \in [1 .. Len(s) -> S] /\ DOMAIN s = 1 .. Len(s)
  BY LenProperties
<1>2. IsFiniteSet(1 .. Len(s)) /\ Cardinality(1 .. Len(s)) = Len(s)
  BY <1>1, FS_Interval
<1>3. s \in Bijection(1 .. Len(s), Members(s))
  BY <1>1 DEF Bijection, Injection, Surjection, IsInjective, Members, Once
<1> QED
  BY <1>2, <1>3, FS_Bijection DEF ExistsBijection

-----------------------------------------------------------------------------
(* Sums                                                                    *)

\* The run of the loop over f up to n.
Adding(f, g, n) == g[0] = 0 /\ \A i \in 1 .. n : g[i] = g[i - 1] + f[i]

\* The sum can be run up to each number.
LEMMA AddingRuns ==
  ASSUME NEW N \in Nat, NEW f \in [1 .. N -> Int], NEW n \in 0 .. N
  PROVE  \E g \in [0 .. n -> Int] : Adding(f, g, n)
<1> DEFINE P == {k \in Nat : k <= N => \E g \in [0 .. k -> Int] : Adding(f, g, k)}
<1>1. 0 \in P
  <2> DEFINE h == [i \in 0 .. 0 |-> 0]
  <2>1. h \in [0 .. 0 -> Int] /\ h[0] = 0 /\ 1 .. 0 = {}
    OBVIOUS
  <2>2. Adding(f, h, 0)
    BY <2>1 DEF Adding
  <2> QED
    BY <2>1, <2>2
<1>2. \A k \in P : k + 1 \in P
  <2>1. SUFFICES ASSUME NEW k \in P, k + 1 <= N
                 PROVE  \E g \in [0 .. k + 1 -> Int] : Adding(f, g, k + 1)
    OBVIOUS
  <2>2. PICK g \in [0 .. k -> Int] : Adding(f, g, k)
    BY <2>1
  <2> DEFINE h == [i \in 0 .. k + 1 |-> IF i = k + 1 THEN g[k] + f[k + 1] ELSE g[i]]
  <2>3. h \in [0 .. k + 1 -> Int]
    BY <2>1
  <2>4. h[0] = 0
    BY <2>1, <2>2 DEF Adding
  <2>5. ASSUME NEW i \in 1 .. k + 1 PROVE h[i] = h[i - 1] + f[i]
    <3>1. CASE i = k + 1
      BY <2>1, <3>1
    <3>2. CASE i # k + 1
      <4>1. i \in 1 .. k /\ h[i] = g[i] /\ h[i - 1] = g[i - 1]
        BY <2>1, <3>2
      <4> QED
        BY <2>2, <4>1 DEF Adding
    <3> QED
      BY <3>1, <3>2
  <2>6. Adding(f, h, k + 1)
    BY <2>4, <2>5 DEF Adding
  <2> QED
    BY <2>3, <2>6
<1>3. P = Nat
  BY <1>1, <1>2, Induction
<1>4. n \in P
  <2> HIDE DEF P
  <2>1. n \in Nat
    OBVIOUS
  <2> QED
    BY <1>3, <2>1
<1> QED
  BY <1>4

\* Total() is what the loop has added up at the end.
LEMMA TotalLoop ==
  ASSUME NEW N \in Nat, NEW f \in [1 .. N -> Int]
  PROVE  \E g \in [0 .. N -> Int] : Adding(f, g, N) /\ Total(f, N) = g[N]
<1> DEFINE Step(g) == [n \in 0 .. N |-> IF n = 0 THEN 0 ELSE g[n - 1] + f[n]]
           total == CHOOSE g : g = Step(g)
<1>1. PICK g \in [0 .. N -> Int] : Adding(f, g, N)
  <2>1. N \in 0 .. N
    OBVIOUS
  <2> QED
    BY <2>1, AddingRuns
<1>2. g = Step(g)
  <2>1. ASSUME NEW n \in 0 .. N PROVE g[n] = Step(g)[n]
    <3>1. n = 0 \/ n \in 1 .. N
      OBVIOUS
    <3> QED
      BY <1>1, <3>1 DEF Adding
  <2> QED
    BY <2>1
<1>3. total = Step(total)
  BY <1>2
<1> HIDE DEF total
<1>4. total[0] = 0
  BY <1>3
<1>5. ASSUME NEW i \in 1 .. N PROVE total[i] = total[i - 1] + f[i]
  <2>1. i \in 0 .. N /\ i # 0
    OBVIOUS
  <2>2. total[i] = Step(total)[i]
    BY <1>3
  <2> QED
    BY <2>1, <2>2
<1>6. Adding(f, total, N)
  BY <1>4, <1>5 DEF Adding
<1>7. total \in [0 .. N -> Int]
  <2> DEFINE P == {k \in Nat : k <= N => total[k] \in Int}
  <2>1. 0 \in P
    BY <1>4
  <2>2. \A k \in P : k + 1 \in P
    <3>1. SUFFICES ASSUME NEW k \in P, k + 1 <= N PROVE total[k + 1] \in Int
      OBVIOUS
    <3>2. total[k] \in Int /\ k + 1 \in 1 .. N /\ f[k + 1] \in Int
      BY <3>1
    <3>3. total[k + 1] = total[k] + f[k + 1]
      BY <1>5, <3>2
    <3> QED
      BY <3>2, <3>3
  <2>3. P = Nat
    BY <2>1, <2>2, Induction
  <2>4. \A k \in 0 .. N : total[k] \in Int
    BY <2>3
  <2> QED
    BY <1>3, <2>4
<1> QED
  BY <1>6, <1>7 DEF Total, total

\* A sum of zeros is zero.
LEMMA TotalZero ==
  ASSUME NEW N \in Nat, NEW f \in [1 .. N -> Int], \A n \in 1 .. N : f[n] = 0
  PROVE  Total(f, N) = 0
<1>1. PICK g \in [0 .. N -> Int] : Adding(f, g, N) /\ Total(f, N) = g[N]
  BY TotalLoop
<1> DEFINE P == {k \in Nat : k <= N => g[k] = 0}
<1>2. 0 \in P
  BY <1>1 DEF Adding
<1>3. \A k \in P : k + 1 \in P
  <2>1. SUFFICES ASSUME NEW k \in P, k + 1 <= N PROVE g[k + 1] = 0
    OBVIOUS
  <2>2. k + 1 \in 1 .. N /\ g[k] = 0
    BY <2>1
  <2> QED
    BY <1>1, <2>2 DEF Adding
<1>4. P = Nat
  BY <1>2, <1>3, Induction
<1> QED
  BY <1>1, <1>4

\* What is added to both sides of a sum stays in its difference.
LEMMA MovedSum ==
  ASSUME NEW p \in Int, NEW q \in Int, NEW u \in Int, NEW v \in Int
  PROVE  /\ (p + 0) + v = (p + u) + (v - u)
         /\ (p + q) + u = (p + u) + q
OBVIOUS

\* A sum changes by as much as the one term of it that does.
LEMMA TotalChange ==
  ASSUME NEW N \in Nat, NEW f \in [1 .. N -> Int], NEW h \in [1 .. N -> Int],
         NEW i \in 1 .. N, \A n \in 1 .. N : n # i => h[n] = f[n]
  PROVE  Total(h, N) = Total(f, N) + h[i] - f[i]
<1>1. PICK a \in [0 .. N -> Int] : Adding(f, a, N) /\ Total(f, N) = a[N]
  BY TotalLoop
<1>2. PICK b \in [0 .. N -> Int] : Adding(h, b, N) /\ Total(h, N) = b[N]
  BY TotalLoop
<1> DEFINE Gap(k) == IF k < i THEN 0 ELSE h[i] - f[i]
           P == {k \in Nat : k <= N => b[k] = a[k] + Gap(k)}
<1>3. 0 \in P
  BY <1>1, <1>2 DEF Adding
<1>4. \A k \in P : k + 1 \in P
  <2>1. SUFFICES ASSUME NEW k \in P, k + 1 <= N
                 PROVE  b[k + 1] = a[k + 1] + Gap(k + 1)
    <3> HIDE DEF Gap
    <3> QED
      OBVIOUS
  <2>2. /\ k \in Nat /\ k + 1 \in 1 .. N /\ a[k] \in Int /\ b[k] \in Int
        /\ b[k] = a[k] + Gap(k)
    BY <2>1
  <2> HIDE DEF P, Gap
  <2>3. a[k + 1] = a[k] + f[k + 1] /\ b[k + 1] = b[k] + h[k + 1]
    <3>1. a[k + 1] = a[(k + 1) - 1] + f[k + 1] /\ b[k + 1] = b[(k + 1) - 1] + h[k + 1]
      BY <1>1, <1>2, <2>2 DEF Adding
    <3>2. (k + 1) - 1 = k
      BY <2>2
    <3> QED
      BY <3>1, <3>2
  <2>4. f[i] \in Int /\ h[i] \in Int /\ f[k + 1] \in Int /\ h[k + 1] \in Int
    BY <2>2
  <2>5. k \in Nat /\ i \in Nat /\ (k + 1 # i => h[k + 1] = f[k + 1])
    BY <2>2
  <2>6. Gap(k) \in Int /\ Gap(k + 1) \in Int
    <3>1. h[i] - f[i] \in Int
      BY <2>4
    <3> QED
      BY <3>1 DEF Gap
  <2>7. a[k] \in Int /\ f[k + 1] \in Int /\ h[k + 1] \in Int
    BY <2>2, <2>4
  <2>8. CASE k + 1 = i
    <3>1. k < i /\ ~(k + 1 < i)
      BY <2>5, <2>8
    <3>2. Gap(k) = 0 /\ Gap(k + 1) = h[k + 1] - f[k + 1]
      BY <2>8, <3>1 DEF Gap
    <3>3. (a[k] + 0) + h[k + 1] = (a[k] + f[k + 1]) + (h[k + 1] - f[k + 1])
      BY <2>7, MovedSum
    <3> QED
      BY <2>2, <2>3, <3>2, <3>3, Zenon
  <2>9. CASE k + 1 # i
    <3>1. k < i <=> k + 1 < i
      BY <2>5, <2>9
    <3>2. Gap(k) = Gap(k + 1)
      BY <3>1 DEF Gap
    <3>3. (a[k] + Gap(k)) + f[k + 1] = (a[k] + f[k + 1]) + Gap(k)
      BY <2>6, <2>7, MovedSum
    <3> QED
      BY <2>2, <2>3, <2>5, <2>9, <3>2, <3>3, Zenon
  <2> QED
    BY <2>8, <2>9
<1>5. P = Nat
  BY <1>3, <1>4, Induction
<1>6. b[N] = a[N] + h[i] - f[i]
  <2>1. N \in P
    <3> HIDE DEF P
    <3> QED
      BY <1>5
  <2>2. a[N] \in Int /\ f[i] \in Int /\ h[i] \in Int
    OBVIOUS
  <2>3. Gap(N) = h[i] - f[i]
    OBVIOUS
  <2> HIDE DEF Gap
  <2> QED
    BY <2>1, <2>2, <2>3
<1> QED
  BY <1>1, <1>2, <1>6
=============================================================================
