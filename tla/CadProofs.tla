------------------------------ MODULE CadProofs ------------------------------
(***************************************************************************)
(* Theorems about CadTree, for any features, references, parameters and    *)
(* expressions: what the two walks end with, and how deep they go.         *)
(***************************************************************************)
EXTENDS CadTree, ListProofs, SequenceTheorems, FiniteSetTheorems, TLAPS

-----------------------------------------------------------------------------
(* CadTree: what is reached along names                                    *)

\* What n names is reached from n, and so is what a member of that names.
LEMMA ReachedIsClosed ==
  ASSUME NEW all, NEW f, \A k \in DOMAIN f : f[k] \subseteq all, NEW n \in DOMAIN f
  PROVE  /\ Reached(all, f, n) \subseteq all /\ f[n] \subseteq Reached(all, f, n)
         /\ \A k \in Reached(all, f, n) \cap DOMAIN f : f[k] \subseteq Reached(all, f, n)
BY DEF Reached

\* A set that holds what n names and what its members name holds all that n reaches.
LEMMA ReachedStaysIn ==
  ASSUME NEW all, NEW f, NEW n, NEW S \in SUBSET all,
         f[n] \subseteq S, \A k \in S \cap DOMAIN f : f[k] \subseteq S
  PROVE  Reached(all, f, n) \subseteq S
BY DEF Reached

LEMMA ReachedOnwards ==
  ASSUME NEW all, NEW f, \A k \in DOMAIN f : f[k] \subseteq all, NEW n \in DOMAIN f,
         NEW m \in Reached(all, f, n) \cap DOMAIN f
  PROVE  Reached(all, f, m) \subseteq Reached(all, f, n)
<1> DEFINE S == Reached(all, f, n)
<1>1. S \subseteq all /\ f[m] \subseteq S /\ \A k \in S \cap DOMAIN f : f[k] \subseteq S
  BY ReachedIsClosed
<1> HIDE DEF S
<1>2. Reached(all, f, m) \subseteq S
  BY <1>1, ReachedStaysIn
<1> QED
  BY <1>2 DEF S

-----------------------------------------------------------------------------
(* CadTree: calls that are made within one another                         *)

\* A call, with the names it has yet to follow.
Frame(all) == [name : all, left : Seq(all)]

NamesOf(s) == {s[i].name : i \in 1 .. Len(s)}

\* The calls are of different names, and each was reached from those around it.
Nested(s, all, f) ==
  /\ \A i \in 1 .. Len(s) : s[i].name \in DOMAIN f
  /\ \A i, j \in 1 .. Len(s) : s[i].name = s[j].name => i = j
  /\ \A i, j \in 1 .. Len(s) : i < j => s[j].name \in Reached(all, f, s[i].name)

LEMMA NoCalls ==
  ASSUME NEW all, NEW f
  PROVE  <<>> \in Seq(Frame(all)) /\ Nested(<<>>, all, f) /\ NamesOf(<<>>) = {} /\ Len(<<>>) = 0
<1>1. <<>> \in Seq(Frame(all)) /\ Len(<<>>) = 0 /\ 1 .. 0 = {}
  BY EmptySeq
<1> QED
  BY <1>1 DEF Nested, NamesOf

\* The innermost call has one name less to follow.
Followed(s) == [s EXCEPT ![Len(s)].left = Tail(@)]

StillIn(t, s, all, f) ==
  /\ Len(s) \in Nat /\ Len(s) \in 1 .. Len(s) /\ s[Len(s)] \in Frame(all)
  /\ t \in Seq(Frame(all)) /\ Len(t) = Len(s) /\ NamesOf(t) = NamesOf(s)
  /\ \A i \in 1 .. Len(s) : t[i].name = s[i].name /\ (i # Len(s) => t[i].left = s[i].left)
  /\ t[Len(s)].left = Tail(s[Len(s)].left)
  /\ Nested(t, all, f)

LEMMA OneFollowed ==
  ASSUME NEW all, NEW f, NEW s \in Seq(Frame(all)), s # <<>>, s[Len(s)].left # <<>>,
         Nested(s, all, f)
  PROVE  StillIn(Followed(s), s, all, f)
<1> DEFINE t == Followed(s)
           n == Len(s)
           F == Frame(all)
           v == [s[n] EXCEPT !.left = Tail(s[n].left)]
<1>1. n \in Nat /\ n \in 1 .. n /\ s[n] \in F /\ s \in [1 .. n -> F] /\ DOMAIN s = 1 .. n
  <2>1. Len(s) \in Nat \ {0}
    BY EmptySeq
  <2> QED
    BY <2>1, LenProperties
<1>2. s[n].name \in all /\ s[n].left \in Seq(all)
  BY <1>1 DEF Frame
<1>3. Tail(s[n].left) \in Seq(all)
  BY <1>2, HeadTailProperties
<1>4. v \in F /\ v.name = s[n].name /\ v.left = Tail(s[n].left)
  BY <1>1, <1>2, <1>3 DEF Frame
<1>5. t = [s EXCEPT ![n] = v]
  BY DEF Followed
<1> HIDE DEF n, F, v, t
<1>6. /\ t \in Seq(F) /\ Len(t) = Len(s)
      /\ \A j \in 1 .. Len(s) : t[j] = IF j = n THEN v ELSE s[j]
  <2>1. s \in Seq(F) /\ n \in 1 .. Len(s) /\ v \in F
    BY <1>1, <1>4 DEF n, F
  <2>2. /\ [s EXCEPT ![n] = v] \in Seq(F) /\ Len([s EXCEPT ![n] = v]) = Len(s)
        /\ \A j \in 1 .. Len(s) : [s EXCEPT ![n] = v][j] = IF j = n THEN v ELSE s[j]
    BY <2>1, ExceptSeq
  <2> QED
    BY <1>5, <2>2, Zenon
<1>7. \A i \in 1 .. Len(s) : t[i].name = s[i].name /\ (i # Len(s) => t[i].left = s[i].left)
  BY <1>4, <1>6 DEF n
<1>8. t[Len(s)].left = Tail(s[Len(s)].left)
  BY <1>1, <1>4, <1>6 DEF n
<1>9. NamesOf(t) = NamesOf(s) /\ Nested(t, all, f)
  BY <1>6, <1>7 DEF NamesOf, Nested
<1> QED
  BY <1>1, <1>6, <1>7, <1>8, <1>9 DEF StillIn, t, n, F

\* A call of another name is made within the innermost one, which names it.
CallsOn(s, all, f, v) ==
  /\ \A k \in DOMAIN f : f[k] \subseteq all
  /\ s \in Seq(Frame(all)) /\ Nested(s, all, f) /\ v \in Frame(all)
  /\ v.name \in DOMAIN f \ NamesOf(s) /\ (s # <<>> => v.name \in f[s[Len(s)].name])

Within(t, s, all, f, v) ==
  /\ t \in Seq(Frame(all)) /\ Len(t) = Len(s) + 1 /\ Nested(t, all, f) /\ t # <<>>
  /\ \A i \in 1 .. Len(s) : t[i] = s[i]
  /\ t[Len(s) + 1] = v /\ NamesOf(t) = NamesOf(s) \cup {v.name}

LEMMA OneCalled ==
  ASSUME NEW all, NEW f, NEW s, NEW v, CallsOn(s, all, f, v)
  PROVE  Within(Append(s, v), s, all, f, v)
<1>0. /\ \A k \in DOMAIN f : f[k] \subseteq all
      /\ s \in Seq(Frame(all)) /\ Nested(s, all, f) /\ v \in Frame(all)
      /\ v.name \in DOMAIN f \ NamesOf(s) /\ (s # <<>> => v.name \in f[s[Len(s)].name])
  BY DEF CallsOn
<1> DEFINE n == Len(s)
           F == Frame(all)
           t == Append(s, v)
<1>1. n \in Nat /\ DOMAIN s = 1 .. n /\ (s # <<>> => n \in 1 .. n)
  BY <1>0, EmptySeq, LenProperties
<1>2. /\ t \in Seq(F) /\ Len(t) = n + 1 /\ t # <<>>
      /\ \A i \in 1 .. n : t[i] = s[i]
      /\ t[n + 1] = v
  BY <1>0, AppendProperties
<1> HIDE DEF t
<1>3. s = <<>> => n = 0
  BY EmptySeq
<1>4. \A i \in 1 .. n : v.name \in Reached(all, f, s[i].name)
  <2> SUFFICES ASSUME NEW i \in 1 .. n PROVE v.name \in Reached(all, f, s[i].name)
    OBVIOUS
  <2>1. n \in 1 .. n /\ v.name \in f[s[n].name] /\ s[n].name \in DOMAIN f /\ s[i].name \in DOMAIN f
    BY <1>0, <1>1, <1>3 DEF Nested
  <2>2. CASE i = n
    BY <1>0, <2>1, <2>2, ReachedIsClosed
  <2>3. CASE i # n
    <3>1. i < n
      <4> HIDE DEF n
      <4> QED
        BY <1>1, <2>3
    <3>2. s[n].name \in Reached(all, f, s[i].name)
      BY <1>0, <2>1, <3>1 DEF Nested
    <3> QED
      BY <1>0, <2>1, <3>2, ReachedIsClosed
  <2> QED
    BY <2>2, <2>3
<1>5. 1 .. n + 1 = (1 .. n) \cup {n + 1} /\ n + 1 \notin 1 .. n
  BY <1>1
<1>6. NamesOf(t) = NamesOf(s) \cup {v.name}
  BY <1>2, <1>5 DEF NamesOf
<1>7. Nested(t, all, f)
  <2>1. \A i \in 1 .. n + 1 : t[i].name \in DOMAIN f
    BY <1>0, <1>2, <1>5 DEF Nested
  <2>2. \A i \in 1 .. n : s[i].name # v.name
    BY <1>0 DEF NamesOf
  <2>3. \A i, j \in 1 .. n + 1 : t[i].name = t[j].name => i = j
    BY <1>0, <1>2, <1>5, <2>2 DEF Nested
  <2>4. ASSUME NEW i \in 1 .. n + 1, NEW j \in 1 .. n + 1, i < j
        PROVE  t[j].name \in Reached(all, f, t[i].name)
    <3>1. i \in 1 .. n /\ (j = n + 1 \/ j \in 1 .. n)
      BY <1>1, <2>4
    <3> QED
      BY <1>0, <1>2, <1>4, <2>4, <3>1 DEF Nested
  <2> QED
    BY <1>2, <2>1, <2>3, <2>4 DEF Nested
<1> QED
  BY <1>2, <1>6, <1>7 DEF Within, t

\* The innermost call returns.
Returned(t, s, all, f) ==
  /\ Len(s) \in Nat /\ Len(s) \in 1 .. Len(s) /\ s[Len(s)] \in Frame(all)
  /\ t \in Seq(Frame(all)) /\ Len(t) = Len(s) - 1
  /\ \A i \in 1 .. (Len(s) - 1) : t[i] = s[i] /\ i \in 1 .. Len(s)
  /\ NamesOf(s) = NamesOf(t) \cup {s[Len(s)].name} /\ s[Len(s)].name \notin NamesOf(t)
  /\ t = <<>> <=> Len(s) = 1
  /\ Nested(t, all, f)

LEMMA OneReturned ==
  ASSUME NEW all, NEW f, NEW s \in Seq(Frame(all)), s # <<>>, Nested(s, all, f)
  PROVE  Returned(SubSeq(s, 1, Len(s) - 1), s, all, f)
<1> DEFINE n == Len(s)
           F == Frame(all)
           t == SubSeq(s, 1, n - 1)
<1>1. n \in Nat /\ n >= 1 /\ n \in 1 .. n /\ s[n] \in F /\ s \in [1 .. n -> F] /\ DOMAIN s = 1 .. n
  <2>1. Len(s) \in Nat \ {0}
    BY EmptySeq
  <2> QED
    BY <2>1, LenProperties
<1>2. \A i \in 1 .. (n - 1) : i \in 1 .. n /\ s[i] \in F
  BY <1>1
<1> HIDE DEF F
<1>3. t \in Seq(F) /\ Len(t) = n - 1 /\ \A i \in 1 .. (n - 1) : t[i] = s[i]
  <2>1. /\ t \in Seq(F) /\ Len(t) = IF 1 <= n - 1 THEN (n - 1) - 1 + 1 ELSE 0
        /\ \A i \in 1 .. (n - 1) - 1 + 1 : t[i] = s[1 + i - 1]
    BY <1>1, <1>2, SubSeqProperties
  <2>2. n \in Nat /\ n >= 1
    BY <1>1
  <2> HIDE DEF t, n
  <2>3. (n - 1) - 1 + 1 = n - 1 /\ \A i \in 1 .. (n - 1) : 1 + i - 1 = i
    BY <2>2
  <2>4. Len(t) = n - 1
    BY <2>1, <2>2
  <2> QED
    BY <2>1, <2>3, <2>4
<1> HIDE DEF t
<1>4. 1 .. n = (1 .. (n - 1)) \cup {n} /\ n \notin 1 .. (n - 1)
  BY <1>1
<1>5. NamesOf(s) = NamesOf(t) \cup {s[n].name}
  <2>1. NamesOf(t) = {s[i].name : i \in 1 .. (n - 1)}
    BY <1>3 DEF NamesOf
  <2> HIDE DEF n
  <2>2. {s[i].name : i \in 1 .. n} = {s[i].name : i \in 1 .. (n - 1)} \cup {s[n].name}
    BY <1>4
  <2> QED
    BY <2>1, <2>2 DEF NamesOf, n
<1>6. t = <<>> <=> n = 1
  <2> HIDE DEF n
  <2>1. t = <<>> <=> Len(t) = 0
    BY <1>3, EmptySeq
  <2> QED
    BY <1>1, <1>3, <2>1
<1>7. Nested(t, all, f) /\ s[n].name \notin NamesOf(t)
  <2>1. \A i \in 1 .. (n - 1) : s[i].name # s[n].name
    BY <1>4 DEF Nested
  <2>2. Nested(t, all, f)
    BY <1>2, <1>3 DEF Nested
  <2> QED
    BY <1>3, <2>1, <2>2 DEF NamesOf
<1> QED
  BY <1>1, <1>2, <1>3, <1>5, <1>6, <1>7 DEF Returned, F, t

\* Calls of different names are no more than there are names.
LEMMA NestedFit ==
  ASSUME NEW all, NEW f, NEW s \in Seq(Frame(all)), Nested(s, all, f), IsFiniteSet(DOMAIN f)
  PROVE  Len(s) <= Cardinality(DOMAIN f)
<1> DEFINE p == [i \in 1 .. Len(s) |-> s[i].name]
<1>1. Len(s) \in Nat
  BY LenProperties
<1>2. p \in Seq(DOMAIN f) /\ Len(p) = Len(s)
  BY <1>1, IsASeq DEF Nested
<1>3. Once(p)
  BY <1>1, <1>2 DEF Once, Nested
<1> HIDE DEF p
<1>4. Cardinality(Members(p)) = Len(p) /\ Members(p) \subseteq DOMAIN f
  BY <1>2, <1>3, MembersCounted, MembersTyped
<1>5. Cardinality(Members(p)) <= Cardinality(DOMAIN f)
  BY <1>4, FS_Subset
<1> QED
  BY <1>2, <1>4, <1>5

-----------------------------------------------------------------------------
(* CadTree: execution_order()                                              *)

TreeTyped ==
  /\ authored \in Seq(FeatureNames) /\ Once(authored)
  /\ Members(authored) = DOMAIN references /\ DOMAIN references \subseteq FeatureNames
  /\ \A f \in DOMAIN references : references[f] \in Seq(FeatureNames)

WalkTyped ==
  /\ walk \in {"none", "walking", "done"}
  /\ toVisit \in Seq(FeatureNames) /\ Members(toVisit) \subseteq DOMAIN references
  /\ visits \in Seq(Frame(FeatureNames)) /\ result \in Seq(FeatureNames)
  /\ walk = "none" => toVisit = <<>> /\ visits = <<>> /\ visited = {} /\ result = <<>>
  /\ walk = "done" => toVisit = <<>> /\ visits = <<>>

InTree(f) == Named[f] \cap DOMAIN references

\* A call of visit() follows what its feature names, all of which it has yet to look at
\* or has been visited.
Follows(s, seen) ==
  \A i \in 1 .. Len(s) :
    /\ Members(s[i].left) \subseteq Named[s[i].name]
    /\ InTree(s[i].name) \subseteq seen \cup Members(s[i].left)

\* What was visited is in the result or in a call that is under way.
VisitedIsThere ==
  /\ visited \subseteq DOMAIN references
  /\ visited = Members(result) \cup NamesOf(visits) /\ Members(result) \cap NamesOf(visits) = {}
  /\ walk # "none" => DOMAIN references \subseteq visited \cup Members(toVisit)

\* The result so far: a feature comes after each one it names, unless that one leads back.
Ordered(r) ==
  /\ Once(r)
  /\ \A i \in 1 .. Len(r) : \A g \in InTree(r[i]) :
       g \in {r[j] : j \in 1 .. (i - 1)} \/ r[i] \in Reached(FeatureNames, Named, g)

WalkInv ==
  /\ TreeTyped /\ WalkTyped /\ Nested(visits, FeatureNames, Named) /\ Follows(visits, visited)
  /\ VisitedIsThere /\ Ordered(result)

LEMMA NamedTyped ==
  ASSUME TreeTyped
  PROVE  /\ DOMAIN Named = DOMAIN references
         /\ \A f \in DOMAIN references : Named[f] = Members(references[f]) /\ Named[f] \subseteq FeatureNames
<1>1. \A f \in DOMAIN references : Members(references[f]) = {references[f][i] : i \in DOMAIN references[f]}
                                   /\ Members(references[f]) \subseteq FeatureNames
  BY MembersTyped DEF TreeTyped
<1> QED
  BY <1>1 DEF Named

\* Before a walk.
NotWalked ==
  TreeTyped /\ walk = "none" /\ toVisit = <<>> /\ visits = <<>> /\ visited = {} /\ result = <<>>

LEMMA BeforeWalk == NotWalked => WalkInv
<1> SUFFICES ASSUME NotWalked PROVE WalkInv
  OBVIOUS
<1> USE DEF NotWalked
<1>1. /\ <<>> \in Seq(FeatureNames) /\ Len(<<>>) = 0 /\ 1 .. 0 = {}
      /\ Members(<<>>) = {} /\ Once(<<>>)
  BY EmptySeq, NoMembers
<1>2. WalkTyped
  BY <1>1, NoCalls DEF WalkTyped
<1>3. Nested(visits, FeatureNames, Named)
  BY NoCalls
<1>4. NamesOf(visits) = {} /\ Follows(visits, visited)
  BY <1>1, NoCalls DEF Follows
<1>5. VisitedIsThere
  BY <1>1, <1>4 DEF VisitedIsThere
<1>6. Ordered(result)
  BY <1>1 DEF Ordered
<1> QED
  BY <1>2, <1>3, <1>4, <1>5, <1>6 DEF WalkInv

LEMMA WalkStarts == CadInit => WalkInv
<1> SUFFICES ASSUME CadInit PROVE WalkInv
  OBVIOUS
<1>1. authored = <<>> /\ references = <<>>
  BY DEF CadInit
<1>2. <<>> \in Seq(FeatureNames) /\ Members(<<>>) = {} /\ Once(<<>>) /\ DOMAIN <<>> = {}
  BY EmptySeq, NoMembers
<1>3. TreeTyped
  BY <1>1, <1>2 DEF TreeTyped
<1> QED
  BY <1>3, BeforeWalk DEF CadInit, NotWalked

LEMMA EditKeepsTree == ASSUME WalkInv, AddFeature \/ RemoveFeature PROVE WalkInv'
<1>0. /\ walk' = "none" /\ toVisit' = <<>> /\ visits' = <<>> /\ visited' = {} /\ result' = <<>>
  BY DEF AddFeature, RemoveFeature, TreeEdited
<1>1. /\ authored \in Seq(FeatureNames) /\ Once(authored)
      /\ Members(authored) = DOMAIN references /\ DOMAIN references \subseteq FeatureNames
      /\ \A f \in DOMAIN references : references[f] \in Seq(FeatureNames)
  BY DEF WalkInv, TreeTyped
<1>9. NotWalked' => WalkInv'
  BY BeforeWalk, PTL
<1>2. CASE AddFeature
  <2>1. PICK f \in FeatureNames \ DOMAIN references, refs \in ReferenceLists :
          references' = Put(references, f, refs) /\ authored' = Append(authored, f)
    BY <1>2 DEF AddFeature
  <2>2. refs \in Seq(FeatureNames)
    BY CadAssumption
  <2>3. /\ authored' \in Seq(FeatureNames) /\ Members(authored') = Members(authored) \cup {f}
        /\ Once(authored')
    BY <1>1, <2>1, AppendedMembers
  <2>4. DOMAIN references' = DOMAIN references \cup {f}
    BY <2>1 DEF Put
  <2>5. \A g \in DOMAIN references' : references'[g] \in Seq(FeatureNames)
    BY <1>1, <2>1, <2>2 DEF Put
  <2>6. TreeTyped'
    BY <1>1, <2>1, <2>3, <2>4, <2>5 DEF TreeTyped
  <2> QED
    BY <1>0, <1>9, <2>6 DEF NotWalked
<1>3. CASE RemoveFeature
  <2>1. PICK f \in DOMAIN references :
          references' = Without(references, f) /\ authored' = Filtered(authored, FeatureNames \ {f})
    BY <1>3 DEF RemoveFeature
  <2>2. /\ authored' \in Seq(FeatureNames) /\ Once(authored')
        /\ Members(authored') = Members(authored) \cap (FeatureNames \ {f})
    BY <1>1, <2>1, KeptMembers
  <2>3. DOMAIN references' = DOMAIN references \ {f}
    BY <2>1 DEF Without
  <2>4. \A g \in DOMAIN references' : references'[g] \in Seq(FeatureNames)
    BY <1>1, <2>1 DEF Without
  <2>5. TreeTyped'
    BY <1>1, <2>2, <2>3, <2>4 DEF TreeTyped
  <2> QED
    BY <1>0, <1>9, <2>5 DEF NotWalked
<1> QED
  BY <1>2, <1>3

\* visit() is called for a feature of the tree, which the innermost call names.
LEMMA VisitKeeps ==
  ASSUME TreeTyped, NEW f \in DOMAIN references, NEW outer \in Seq(Frame(FeatureNames)),
         Nested(outer, FeatureNames, Named), NamesOf(outer) \subseteq visited,
         Follows(outer, visited \cup {f}), outer # <<>> => f \in Named[outer[Len(outer)].name],
         Visit(f, outer), UNCHANGED references
  PROVE  /\ visits' \in Seq(Frame(FeatureNames)) /\ Nested(visits', FeatureNames, Named)
         /\ visited' = visited \cup {f} /\ Follows(visits', visited')
         /\ IF f \in visited THEN NamesOf(visits') = NamesOf(outer)
                             ELSE NamesOf(visits') = NamesOf(outer) \cup {f}
<1>0. DOMAIN Named = DOMAIN references /\ \A k \in DOMAIN Named : Named[k] \subseteq FeatureNames
  BY NamedTyped
<1>1. CASE f \in visited
  <2>1. visits' = outer /\ visited' = visited /\ visited = visited \cup {f}
    BY <1>1 DEF Visit
  <2> QED
    BY <1>1, <2>1
<1>2. CASE f \notin visited
  <2> DEFINE v == [name |-> f, left |-> references[f]]
  <2>1. visits' = Append(outer, v) /\ visited' = visited \cup {f}
    BY <1>2 DEF Visit
  <2>2. /\ v \in Frame(FeatureNames) /\ v.name = f /\ v.left = references[f]
        /\ Members(references[f]) = Named[f]
    BY NamedTyped DEF TreeTyped, Frame
  <2> HIDE DEF v
  <2>3. v.name \in DOMAIN Named \ NamesOf(outer)
    BY <1>0, <1>2, <2>2
  <2>4. outer # <<>> => v.name \in Named[outer[Len(outer)].name]
    BY <2>2
  <2>5. /\ visits' \in Seq(Frame(FeatureNames)) /\ Len(visits') = Len(outer) + 1
        /\ Nested(visits', FeatureNames, Named) /\ \A i \in 1 .. Len(outer) : visits'[i] = outer[i]
        /\ visits'[Len(outer) + 1] = v /\ NamesOf(visits') = NamesOf(outer) \cup {v.name}
    <3>1. CallsOn(outer, FeatureNames, Named, v)
      BY <1>0, <2>2, <2>3, <2>4 DEF CallsOn
    <3>2. Within(visits', outer, FeatureNames, Named, v)
      BY <2>1, <3>1, OneCalled
    <3> QED
      BY <3>2 DEF Within
  <2>6. 1 .. Len(outer) + 1 = (1 .. Len(outer)) \cup {Len(outer) + 1}
    <3>1. Len(outer) \in Nat
      BY LenProperties
    <3> QED
      BY <3>1
  <2>7. Follows(visits', visited')
    <3> SUFFICES ASSUME NEW i \in 1 .. Len(visits')
                 PROVE  /\ Members(visits'[i].left) \subseteq Named[visits'[i].name]
                        /\ InTree(visits'[i].name) \subseteq visited' \cup Members(visits'[i].left)
      BY DEF Follows
    <3>1. CASE i \in 1 .. Len(outer)
      BY <2>1, <2>5, <3>1 DEF Follows
    <3>2. CASE i = Len(outer) + 1
      BY <2>2, <2>5, <3>2 DEF InTree
    <3> QED
      BY <2>5, <2>6, <3>1, <3>2
  <2> QED
    BY <1>2, <2>1, <2>2, <2>5, <2>7
<1> QED
  BY <1>1, <1>2

\* The tree stays as it is in a walk, and so does all that is said of it.
LEMMA TreeStays ==
  ASSUME WalkInv, UNCHANGED treeVars
  PROVE  /\ TreeTyped' /\ Named' = Named /\ references' = references
         /\ \A n : InTree(n)' = InTree(n)
         /\ \A r : Ordered(r)' <=> Ordered(r)
<1>1. authored' = authored /\ references' = references
  BY DEF treeVars
<1>2. Named' = Named /\ TreeTyped'
  BY <1>1 DEF WalkInv, TreeTyped, Named
<1>3. \A n : InTree(n)' = InTree(n)
  BY <1>1, <1>2 DEF InTree
<1>4. ASSUME NEW r PROVE Ordered(r)' <=> Ordered(r)
  BY <1>2, <1>3 DEF Ordered
<1> QED
  BY <1>1, <1>2, <1>3, <1>4

\* A step outside the walk.
LEMMA WalkStays == ASSUME WalkInv, UNCHANGED <<treeVars, walkVars>> PROVE WalkInv'
<1>1. /\ TreeTyped' /\ Named' = Named /\ references' = references
      /\ \A n : InTree(n)' = InTree(n)
  BY TreeStays
<1>2. /\ walk' = walk /\ toVisit' = toVisit /\ visits' = visits /\ visited' = visited
      /\ result' = result
  BY DEF walkVars
<1>3. WalkTyped'
  BY <1>1, <1>2 DEF WalkInv, WalkTyped
<1>4. VisitedIsThere'
  BY <1>1, <1>2 DEF WalkInv, VisitedIsThere, NamesOf, Members
<1>5. Nested(visits', FeatureNames, Named') /\ Follows(visits, visited)' /\ Ordered(result)'
  BY <1>1, <1>2 DEF WalkInv, Nested, Follows, Ordered
<1> QED
  BY <1>1, <1>3, <1>4, <1>5 DEF WalkInv

LEMMA BeginOrderKeeps == ASSUME WalkInv, BeginOrder PROVE WalkInv'
<1>0. /\ walk = "none" /\ walk' = "walking" /\ toVisit' = authored
      /\ UNCHANGED <<treeVars, visits, visited, result>>
  BY DEF BeginOrder
<1>1. /\ TreeTyped' /\ Named' = Named /\ references' = references
      /\ \A n : InTree(n)' = InTree(n)
  BY <1>0, TreeStays
<1>2. Members(toVisit') = DOMAIN references /\ toVisit' \in Seq(FeatureNames)
  BY <1>0 DEF WalkInv, TreeTyped
<1>3. WalkTyped' /\ VisitedIsThere'
  BY <1>0, <1>1, <1>2 DEF WalkInv, WalkTyped, VisitedIsThere, NamesOf, Members
<1>4. Nested(visits', FeatureNames, Named') /\ Follows(visits, visited)' /\ Ordered(result)'
  BY <1>0, <1>1 DEF WalkInv, Nested, Follows, Ordered
<1> QED
  BY <1>1, <1>3, <1>4 DEF WalkInv

LEMMA OrderReturnsKeeps == ASSUME WalkInv, OrderReturns PROVE WalkInv'
<1>0. /\ walk = "walking" /\ walk' = "done" /\ visits = <<>> /\ toVisit = <<>>
      /\ UNCHANGED <<treeVars, toVisit, visits, visited, result>>
  BY DEF OrderReturns
<1>1. /\ TreeTyped' /\ Named' = Named /\ references' = references
      /\ \A n : InTree(n)' = InTree(n)
  BY <1>0, TreeStays
<1>2. WalkTyped' /\ VisitedIsThere'
  BY <1>0, <1>1 DEF WalkInv, WalkTyped, VisitedIsThere, NamesOf, Members
<1>3. Nested(visits', FeatureNames, Named') /\ Follows(visits, visited)' /\ Ordered(result)'
  BY <1>0, <1>1 DEF WalkInv, Nested, Follows, Ordered
<1> QED
  BY <1>1, <1>2, <1>3 DEF WalkInv

\* What visit() was called with is in the result or in a call.
LEMMA VisitedStays ==
  ASSUME WalkInv, UNCHANGED <<treeVars, walk, result>>, NEW f \in DOMAIN references,
         visited' = visited \cup {f}, toVisit' \in Seq(FeatureNames),
         Members(toVisit') \subseteq DOMAIN references,
         Members(toVisit) \subseteq Members(toVisit') \cup {f},
         IF f \in visited THEN NamesOf(visits') = NamesOf(visits)
                          ELSE NamesOf(visits') = NamesOf(visits) \cup {f}
  PROVE  VisitedIsThere'
<1>1. references' = references /\ walk' = walk /\ result' = result
  BY DEF treeVars
<1>2. VisitedIsThere
  BY DEF WalkInv
<1>3. NamesOf(visits)' = NamesOf(visits') /\ Members(result)' = Members(result) /\ Members(toVisit)' = Members(toVisit')
  BY <1>1 DEF NamesOf, Members
<1> QED
  BY <1>1, <1>2, <1>3 DEF VisitedIsThere

LEMMA VisitNextKeeps == ASSUME WalkInv, VisitNext PROVE WalkInv'
<1>0. /\ walk = "walking" /\ visits = <<>> /\ toVisit # <<>> /\ toVisit' = Tail(toVisit)
      /\ Visit(Head(toVisit), <<>>) /\ UNCHANGED <<treeVars, walk, result>>
  BY DEF VisitNext
<1>1. /\ TreeTyped' /\ Named' = Named /\ references' = references
      /\ \A n : InTree(n)' = InTree(n) /\ \A r : Ordered(r)' <=> Ordered(r)
  BY <1>0, TreeStays
<1>2. /\ toVisit' \in Seq(FeatureNames) /\ Head(toVisit) \in DOMAIN references
      /\ Members(toVisit) = Members(toVisit') \cup {Head(toVisit)}
      /\ Members(toVisit') \subseteq DOMAIN references
  BY <1>0, TailMembers DEF WalkInv, WalkTyped
<1>3. /\ <<>> \in Seq(Frame(FeatureNames)) /\ Nested(<<>>, FeatureNames, Named)
      /\ NamesOf(<<>>) = {} /\ \A seen : Follows(<<>>, seen)
  BY NoCalls, EmptySeq DEF Follows
<1> DEFINE f == Head(toVisit)
<1> HIDE DEF f
<1>4. /\ visits' \in Seq(Frame(FeatureNames)) /\ Nested(visits', FeatureNames, Named)
      /\ visited' = visited \cup {f} /\ Follows(visits', visited')
      /\ IF f \in visited THEN NamesOf(visits') = {} ELSE NamesOf(visits') = {} \cup {f}
  BY <1>0, <1>1, <1>2, <1>3, VisitKeeps DEF f, WalkInv
<1>5. VisitedIsThere'
  BY <1>0, <1>2, <1>3, <1>4, VisitedStays DEF f
<1>6. WalkTyped'
  BY <1>0, <1>1, <1>2, <1>4 DEF WalkInv, WalkTyped
<1>7. Nested(visits', FeatureNames, Named') /\ Follows(visits, visited)' /\ Ordered(result)'
  BY <1>0, <1>1, <1>4 DEF WalkInv, Follows, Ordered
<1> QED
  BY <1>1, <1>5, <1>6, <1>7 DEF WalkInv

LEMMA VisitReferenceKeeps == ASSUME WalkInv, VisitReference PROVE WalkInv'
<1> DEFINE r == Head(Innermost.left)
           outer == [visits EXCEPT ![Len(visits)].left = Tail(@)]
<1>0. /\ visits # <<>> /\ Innermost.left # <<>> /\ UNCHANGED <<treeVars, walk, toVisit, result>>
      /\ IF r \in DOMAIN references THEN Visit(r, outer) ELSE visits' = outer /\ UNCHANGED visited
  BY DEF VisitReference
<1>1. /\ TreeTyped' /\ Named' = Named /\ references' = references
      /\ \A n : InTree(n)' = InTree(n)
  BY <1>0, TreeStays
<1>2. /\ TreeTyped /\ WalkTyped /\ Nested(visits, FeatureNames, Named) /\ Follows(visits, visited)
      /\ visits \in Seq(Frame(FeatureNames)) /\ VisitedIsThere
  BY DEF WalkInv, WalkTyped
<1>3. /\ Len(visits) \in Nat /\ Len(visits) \in 1 .. Len(visits)
      /\ Innermost \in Frame(FeatureNames)
      /\ outer \in Seq(Frame(FeatureNames)) /\ Len(outer) = Len(visits)
      /\ NamesOf(outer) = NamesOf(visits)
      /\ \A i \in 1 .. Len(visits) :
           outer[i].name = visits[i].name /\ (i # Len(visits) => outer[i].left = visits[i].left)
      /\ outer[Len(visits)].left = Tail(Innermost.left)
      /\ Nested(outer, FeatureNames, Named)
  <2>1. StillIn(Followed(visits), visits, FeatureNames, Named)
    BY <1>0, <1>2, OneFollowed DEF Innermost
  <2>2. outer = Followed(visits)
    BY DEF Followed
  <2> QED
    BY <2>1, <2>2, Zenon DEF StillIn, Innermost
<1> HIDE DEF r, outer
<1>4. Innermost.left \in Seq(FeatureNames) /\ Members(Innermost.left) \subseteq Named[Innermost.name]
      /\ InTree(Innermost.name) \subseteq visited \cup Members(Innermost.left)
  BY <1>2, <1>3 DEF Frame, Follows, Innermost
<1>5. r \in Members(Innermost.left) /\ Members(Innermost.left) = Members(Tail(Innermost.left)) \cup {r}
  BY <1>0, <1>4, TailMembers DEF r
<1>6. \A seen : visited \subseteq seen /\ (r \in seen \/ r \notin DOMAIN references) => Follows(outer, seen)
  <2> SUFFICES ASSUME NEW seen, visited \subseteq seen, r \in seen \/ r \notin DOMAIN references,
                      NEW i \in 1 .. Len(visits)
               PROVE  /\ Members(outer[i].left) \subseteq Named[outer[i].name]
                      /\ InTree(outer[i].name) \subseteq seen \cup Members(outer[i].left)
    BY <1>3 DEF Follows
  <2>1. CASE i = Len(visits)
    BY <1>3, <1>4, <1>5, <2>1 DEF Innermost, InTree
  <2>2. CASE i # Len(visits)
    BY <1>2, <1>3, <2>2 DEF Follows
  <2> QED
    BY <2>1, <2>2
<1>7. CASE r \in DOMAIN references
  <2>1. Visit(r, outer) /\ NamesOf(outer) \subseteq visited /\ Follows(outer, visited \cup {r})
        /\ r \in Named[outer[Len(outer)].name]
    BY <1>0, <1>2, <1>3, <1>4, <1>5, <1>6, <1>7 DEF VisitedIsThere, Innermost
  <2>2. /\ visits' \in Seq(Frame(FeatureNames)) /\ Nested(visits', FeatureNames, Named)
        /\ visited' = visited \cup {r} /\ Follows(visits', visited')
        /\ IF r \in visited THEN NamesOf(visits') = NamesOf(visits)
                            ELSE NamesOf(visits') = NamesOf(visits) \cup {r}
    BY <1>1, <1>2, <1>3, <1>7, <2>1, VisitKeeps
  <2>3. VisitedIsThere'
    <3>1. UNCHANGED <<treeVars, walk, result>> /\ toVisit' = toVisit /\ toVisit' \in Seq(FeatureNames)
          /\ Members(toVisit') \subseteq DOMAIN references
          /\ Members(toVisit) \subseteq Members(toVisit') \cup {r}
      BY <1>0, <1>2 DEF WalkTyped
    <3> QED
      BY <1>7, <2>2, <3>1, VisitedStays
  <2>4. WalkTyped'
    BY <1>0, <1>1, <1>2, <2>2 DEF WalkTyped
  <2>5. Nested(visits', FeatureNames, Named') /\ Follows(visits, visited)' /\ Ordered(result)'
    BY <1>0, <1>1, <2>2 DEF WalkInv, Follows, Ordered
  <2> QED
    BY <1>1, <2>3, <2>4, <2>5 DEF WalkInv
<1>8. CASE r \notin DOMAIN references
  <2>1. visits' = outer /\ visited' = visited /\ Follows(outer, visited)
    BY <1>0, <1>6, <1>8
  <2>2. VisitedIsThere'
    BY <1>0, <1>1, <1>2, <1>3, <2>1 DEF VisitedIsThere
  <2>3. WalkTyped'
    BY <1>0, <1>1, <1>2, <1>3, <2>1 DEF WalkTyped
  <2>4. Nested(visits', FeatureNames, Named')
    BY <1>1, <1>3, <2>1
  <2>5. Follows(visits, visited)'
    BY <1>1, <2>1 DEF Follows
  <2>6. Ordered(result)'
    BY <1>0, <1>1 DEF WalkInv, Ordered
  <2> QED
    BY <1>1, <2>2, <2>3, <2>4, <2>5, <2>6 DEF WalkInv
<1> QED
  BY <1>7, <1>8

LEMMA VisitEndsKeeps == ASSUME WalkInv, VisitEnds PROVE WalkInv'
<1> DEFINE n == Len(visits)
           t == SubSeq(visits, 1, Len(visits) - 1)
           f == visits[n].name
<1>0. /\ visits # <<>> /\ visits[n].left = <<>> /\ result' = Append(result, f) /\ visits' = t
      /\ UNCHANGED <<treeVars, walk, toVisit, visited>>
  BY DEF VisitEnds, Innermost
<1>1. /\ TreeTyped' /\ Named' = Named /\ references' = references
      /\ \A m : InTree(m)' = InTree(m)
  BY <1>0, TreeStays
<1>2. /\ TreeTyped /\ WalkTyped /\ Nested(visits, FeatureNames, Named) /\ Follows(visits, visited)
      /\ visits \in Seq(Frame(FeatureNames)) /\ VisitedIsThere /\ Ordered(result)
      /\ result \in Seq(FeatureNames)
  BY DEF WalkInv, WalkTyped
<1>3. /\ n \in Nat /\ n \in 1 .. n /\ visits[n] \in Frame(FeatureNames)
      /\ t \in Seq(Frame(FeatureNames)) /\ Len(t) = n - 1
      /\ \A i \in 1 .. (n - 1) : t[i] = visits[i] /\ i \in 1 .. n
      /\ NamesOf(visits) = NamesOf(t) \cup {f} /\ f \notin NamesOf(t)
      /\ Nested(t, FeatureNames, Named)
  <2>1. Returned(t, visits, FeatureNames, Named)
    BY <1>0, <1>2, OneReturned
  <2> QED
    BY <2>1, Zenon DEF Returned
<1> HIDE DEF t, n, f
<1>4. f \in FeatureNames /\ f \notin Members(result)
  BY <1>2, <1>3 DEF Frame, f, VisitedIsThere
<1>5. /\ result' \in Seq(FeatureNames) /\ Len(result') = Len(result) + 1
      /\ \A i \in 1 .. Len(result) : result'[i] = result[i]
      /\ result'[Len(result) + 1] = f /\ Members(result') = Members(result) \cup {f}
      /\ Once(result')
  BY <1>0, <1>2, <1>4, AppendedMembers DEF Ordered
<1>6. \A g \in InTree(f) : g \in Members(result) \/ f \in Reached(FeatureNames, Named, g)
  <2> SUFFICES ASSUME NEW g \in InTree(f), g \notin Members(result)
               PROVE  f \in Reached(FeatureNames, Named, g)
    OBVIOUS
  <2>1. Members(visits[n].left) = {}
    BY <1>0, NoMembers
  <2>2. g \in NamesOf(visits)
    BY <1>2, <1>3, <2>1 DEF Follows, VisitedIsThere, f, n
  <2>3. PICK i \in 1 .. n : g = visits[i].name
    BY <2>2 DEF NamesOf, n
  <2>4. CASE i = n
    <3>1. g = f /\ f \in Named[f] /\ f \in DOMAIN Named
      BY <2>3, <2>4, <1>2, NamedTyped DEF f, InTree
    <3>2. \A k \in DOMAIN Named : Named[k] \subseteq FeatureNames
      BY <1>2, NamedTyped
    <3> QED
      BY <3>1, <3>2, ReachedIsClosed
  <2>5. CASE i # n
    <3>1. i < n
      BY <1>3, <2>5
    <3> QED
      BY <1>2, <1>3, <2>3, <3>1 DEF Nested, f, n
  <2> QED
    BY <2>4, <2>5
<1>7. Ordered(result)'
  <2>1. Len(result) \in Nat /\ 1 .. Len(result') = (1 .. Len(result)) \cup {Len(result) + 1}
    <3>1. Len(result) \in Nat
      BY <1>2, LenProperties
    <3> QED
      BY <1>5, <3>1
  <2>2. ASSUME NEW i \in 1 .. Len(result'), NEW g \in InTree(result'[i])
        PROVE  g \in {result'[j] : j \in 1 .. (i - 1)} \/ result'[i] \in Reached(FeatureNames, Named, g)
    <3>1. CASE i \in 1 .. Len(result)
      <4>1. \A j \in 1 .. (i - 1) : j \in 1 .. Len(result)
        BY <2>1, <3>1
      <4> QED
        BY <1>2, <1>5, <2>2, <3>1, <4>1 DEF Ordered
    <3>2. CASE i = Len(result) + 1
      <4>1. (i - 1) = Len(result) /\ result'[i] = f
        BY <1>5, <2>1, <3>2
      <4>2. \A j \in 1 .. (i - 1) : result'[j] = result[j]
        BY <1>5, <4>1
      <4> QED
        BY <1>6, <2>2, <4>1, <4>2 DEF Members
    <3> QED
      BY <2>1, <3>1, <3>2
  <2> QED
    BY <1>1, <1>5, <2>2 DEF Ordered
<1>8. VisitedIsThere'
  BY <1>0, <1>1, <1>2, <1>3, <1>5 DEF VisitedIsThere
<1>9. WalkTyped'
  <2>1. visits # <<>>
    BY <1>0
  <2> QED
    BY <1>0, <1>1, <1>2, <1>3, <1>5, <2>1 DEF WalkTyped
<1>10. Nested(visits', FeatureNames, Named') /\ Follows(visits, visited)'
  BY <1>0, <1>1, <1>2, <1>3 DEF Follows, n
<1> QED
  BY <1>1, <1>7, <1>8, <1>9, <1>10 DEF WalkInv

LEMMA WalkKeeps == ASSUME WalkInv, TreeNext \/ UNCHANGED <<treeVars, walkVars>> PROVE WalkInv'
BY EditKeepsTree, BeginOrderKeeps, VisitNextKeeps, VisitReferenceKeeps, VisitEndsKeeps,
   OrderReturnsKeeps, WalkStays DEF TreeNext, WalkNext

LEMMA WalkedInOrder == WalkInv => ParentsFirst
<1> SUFFICES ASSUME WalkInv, walk = "done"
             PROVE  /\ {result[i] : i \in DOMAIN result} = DOMAIN references
                    /\ \A i, j \in DOMAIN result : result[i] = result[j] => i = j
                    /\ \A i \in DOMAIN result : \A g \in Named[result[i]] \cap DOMAIN references :
                         g \in {result[j] : j \in 1 .. (i - 1)} \/ result[i] \in Reached(FeatureNames, Named, g)
  BY DEF ParentsFirst
<1>1. /\ WalkTyped /\ VisitedIsThere /\ Ordered(result) /\ result \in Seq(FeatureNames)
      /\ toVisit = <<>> /\ visits = <<>> /\ visits \in Seq(Frame(FeatureNames))
  BY DEF WalkInv, WalkTyped
<1>2. DOMAIN result = 1 .. Len(result)
  BY <1>1, LenProperties
<1>3. NamesOf(visits) = {} /\ Members(toVisit) = {}
  BY <1>1, NoCalls, NoMembers
<1>4. {result[i] : i \in DOMAIN result} = DOMAIN references
  BY <1>1, <1>2, <1>3 DEF VisitedIsThere, Members
<1> QED
  BY <1>1, <1>2, <1>4 DEF Ordered, Once, InTree
-----------------------------------------------------------------------------
(* CadTree: resolve()                                                      *)

TableTyped == DOMAIN uses \subseteq Params /\ \A p \in DOMAIN uses : uses[p] \subseteq Params

Deps(p) == (uses[p] \cap DOMAIN uses) \ {p}

CallsTyped ==
  /\ answer \in {"none", "running", "ok", "KeyError", "circular", "ValueError", "uncaught"}
  /\ calls \in Seq(Frame(Params)) /\ (answer = "running" <=> calls # <<>>)
  /\ answer # "none" => \E p \in Params : asked = {p}
  /\ calls # <<>> => asked = {calls[1].name}

\* A call waits for the names it has yet to follow and for the one it has called for.
Awaited(s, i) == IF i < Len(s) THEN {s[i + 1].name} ELSE {}
Awaits(s, done) ==
  \A i \in 1 .. Len(s) :
    /\ Members(s[i].left) \subseteq Deps(s[i].name)
    /\ Deps(s[i].name) \subseteq done \cup Members(s[i].left) \cup Awaited(s, i)

\* A value came of values, and not of itself.
ResolvedWell(done) ==
  /\ done \subseteq DOMAIN uses
  /\ \A q \in done : uses[q] \subseteq done /\ ~ReachesItself(q)

\* Why there is no value.
Circle ==
  \E q, r \in Below \cap DOMAIN uses :
    q # r /\ q \in Reached(Params, uses, r) /\ r \in Reached(Params, uses, q)
Unknown == \E q \in Below \cap DOMAIN uses : ~(uses[q] \subseteq DOMAIN uses \ {q})
Faulty == Below \cap broken # {}

Outcome ==
  /\ answer = "ok" => asked \subseteq resolved
  /\ answer = "KeyError" => asked \cap DOMAIN uses = {}
  /\ answer = "circular" => Circle
  /\ answer = "ValueError" => Faulty
  /\ answer = "uncaught" => Unknown \/ Faulty

\* Which expressions fail is settled before any gives a value.
Computed ==
  /\ broken \subseteq DOMAIN uses /\ resolved \cap broken = {}
  /\ answer = "none" => resolved = {}

ResolveInv ==
  /\ TableTyped /\ CallsTyped /\ Nested(calls, Params, uses) /\ Awaits(calls, resolved)
  /\ ResolvedWell(resolved) /\ Outcome /\ Computed

\* Before resolve() is called.
NotAsked ==
  TableTyped /\ asked = {} /\ broken = {} /\ calls = <<>> /\ resolved = {} /\ answer = "none"

LEMMA BeforeResolve == NotAsked => ResolveInv
<1> SUFFICES ASSUME NotAsked PROVE ResolveInv
  OBVIOUS
<1> USE DEF NotAsked
<1>1. calls \in Seq(Frame(Params)) /\ Nested(calls, Params, uses) /\ 1 .. Len(calls) = {}
  BY NoCalls
<1>2. CallsTyped /\ Outcome /\ Computed
  BY <1>1 DEF CallsTyped, Outcome, Computed
<1>3. Awaits(calls, resolved) /\ ResolvedWell(resolved)
  BY <1>1 DEF Awaits, ResolvedWell
<1> QED
  BY <1>1, <1>2, <1>3 DEF ResolveInv

LEMMA ResolveStarts == CadInit => ResolveInv
<1> SUFFICES ASSUME CadInit PROVE ResolveInv
  OBVIOUS
<1>1. uses = <<>> /\ DOMAIN <<>> = {}
  BY DEF CadInit
<1> QED
  BY <1>1, BeforeResolve DEF CadInit, NotAsked, TableTyped

LEMMA EditKeepsTable == ASSUME ResolveInv, SetParameter \/ RemoveParameter PROVE ResolveInv'
<1>1. asked' = {} /\ broken' = {} /\ calls' = <<>> /\ resolved' = {} /\ answer' = "none"
  BY DEF SetParameter, RemoveParameter, TableEdited
<1>2. TableTyped'
  BY DEF ResolveInv, TableTyped, SetParameter, RemoveParameter, Put, Without
<1>3. NotAsked' => ResolveInv'
  BY BeforeResolve, PTL
<1> QED
  BY <1>1, <1>2, <1>3 DEF NotAsked

LEMMA ParamsFinite ==
  /\ Params = Members(ParamNames) /\ ParamNames \in Seq(Params) /\ IsFiniteSet(Params)
<1>1. ParamNames \in Seq(Params) /\ Params = Members(ParamNames)
  BY CadAssumption, MembersTyped DEF Params
<1> DEFINE n == Len(ParamNames)
<1>2. n \in Nat /\ DOMAIN ParamNames = 1 .. n /\ ParamNames \in [1 .. n -> Params]
  BY <1>1, LenProperties
<1>3. ParamNames \in Surjection(1 .. n, Params)
  BY <1>2 DEF Surjection, Params
<1>4. IsFiniteSet(1 .. n)
  BY <1>2, FS_Interval
<1> QED
  BY <1>1, <1>3, <1>4, FS_Surjection

\* dependencies() gives the names of the table, each of them.
LEMMA DependenciesAre ==
  ASSUME TableTyped, NEW p \in DOMAIN uses
  PROVE  /\ Dependencies(p) \in Seq(Params) /\ Members(Dependencies(p)) = Deps(p)
         /\ Deps(p) \subseteq Params /\ Deps(p) \subseteq DOMAIN uses /\ Deps(p) \subseteq uses[p]
         /\ p \notin Deps(p)
<1>1. Deps(p) \subseteq Params
  BY DEF TableTyped, Deps
<1>2. Dependencies(p) = Filtered(ParamNames, Deps(p))
  BY DEF Dependencies, Deps
<1> HIDE DEF Deps
<1>3. Dependencies(p) \in Seq(Params) /\ Members(Dependencies(p)) = Params \cap Deps(p)
  BY <1>2, ParamsFinite, KeptMembers
<1>4. Members(Dependencies(p)) = Deps(p)
  BY <1>1, <1>3
<1> QED
  BY <1>1, <1>3, <1>4 DEF Deps

\* Whatever is being resolved is what was asked for, or is reached from it.
LEMMA CallsAreBelow ==
  ASSUME ResolveInv, NEW i \in 1 .. Len(calls)
  PROVE  calls[i].name \in Below \cap DOMAIN uses
<1>1. /\ Nested(calls, Params, uses) /\ Len(calls) \in Nat /\ 1 \in 1 .. Len(calls)
      /\ asked = {calls[1].name}
  <2>1. Len(calls) \in Nat
    BY LenProperties DEF ResolveInv, CallsTyped
  <2>2. calls # <<>>
    BY <2>1
  <2> QED
    BY <2>1, <2>2 DEF ResolveInv, CallsTyped
<1>2. calls[i].name \in DOMAIN uses /\ calls[1].name \in DOMAIN uses
  BY <1>1 DEF Nested
<1>3. CASE i = 1
  BY <1>1, <1>2, <1>3 DEF Below
<1>4. CASE i # 1
  <2>1. 1 < i
    BY <1>4
  <2>2. calls[i].name \in Reached(Params, uses, calls[1].name)
    BY <1>1, <2>1 DEF Nested
  <2> QED
    BY <1>1, <1>2, <2>2 DEF Below
<1> QED
  BY <1>3, <1>4

\* The table stays as it is in a walk.
LEMMA TableStays ==
  ASSUME ResolveInv, UNCHANGED uses
  PROVE  /\ TableTyped' /\ \A p : Deps(p)' = Deps(p)
         /\ \A done : ResolvedWell(done)' <=> ResolvedWell(done)
         /\ asked' = asked => (Circle' <=> Circle) /\ (Unknown' <=> Unknown)
         /\ asked' = asked /\ broken' = broken => (Faulty' <=> Faulty)
<1>1. TableTyped' /\ \A p : Deps(p)' = Deps(p)
  BY DEF ResolveInv, TableTyped, Deps
<1>2. ASSUME NEW done PROVE ResolvedWell(done)' <=> ResolvedWell(done)
  BY DEF ResolvedWell, ReachesItself
<1>3. asked' = asked => (Circle' <=> Circle) /\ (Unknown' <=> Unknown)
  BY DEF Circle, Unknown, Below
<1>4. asked' = asked /\ broken' = broken => (Faulty' <=> Faulty)
  BY DEF Faulty, Below
<1> QED
  BY <1>1, <1>2, <1>3, <1>4

LEMMA CallsStay == ASSUME ResolveInv, UNCHANGED <<uses, callVars>> PROVE ResolveInv'
<1>1. /\ TableTyped' /\ \A p : Deps(p)' = Deps(p)
      /\ \A done : ResolvedWell(done)' <=> ResolvedWell(done)
      /\ asked' = asked => (Circle' <=> Circle) /\ (Unknown' <=> Unknown)
      /\ asked' = asked /\ broken' = broken => (Faulty' <=> Faulty)
  BY TableStays
<1>2. uses' = uses /\ asked' = asked /\ broken' = broken /\ calls' = calls /\ resolved' = resolved /\ answer' = answer
  BY DEF callVars
<1>3. CallsTyped' /\ Outcome' /\ Computed'
  BY <1>1, <1>2 DEF ResolveInv, CallsTyped, Outcome, Computed
<1>4. Nested(calls', Params, uses') /\ Awaits(calls, resolved)' /\ ResolvedWell(resolved)'
  BY <1>1, <1>2 DEF ResolveInv, Awaits, Awaited, ResolvedWell, ReachesItself
<1> QED
  BY <1>1, <1>3, <1>4 DEF ResolveInv

\* resolve() is called for a parameter that no call under way resolves.
CalledFor(p, outer) ==
  /\ p \in DOMAIN uses \ NamesOf(outer) /\ outer \in Seq(Frame(Params)) /\ Nested(outer, Params, uses)
  /\ IF outer = <<>> THEN asked' = {p} ELSE p \in uses[outer[Len(outer)].name] /\ asked' = {outer[1].name}
  /\ \A i \in 1 .. Len(outer) :
       /\ Members(outer[i].left) \subseteq Deps(outer[i].name)
       /\ Deps(outer[i].name) \subseteq
            resolved \cup Members(outer[i].left) \cup (IF i = Len(outer) THEN {p} ELSE Awaited(outer, i))
  /\ calls' = Append(outer, [name |-> p, left |-> Dependencies(p)]) /\ answer' = "running"

LEMMA CallKeeps ==
  ASSUME ResolveInv, NEW p, NEW outer, CalledFor(p, outer), UNCHANGED <<uses, resolved>>, Computed'
  PROVE  ResolveInv'
<1> DEFINE v == [name |-> p, left |-> Dependencies(p)]
           n == Len(outer)
<1>0. /\ p \in DOMAIN uses \ NamesOf(outer) /\ outer \in Seq(Frame(Params)) /\ Nested(outer, Params, uses)
      /\ IF outer = <<>> THEN asked' = {p} ELSE p \in uses[outer[n].name] /\ asked' = {outer[1].name}
      /\ \A i \in 1 .. n :
           /\ Members(outer[i].left) \subseteq Deps(outer[i].name)
           /\ Deps(outer[i].name) \subseteq
                resolved \cup Members(outer[i].left) \cup (IF i = n THEN {p} ELSE Awaited(outer, i))
      /\ calls' = Append(outer, v) /\ answer' = "running"
  BY DEF CalledFor
<1>1. /\ TableTyped' /\ \A q : Deps(q)' = Deps(q)
      /\ \A done : ResolvedWell(done)' <=> ResolvedWell(done)
  BY TableStays
<1>2. TableTyped /\ p \in Params /\ ResolvedWell(resolved)
  BY <1>0 DEF ResolveInv, TableTyped
<1>3. v \in Frame(Params) /\ v.name = p /\ Members(v.left) = Deps(p)
  BY <1>0, <1>2, DependenciesAre DEF Frame
<1> HIDE DEF v
<1>4. /\ calls' \in Seq(Frame(Params)) /\ Len(calls') = n + 1 /\ Nested(calls', Params, uses)
      /\ calls' # <<>> /\ \A i \in 1 .. n : calls'[i] = outer[i]
      /\ calls'[n + 1] = v
  <2>1. CallsOn(outer, Params, uses, v)
    BY <1>0, <1>2, <1>3 DEF CallsOn, TableTyped
  <2>2. Within(calls', outer, Params, uses, v)
    BY <1>0, <2>1, OneCalled
  <2> QED
    BY <2>2 DEF Within
<1>5. n \in Nat /\ 1 .. n + 1 = (1 .. n) \cup {n + 1} /\ (outer # <<>> => 1 \in 1 .. n)
      /\ (outer = <<>> => n = 0)
  <2>1. n \in Nat /\ (outer = <<>> <=> n = 0)
    BY <1>0, LenProperties, EmptySeq
  <2> HIDE DEF n
  <2> QED
    BY <2>1
<1> HIDE DEF n
<1>6. CallsTyped'
  <2>1. asked' = {calls'[1].name}
    <3>1. CASE outer = <<>>
      BY <1>0, <1>3, <1>4, <1>5, <3>1
    <3>2. CASE outer # <<>>
      BY <1>0, <1>4, <1>5, <3>2
    <3> QED
      BY <3>1, <3>2
  <2>2. calls'[1].name \in Params
    <3>1. CASE outer = <<>>
      BY <1>2, <1>3, <1>4, <1>5, <3>1
    <3>2. CASE outer # <<>>
      <4>1. outer[1].name \in DOMAIN uses
        BY <1>0, <1>5, <3>2 DEF Nested, n
      <4> QED
        BY <1>2, <1>4, <1>5, <3>2, <4>1 DEF TableTyped
    <3> QED
      BY <3>1, <3>2
  <2> QED
    BY <1>0, <1>4, <2>1, <2>2 DEF CallsTyped
<1>7. Awaits(calls, resolved)'
  <2> SUFFICES ASSUME NEW i \in 1 .. n + 1
               PROVE  /\ Members(calls'[i].left) \subseteq Deps(calls'[i].name)
                      /\ Deps(calls'[i].name) \subseteq resolved \cup Members(calls'[i].left) \cup Awaited(calls', i)
    BY <1>1, <1>4 DEF Awaits, Awaited
  <2>1. CASE i \in 1 .. n
    <3>1. i < Len(calls') /\ Awaited(calls', i) = {calls'[i + 1].name}
      BY <1>4, <1>5, <2>1 DEF Awaited
    <3>2. CASE i = n
      BY <1>0, <1>3, <1>4, <2>1, <3>1, <3>2
    <3>3. CASE i # n
      <4>1. i + 1 \in 1 .. n /\ i < n
        BY <1>5, <2>1, <3>3
      <4>2. Awaited(outer, i) = Awaited(calls', i)
        BY <1>4, <3>1, <4>1 DEF Awaited, n
      <4> QED
        BY <1>0, <1>4, <2>1, <3>3, <4>2
    <3> QED
      BY <3>2, <3>3
  <2>2. CASE i = n + 1
    BY <1>3, <1>4, <2>2
  <2> QED
    BY <1>5, <2>1, <2>2
<1>8. Outcome'
  BY <1>0 DEF Outcome
<1>9. ResolvedWell(resolved)' /\ Nested(calls', Params, uses')
  BY <1>1, <1>2, <1>4 DEF ResolvedWell, ReachesItself
<1> QED
  BY <1>1, <1>6, <1>7, <1>8, <1>9 DEF ResolveInv

\* resolve() ends with no value.
Failed ==
  /\ calls' = <<>> /\ \E p \in Params : asked' = {p}
  /\ \/ answer' = "KeyError" /\ asked' \cap DOMAIN uses = {}
     \/ answer' = "circular" /\ asked' = asked /\ Circle
     \/ answer' = "ValueError" /\ asked' = asked /\ broken' = broken /\ Faulty
     \/ answer' = "uncaught" /\ asked' = asked /\ broken' = broken /\ (Unknown \/ Faulty)

LEMMA FailureKeeps ==
  ASSUME ResolveInv, Failed, UNCHANGED <<uses, resolved>>, Computed'
  PROVE  ResolveInv'
<1>1. /\ TableTyped' /\ \A p : Deps(p)' = Deps(p)
      /\ \A done : ResolvedWell(done)' <=> ResolvedWell(done)
      /\ asked' = asked => (Circle' <=> Circle) /\ (Unknown' <=> Unknown)
      /\ asked' = asked /\ broken' = broken => (Faulty' <=> Faulty)
  BY TableStays
<1>2. CallsTyped'
  BY NoCalls DEF Failed, CallsTyped
<1>3. Nested(calls', Params, uses') /\ Awaits(calls, resolved)'
  BY NoCalls DEF Failed, Awaits
<1>4. ResolvedWell(resolved)'
  BY <1>1 DEF ResolveInv, ResolvedWell, ReachesItself
<1>5. Outcome'
  BY <1>1 DEF Failed, Outcome
<1> QED
  BY <1>1, <1>2, <1>3, <1>4, <1>5 DEF ResolveInv

LEMMA BeginResolveKeeps == ASSUME ResolveInv, BeginResolve PROVE ResolveInv'
<1>1. PICK p \in Params : asked' = {p} /\ Resolve(p, <<>>)
  BY DEF BeginResolve
<1>2. answer = "none" /\ UNCHANGED <<uses, resolved>> /\ broken' \in SUBSET DOMAIN uses
  BY DEF BeginResolve
<1>6. answer' # "none"
  BY <1>1 DEF Resolve
<1>7. Computed'
  BY <1>2, <1>6 DEF ResolveInv, Computed
<1>3. calls = <<>> /\ ~Calling(p)
  BY <1>2, EmptySeq DEF ResolveInv, CallsTyped, Calling
<1>4. CASE p \notin DOMAIN uses
  <2>1. Failed
    BY <1>1, <1>4 DEF Resolve, Failed
  <2> QED
    BY <1>2, <1>7, <2>1, FailureKeeps
<1>5. CASE p \in DOMAIN uses
  <2>1. calls' = Append(<<>>, [name |-> p, left |-> Dependencies(p)]) /\ answer' = "running"
    BY <1>1, <1>3, <1>5 DEF Resolve
  <2>2. <<>> \in Seq(Frame(Params)) /\ Nested(<<>>, Params, uses) /\ NamesOf(<<>>) = {}
        /\ 1 .. Len(<<>>) = {}
    BY NoCalls
  <2>3. CalledFor(p, <<>>)
    BY <1>1, <1>5, <2>1, <2>2 DEF CalledFor
  <2> QED
    BY <1>2, <1>7, <2>3, CallKeeps
<1> QED
  BY <1>4, <1>5

LEMMA ResolveDependencyKeeps == ASSUME ResolveInv, ResolveDependency PROVE ResolveInv'
<1> DEFINE n == Len(calls)
           p == Head(Current.left)
           outer == Followed(calls)
<1>0. /\ calls # <<>> /\ Current.left # <<>> /\ Resolve(p, outer)
      /\ UNCHANGED <<uses, asked, broken, resolved>> /\ Current = calls[n]
  BY DEF ResolveDependency, Followed, Current
<1>8. answer' # "none"
  BY <1>0 DEF Resolve
<1>9. Computed'
  BY <1>0, <1>8 DEF ResolveInv, Computed
<1>1. /\ TableTyped /\ CallsTyped /\ Nested(calls, Params, uses) /\ Awaits(calls, resolved)
      /\ calls \in Seq(Frame(Params)) /\ asked = {calls[1].name}
  BY <1>0 DEF ResolveInv, CallsTyped
<1>2. /\ n \in Nat /\ n \in 1 .. n /\ calls[n] \in Frame(Params)
      /\ outer \in Seq(Frame(Params)) /\ Len(outer) = n /\ NamesOf(outer) = NamesOf(calls)
      /\ \A i \in 1 .. n : outer[i].name = calls[i].name /\ (i # n => outer[i].left = calls[i].left)
      /\ outer[n].left = Tail(calls[n].left)
      /\ Nested(outer, Params, uses)
  <2>1. StillIn(Followed(calls), calls, Params, uses)
    BY <1>0, <1>1, OneFollowed
  <2> QED
    BY <2>1 DEF StillIn
<1> HIDE DEF outer, p
<1>3. /\ calls[n].left \in Seq(Params) /\ Members(calls[n].left) \subseteq Deps(calls[n].name)
      /\ Deps(calls[n].name) \subseteq resolved \cup Members(calls[n].left)
      /\ calls[n].name \in DOMAIN uses
  <2>1. calls[n].left \in Seq(Params) /\ calls[n].name \in DOMAIN uses
    BY <1>1, <1>2 DEF Frame, Nested
  <2>2. Awaited(calls, n) = {}
    BY <1>2 DEF Awaited
  <2> QED
    BY <1>1, <1>2, <2>1, <2>2 DEF Awaits
<1>4. p \in Members(calls[n].left) /\ Members(calls[n].left) = Members(Tail(calls[n].left)) \cup {p}
  BY <1>0, <1>3, TailMembers DEF p
<1>5. /\ p \in DOMAIN uses /\ p \in uses[calls[n].name] /\ p # calls[n].name
  BY <1>3, <1>4 DEF Deps
<1>6. CASE Calling(p)
  <2>1. PICK i \in 1 .. n : calls[i].name = p
    BY <1>1, <1>6, LenProperties DEF Calling
  <2>2. i < n
    BY <1>2, <1>5, <2>1
  <2>3. calls[n].name \in Reached(Params, uses, p)
    BY <1>1, <1>2, <2>1, <2>2 DEF Nested
  <2>4. p \in Reached(Params, uses, calls[n].name)
    BY <1>1, <1>3, <1>5, ReachedIsClosed DEF TableTyped
  <2>5. p \in Below \cap DOMAIN uses /\ calls[n].name \in Below \cap DOMAIN uses
    BY <1>2, <2>1, CallsAreBelow
  <2>6. Circle
    BY <1>5, <2>3, <2>4, <2>5 DEF Circle
  <2>7. Failed
    <3>1. calls' = <<>> /\ answer' = "circular"
      BY <1>0, <1>5, <1>6 DEF Resolve
    <3>2. \E q \in Params : asked' = {q}
      BY <1>0, <1>1, <2>5 DEF CallsTyped
    <3> QED
      BY <1>0, <2>6, <3>1, <3>2 DEF Failed
  <2> QED
    BY <1>0, <1>9, <2>7, FailureKeeps
<1>7. CASE ~Calling(p)
  <2>1. calls' = Append(outer, [name |-> p, left |-> Dependencies(p)]) /\ answer' = "running"
    BY <1>0, <1>5, <1>7 DEF Resolve
  <2>2. p \notin NamesOf(outer)
    BY <1>1, <1>2, <1>7, LenProperties DEF Calling, NamesOf
  <2>3. outer # <<>> /\ asked' = {outer[1].name}
    BY <1>0, <1>1, <1>2, EmptySeq
  <2>4. ASSUME NEW i \in 1 .. n
        PROVE  /\ Members(outer[i].left) \subseteq Deps(outer[i].name)
               /\ Deps(outer[i].name) \subseteq
                    resolved \cup Members(outer[i].left) \cup (IF i = n THEN {p} ELSE Awaited(outer, i))
    <3>1. CASE i = n
      BY <1>2, <1>3, <1>4, <3>1
    <3>2. CASE i # n
      <4>1. i + 1 \in 1 .. n /\ i < n
        BY <1>2, <3>2
      <4>2. Awaited(outer, i) = Awaited(calls, i)
        BY <1>2, <4>1 DEF Awaited
      <4> QED
        BY <1>1, <1>2, <3>2, <4>2 DEF Awaits
    <3> QED
      BY <3>1, <3>2
  <2>5. CalledFor(p, outer)
    BY <1>2, <1>5, <2>1, <2>2, <2>3, <2>4 DEF CalledFor
  <2> QED
    BY <1>0, <1>9, <2>5, CallKeeps
<1> QED
  BY <1>6, <1>7

LEMMA EvaluateKeeps == ASSUME ResolveInv, Evaluate PROVE ResolveInv'
<1> DEFINE n == Len(calls)
           p == calls[n].name
           t == SubSeq(calls, 1, n - 1)
<1>0. /\ calls # <<>> /\ calls[n].left = <<>> /\ UNCHANGED <<uses, asked, broken>>
      /\ IF Computable(p)
         THEN /\ calls' = t /\ resolved' = resolved \cup {p}
              /\ answer' = IF n = 1 THEN "ok" ELSE "running"
         ELSE /\ calls' = <<>> /\ UNCHANGED resolved
              /\ (answer' = "ValueError" /\ p \in broken) \/ answer' = "uncaught"
  BY DEF Evaluate, Current
<1>1. /\ TableTyped /\ CallsTyped /\ Nested(calls, Params, uses) /\ Awaits(calls, resolved)
      /\ calls \in Seq(Frame(Params)) /\ asked = {calls[1].name} /\ ResolvedWell(resolved)
  BY <1>0 DEF ResolveInv, CallsTyped
<1>2. /\ n \in Nat /\ n \in 1 .. n /\ calls[n] \in Frame(Params)
      /\ t \in Seq(Frame(Params)) /\ Len(t) = n - 1
      /\ \A i \in 1 .. (n - 1) : t[i] = calls[i] /\ i \in 1 .. n
      /\ t = <<>> <=> n = 1
      /\ Nested(t, Params, uses)
  <2>1. Returned(t, calls, Params, uses)
    BY <1>0, <1>1, OneReturned
  <2> QED
    BY <2>1, Zenon DEF Returned
<1>3. Members(calls[n].left) = {} /\ p \in DOMAIN uses /\ Deps(p) \subseteq resolved
  <2>1. Members(calls[n].left) = {}
    BY <1>0, NoMembers
  <2> QED
    BY <1>1, <1>2, <2>1 DEF Awaits, Awaited, Nested
<1>4. p \in Below \cap DOMAIN uses /\ calls[1].name \in Params
  <2>1. 1 \in 1 .. n
    BY <1>2
  <2> QED
    BY <1>1, <1>2, <2>1, CallsAreBelow DEF TableTyped
<1> HIDE DEF t, p
<1>5. CASE ~Computable(p)
  <2>1. Unknown \/ Faulty
    BY <1>4, <1>5 DEF Computable, Unknown, Faulty
  <2>2. p \in broken => Faulty
    BY <1>4 DEF Faulty
  <2>3. Failed
    BY <1>0, <1>1, <1>4, <1>5, <2>1, <2>2 DEF Failed
  <2>4. Computed'
    BY <1>0, <1>5 DEF ResolveInv, Computed
  <2> QED
    BY <1>0, <1>5, <2>3, <2>4, FailureKeeps
<1>6. CASE Computable(p)
  <2>1. calls' = t /\ resolved' = resolved \cup {p} /\ answer' = IF n = 1 THEN "ok" ELSE "running"
    BY <1>0, <1>6
  <2>2. uses[p] \subseteq resolved
    BY <1>3, <1>6 DEF Deps, Computable
  <2>3. ~ReachesItself(p)
    <3>1. resolved \in SUBSET Params /\ \A k \in resolved \cap DOMAIN uses : uses[k] \subseteq resolved
      BY <1>1 DEF ResolvedWell, TableTyped
    <3>2. Reached(Params, uses, p) \subseteq resolved
      BY <2>2, <3>1, ReachedStaysIn
    <3> QED
      BY <1>1, <3>2 DEF ReachesItself, ResolvedWell
  <2>4. ResolvedWell(resolved')
    BY <1>1, <1>3, <2>1, <2>2, <2>3 DEF ResolvedWell
  <2>5. /\ TableTyped' /\ \A q : Deps(q)' = Deps(q)
    BY <1>0, TableStays
  <2>6. ResolvedWell(resolved)' /\ Nested(calls', Params, uses')
    BY <1>0, <1>2, <2>1, <2>4 DEF ResolvedWell, ReachesItself
  <2>7. CallsTyped'
    <3>1. t # <<>> => t[1] = calls[1]
      BY <1>2
    <3> QED
      BY <1>0, <1>1, <1>2, <1>4, <2>1, <3>1 DEF CallsTyped
  <2>8. Outcome'
    BY <1>0, <1>1, <2>1 DEF Outcome, p
  <2>9. Awaits(calls, resolved)'
    <3> SUFFICES ASSUME NEW i \in 1 .. (n - 1)
                 PROVE  /\ Members(t[i].left) \subseteq Deps(t[i].name)
                        /\ Deps(t[i].name) \subseteq resolved' \cup Members(t[i].left) \cup Awaited(t, i)
      BY <1>2, <2>1, <2>5 DEF Awaits, Awaited
    <3>1. i \in 1 .. n /\ t[i] = calls[i] /\ i < n /\ Awaited(calls, i) = {calls[i + 1].name}
      BY <1>2 DEF Awaited
    <3>2. CASE i = n - 1
      <4>1. calls[i + 1].name = p
        BY <1>2, <3>2 DEF p
      <4> QED
        BY <1>1, <2>1, <3>1, <4>1 DEF Awaits
    <3>3. CASE i # n - 1
      <4>1. i + 1 \in 1 .. (n - 1) /\ i < n - 1
        BY <1>2, <3>3
      <4>2. Awaited(t, i) = Awaited(calls, i)
        BY <1>2, <3>1, <4>1 DEF Awaited
      <4> QED
        BY <1>1, <2>1, <3>1, <4>2 DEF Awaits
    <3> QED
      BY <3>2, <3>3
  <2>10. Computed'
    BY <1>0, <1>6, <2>1 DEF ResolveInv, Computed, Computable
  <2> QED
    BY <2>5, <2>6, <2>7, <2>8, <2>9, <2>10 DEF ResolveInv
<1> QED
  BY <1>5, <1>6

LEMMA ResolveKeeps == ASSUME ResolveInv, TableNext \/ UNCHANGED <<uses, callVars>> PROVE ResolveInv'
BY EditKeepsTable, BeginResolveKeeps, ResolveDependencyKeeps, EvaluateKeeps, CallsStay
   DEF TableNext, ResolveNext

LEMMA BelowOnwards ==
  ASSUME TableTyped, NEW q \in Below \cap DOMAIN uses
  PROVE  uses[q] \subseteq Below /\ Reached(Params, uses, q) \subseteq Below
<1>1. \A k \in DOMAIN uses : uses[k] \subseteq Params
  BY DEF TableTyped
<1>2. uses[q] \subseteq Reached(Params, uses, q)
  BY <1>1, ReachedIsClosed
<1>3. CASE q \in asked
  BY <1>2, <1>3 DEF Below
<1>4. CASE q \notin asked
  <2>1. PICK p \in asked \cap DOMAIN uses : q \in Reached(Params, uses, p)
    BY <1>4 DEF Below
  <2>2. Reached(Params, uses, q) \subseteq Reached(Params, uses, p)
    BY <1>1, <2>1, ReachedOnwards
  <2> QED
    BY <1>2, <2>1, <2>2 DEF Below
<1> QED
  BY <1>3, <1>4

LEMMA ResolvedRight == ResolveInv => ParametersResolve
<1> SUFFICES ASSUME ResolveInv PROVE ParametersResolve
  OBVIOUS
<1>1. /\ TableTyped /\ CallsTyped /\ ResolvedWell(resolved) /\ Outcome
      /\ \A k \in DOMAIN uses : uses[k] \subseteq Params
  BY DEF ResolveInv, TableTyped
<1>2. answer = "ok" =>
        Below \subseteq DOMAIN uses /\ \A q \in Below : ~ReachesItself(q) /\ q \notin broken
  <2> SUFFICES ASSUME answer = "ok" PROVE Below \subseteq resolved
    BY <1>1 DEF ResolvedWell, ResolveInv, Computed
  <2>1. asked \subseteq resolved /\ resolved \subseteq DOMAIN uses /\ resolved \in SUBSET Params
    BY <1>1 DEF Outcome, ResolvedWell, TableTyped
  <2>2. ASSUME NEW p \in resolved PROVE Reached(Params, uses, p) \subseteq resolved
    BY <1>1, <2>1, <2>2, ReachedStaysIn DEF ResolvedWell
  <2> QED
    BY <2>1, <2>2 DEF Below
<1>3. answer = "KeyError" => ~(Below \subseteq DOMAIN uses)
  BY <1>1 DEF Outcome, CallsTyped, Below
<1>4. answer = "circular" => \E q \in Below : ReachesItself(q)
  <2> SUFFICES ASSUME answer = "circular" PROVE \E q \in Below : ReachesItself(q)
    OBVIOUS
  <2>1. PICK q \in Below \cap DOMAIN uses, r \in Below \cap DOMAIN uses :
          q # r /\ q \in Reached(Params, uses, r) /\ r \in Reached(Params, uses, q)
    BY <1>1 DEF Outcome, Circle
  <2>2. Reached(Params, uses, r) \subseteq Reached(Params, uses, q)
    BY <1>1, <2>1, ReachedOnwards
  <2> QED
    BY <2>1, <2>2 DEF ReachesItself
<1>7. answer = "ValueError" => Below \cap broken # {}
  BY <1>1 DEF Outcome, Faulty
<1>5. answer = "uncaught" =>
        ~(Below \subseteq DOMAIN uses) \/ \E q \in Below : ReachesItself(q) \/ q \in broken
  <2> SUFFICES ASSUME answer = "uncaught", Below \subseteq DOMAIN uses, ~Faulty
               PROVE  \E q \in Below : ReachesItself(q)
    BY DEF Faulty
  <2>1. PICK q \in Below \cap DOMAIN uses : ~(uses[q] \subseteq DOMAIN uses \ {q})
    BY <1>1 DEF Outcome, Unknown
  <2>2. uses[q] \subseteq Below
    BY <1>1, <2>1, BelowOnwards
  <2>3. q \in uses[q] /\ uses[q] \subseteq Reached(Params, uses, q)
    BY <1>1, <2>1, <2>2, ReachedIsClosed
  <2> QED
    BY <2>1, <2>3 DEF ReachesItself
<1>6. answer \notin {"none", "running"} => 
    answer \in {"ok", "KeyError", "circular", "ValueError", "uncaught"}
  BY <1>1 DEF CallsTyped
<1> QED
  BY <1>1, <1>2, <1>3, <1>4, <1>5, <1>6, <1>7 DEF ParametersResolve, Outcome, Circle

CadInv == WalkInv /\ ResolveInv

LEMMA CadStarts == CadInit => CadInv
BY WalkStarts, ResolveStarts DEF CadInv

LEMMA CadSteps == ASSUME CadInv, [CadNext]_cadVars PROVE CadInv'
<1>1. CASE TreeNext
  <2>1. UNCHANGED <<uses, callVars>>
    BY <1>1 DEF TreeNext, AddFeature, RemoveFeature, TreeEdited, WalkNext, BeginOrder, VisitNext,
                VisitReference, VisitEnds, OrderReturns
  <2> QED
    BY <1>1, <2>1, WalkKeeps, ResolveKeeps DEF CadInv
<1>2. CASE TableNext
  <2>1. UNCHANGED <<treeVars, walkVars>>
    BY <1>2 DEF TableNext, SetParameter, RemoveParameter, TableEdited, ResolveNext, BeginResolve,
                ResolveDependency, Evaluate
  <2> QED
    BY <1>2, <2>1, WalkKeeps, ResolveKeeps DEF CadInv
<1>3. CASE UNCHANGED cadVars
  BY <1>3, WalkKeeps, ResolveKeeps DEF CadInv, cadVars
<1> QED
  BY <1>1, <1>2, <1>3 DEF CadNext

LEMMA CadTypes == CadInv => CadTypeOK
<1> SUFFICES ASSUME CadInv PROVE CadTypeOK
  OBVIOUS
<1>1. /\ TreeTyped /\ WalkTyped /\ Nested(visits, FeatureNames, Named)
      /\ TableTyped /\ CallsTyped /\ Nested(calls, Params, uses) /\ broken \subseteq DOMAIN uses
  BY DEF CadInv, WalkInv, ResolveInv, Computed
<1>2. IsFiniteSet(DOMAIN references) /\ Len(authored) = Cardinality(DOMAIN references)
  BY <1>1, MembersCounted DEF TreeTyped
<1>3. DOMAIN Named = DOMAIN references
  BY DEF Named
<1>4. Len(visits) <= Cardinality(DOMAIN references)
  BY <1>1, <1>2, <1>3, NestedFit DEF WalkTyped
<1>5. IsFiniteSet(DOMAIN uses)
  BY <1>1, ParamsFinite, FS_Subset DEF TableTyped
<1>6. Len(calls) <= Cardinality(DOMAIN uses)
  <2>1. calls \in Seq(Frame(Params)) /\ Nested(calls, Params, uses)
    BY <1>1 DEF CallsTyped
  <2> QED
    BY <1>5, <2>1, NestedFit
<1> QED
  BY <1>1, <1>2, <1>4, <1>6 DEF CadTypeOK, TreeTyped, TableTyped

LEMMA CadHolds == CadSpec => []CadInv
BY CadStarts, CadSteps, PTL DEF CadSpec

\* Whatever the edits left behind: execution_order() gives every feature once, after those
\* it names unless they lead back to it, and resolve() gives a value exactly when all that
\* is needed is in the table, nothing needs itself and every expression can be computed.
THEOREM OrdersAndValues == CadSpec => []TreeResolves
<1>1. CadInv => TreeResolves
  BY WalkedInOrder, ResolvedRight DEF CadInv, TreeResolves
<1> QED
  BY <1>1, CadHolds, PTL
=============================================================================
