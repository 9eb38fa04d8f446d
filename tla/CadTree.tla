------------------------------- MODULE CadTree -------------------------------
(***************************************************************************)
(* What a CAD part is computed from: the features of its FeatureTree       *)
(* (cad/features/base.py), which name other features, and the parameters   *)
(* of its ParameterTable (cad/parametric/parameters.py), whose expressions *)
(* name other parameters.  Both are edited freely; execution_order() and   *)
(* resolve() walk what is there, whatever the edits left behind.  A walk   *)
(* is one step per call that it makes of itself; a part has one owner, who *)
(* edits nothing in the middle of a walk.  Expressions are arithmetic over *)
(* names and numbers: eval() looks up every name that the text of one      *)
(* holds (an `and', `or' or `if' that passes a name over is left out).     *)
(***************************************************************************)
EXTENDS Integers, Sequences, FiniteSets, Lists

CONSTANTS
  FeatureNames,
  ReferenceLists,  \* what a feature may name
  ParamNames       \* sequence of the names an expression may use, in textual order

Params == {ParamNames[i] : i \in DOMAIN ParamNames}

ASSUME CadAssumption ==
  ReferenceLists \subseteq Seq(FeatureNames) /\ ParamNames \in Seq(Params)

VARIABLES
  authored,   \* order: the names of the features, as they were added
  references, \* for each feature of the tree, what it names
  uses,       \* for each parameter of the table, what its expression names
  \* execution_order():
  walk,       \* "none" since the last edit, "walking", or "done"
  toVisit,    \* the names of the order that are left
  visits,     \* the calls of visit() it is in, the innermost last, with the references left
  visited, result,
  \* resolve():
  asked,      \* the parameter it was first called for; none before
  broken,     \* those that eval() cannot compute from the values there are (1/w with w = 0)
  calls,      \* the calls of resolve() it is in, the innermost last, with the dependencies left
  resolved,   \* ghost: those that gave a value
  answer      \* "none" since the last edit, "running", or what came out: "ok" for a float

treeVars == <<authored, references>>
walkVars == <<walk, toVisit, visits, visited, result>>
callVars == <<asked, broken, calls, resolved, answer>>
cadVars == <<treeVars, uses, walkVars, callVars>>

Without(f, k) == [j \in DOMAIN f \ {k} |-> f[j]]
Put(f, k, v) == [j \in DOMAIN f \cup {k} |-> IF j = k THEN v ELSE f[j]]

CadInit ==
  /\ authored = <<>> /\ references = <<>> /\ uses = <<>>
  /\ walk = "none" /\ toVisit = <<>> /\ visits = <<>> /\ visited = {} /\ result = <<>>
  /\ asked = {} /\ broken = {} /\ calls = <<>> /\ resolved = {} /\ answer = "none"

-----------------------------------------------------------------------------
(* FeatureTree                                                             *)

TreeEdited ==
  /\ walk # "walking"
  /\ walk' = "none" /\ toVisit' = <<>> /\ visits' = <<>> /\ visited' = {} /\ result' = <<>>
  /\ UNCHANGED <<uses, callVars>>

AddFeature ==
  /\ \E f \in FeatureNames \ DOMAIN references, refs \in ReferenceLists :
       /\ references' = Put(references, f, refs)
       /\ authored' = Append(authored, f)
  /\ TreeEdited

\* What names the feature goes on naming it.
RemoveFeature ==
  /\ \E f \in DOMAIN references :
       /\ references' = Without(references, f)
       /\ authored' = Filtered(authored, FeatureNames \ {f})
  /\ TreeEdited

\* execution_order() is called.
BeginOrder ==
  /\ walk = "none" /\ walk' = "walking" /\ toVisit' = authored
  /\ UNCHANGED <<treeVars, uses, visits, visited, result, callVars>>

\* visit(): nothing is done for a name that was visited.
Visit(f, outer) ==
  IF f \in visited THEN visits' = outer /\ UNCHANGED visited
  ELSE visits' = Append(outer, [name |-> f, left |-> references[f]]) /\ visited' = visited \cup {f}

VisitNext ==
  /\ walk = "walking" /\ visits = <<>> /\ toVisit # <<>>
  /\ toVisit' = Tail(toVisit) /\ Visit(Head(toVisit), <<>>)
  /\ UNCHANGED <<treeVars, uses, walk, result, callVars>>

Innermost == visits[Len(visits)]

\* Mutant of VisitReference: the loop ends with the first reference.
VisitReferenceOnly ==
  /\ visits # <<>> /\ Innermost.left # <<>>
  /\ LET r == Head(Innermost.left)
         outer == [visits EXCEPT ![Len(visits)].left = <<>>]
     IN  IF r \in DOMAIN references THEN Visit(r, outer) ELSE visits' = outer /\ UNCHANGED visited
  /\ UNCHANGED <<treeVars, uses, walk, toVisit, result, callVars>>

\* A reference to a feature that is not in the tree is passed over.
VisitReference ==
  /\ visits # <<>> /\ Innermost.left # <<>>
  /\ LET r == Head(Innermost.left)
         outer == [visits EXCEPT ![Len(visits)].left = Tail(@)]
     IN  IF r \in DOMAIN references THEN Visit(r, outer) ELSE visits' = outer /\ UNCHANGED visited
  /\ UNCHANGED <<treeVars, uses, walk, toVisit, result, callVars>>

VisitEnds ==
  /\ visits # <<>> /\ Innermost.left = <<>>
  /\ result' = Append(result, Innermost.name)
  /\ visits' = SubSeq(visits, 1, Len(visits) - 1)
  /\ UNCHANGED <<treeVars, uses, walk, toVisit, visited, callVars>>

OrderReturns ==
  /\ walk = "walking" /\ visits = <<>> /\ toVisit = <<>> /\ walk' = "done"
  /\ UNCHANGED <<treeVars, uses, toVisit, visits, visited, result, callVars>>

WalkNext == BeginOrder \/ VisitNext \/ VisitReference \/ VisitEnds \/ OrderReturns
TreeNext == AddFeature \/ RemoveFeature \/ WalkNext

-----------------------------------------------------------------------------
(* ParameterTable                                                          *)

TableEdited ==
  /\ answer # "running"
  /\ asked' = {} /\ broken' = {} /\ calls' = <<>> /\ resolved' = {} /\ answer' = "none"
  /\ UNCHANGED <<treeVars, walkVars>>

\* The expression of a plain value names nothing.
SetParameter ==
  /\ \E p \in Params, names \in SUBSET Params : uses' = Put(uses, p, names)
  /\ TableEdited

RemoveParameter ==
  /\ \E p \in DOMAIN uses : uses' = Without(uses, p)
  /\ TableEdited

\* dependencies(): the names of an expression that are in the table, but for its own.
Dependencies(p) == Filtered(ParamNames, (uses[p] \cap DOMAIN uses) \ {p})

Calling(p) == \E i \in DOMAIN calls : calls[i].name = p

\* resolve() is called: a parameter that is missing or being resolved ends it all.
Resolve(p, outer) ==
  CASE p \notin DOMAIN uses -> calls' = <<>> /\ answer' = "KeyError"
    [] p \in DOMAIN uses /\ Calling(p) -> calls' = <<>> /\ answer' = "circular"
    [] OTHER -> calls' = Append(outer, [name |-> p, left |-> Dependencies(p)]) /\ answer' = "running"

\* The values decide which expressions fail: nothing changes them during a walk.
BeginResolve ==
  /\ answer = "none" /\ broken' \in SUBSET DOMAIN uses
  /\ \E p \in Params : asked' = {p} /\ Resolve(p, <<>>)
  /\ UNCHANGED <<treeVars, walkVars, uses, resolved>>

Current == calls[Len(calls)]

ResolveDependency ==
  /\ calls # <<>> /\ Current.left # <<>>
  /\ Resolve(Head(Current.left), [calls EXCEPT ![Len(calls)].left = Tail(@)])
  /\ UNCHANGED <<treeVars, walkVars, uses, asked, broken, resolved>>

Computable(p) == uses[p] \subseteq DOMAIN uses \ {p} /\ p \notin broken

\* eval() knows the dependencies only: any other name is a NameError, and so is the `inf' or
\* `nan' that stands for a value; it passes through, as an overflow does.  A division by
\* zero or a malformed text is caught and raised as a ValueError.
Evaluate ==
  /\ calls # <<>> /\ Current.left = <<>>
  /\ IF Computable(Current.name)
     THEN /\ calls' = SubSeq(calls, 1, Len(calls) - 1) /\ resolved' = resolved \cup {Current.name}
          /\ answer' = IF Len(calls) = 1 THEN "ok" ELSE "running"
     ELSE /\ calls' = <<>> /\ UNCHANGED resolved
          /\ \/ answer' = "ValueError" /\ Current.name \in broken
             \/ answer' = "uncaught"
  /\ UNCHANGED <<treeVars, walkVars, uses, asked, broken>>

ResolveNext == BeginResolve \/ ResolveDependency \/ Evaluate
TableNext == SetParameter \/ RemoveParameter \/ ResolveNext

CadNext == TreeNext \/ TableNext
CadSpec == CadInit /\ [][CadNext]_cadVars

-----------------------------------------------------------------------------
(* Properties                                                              *)

CadTypeOK ==
  /\ authored \in Seq(FeatureNames) /\ Len(authored) = Cardinality(DOMAIN references)
  /\ DOMAIN references \subseteq FeatureNames /\ DOMAIN uses \subseteq Params
  /\ broken \subseteq DOMAIN uses
  /\ Len(visits) <= Cardinality(DOMAIN references) /\ Len(calls) <= Cardinality(DOMAIN uses)

Named == [f \in DOMAIN references |-> {references[f][i] : i \in DOMAIN references[f]}]

\* What is reached from n along names, n itself only around a circle: the members of every
\* set that has what n names, and what its own members name.
Reached(all, f, n) ==
  {m \in all : \A S \in SUBSET all :
     f[n] \subseteq S /\ (\A k \in S \cap DOMAIN f : f[k] \subseteq S) => m \in S}

\* execution_order() gives each feature once, after every feature of the tree that it
\* names, but for those from which a circle of names leads back to it.
ParentsFirst ==
  walk = "done" =>
    /\ {result[i] : i \in DOMAIN result} = DOMAIN references
    /\ \A i, j \in DOMAIN result : result[i] = result[j] => i = j
    /\ \A i \in DOMAIN result : \A g \in Named[result[i]] \cap DOMAIN references :
         g \in {result[j] : j \in 1 .. (i - 1)} \/ result[i] \in Reached(FeatureNames, Named, g)

Below == asked \cup UNION {Reached(Params, uses, p) : p \in asked \cap DOMAIN uses}
ReachesItself(q) == q \in Reached(Params, uses, q)

\* resolve() gives a value exactly when everything it reaches is in the table, nothing there
\* reaches itself and every expression there can be computed; it speaks of a circle only when
\* there is one of two names or more, and of an expression only when one fails.
ParametersResolve ==
  /\ answer = "KeyError" => asked \cap DOMAIN uses = {}
  /\ answer \notin {"none", "running"} =>
       (answer = "ok" <=>
          Below \subseteq DOMAIN uses /\ \A q \in Below : ~ReachesItself(q) /\ q \notin broken)
  /\ answer = "ValueError" => Below \cap broken # {}
  /\ answer = "circular" =>
       \E q, r \in Below \cap DOMAIN uses :
         q # r /\ q \in Reached(Params, uses, r) /\ r \in Reached(Params, uses, q)

\* Both walks end with what their docstrings promise, after any edits.
TreeResolves == ParentsFirst /\ ParametersResolve
=============================================================================
