------------------------------ MODULE MCModels ------------------------------
(***************************************************************************)
(* Small instances of ModelLayer for TLC: three versions and three events  *)
(* of a registry, two paths to load, two families of two ids, three        *)
(* checkpoints, and tasks of which one shares its parameters with both     *)
(* others.                                                                 *)
(***************************************************************************)
EXTENDS ModelLayer

CONSTANTS x, y, old, new, sketch, solid, line, face, c1, c2, c3, best_pt, w1, w2

MCTags == {"", "rc", "none"}
MCExplicit == {[major |-> 2, tag |-> "rc"], [major |-> 3, tag |-> ""]}
MCLabels == {"stable"}
OneEnvironment == {"production"}
TwoEnvironments == {"production", "staging"}

MCThreads == {x, y}
MCPaths == {old, new}

\* Two families of two ids; another layout takes one from the first family.
Layout(a, b) == (sketch :> [start |-> 0, capacity |-> a]) @@ (solid :> [start |-> a, capacity |-> b])
MCFamilies == {sketch, solid}
MCTokens == {line, face, new}
MCDefaultLayout == Layout(2, 2)
MCLayouts == {Layout(2, 2), Layout(1, 2)}
MCDefaults == line :> [family |-> sketch, slot |-> 0]
MCGuess == (line :> sketch) @@ (new :> sketch) @@ (face :> solid)

MCCheckpoints == {c1, c2, c3}
MCLosses == {1, 2}

\* Two tasks of their own, and one that shares both parameters.
MCParams == {w1, w2}
MCAdapters == (old :> {w1}) @@ (new :> {w2}) @@ (line :> {w1, w2})

\* "Roll back an environment to its previous deployment": after a promotion, a
\* rollback returns to what the environment ran before it.
RollsBackToPrevious ==
  [][\A e \in Environments :
       RollsBack(e) /\ LastOne(EventsOf(mem, e)) \subseteq Promotions(mem, e)
         => mem'.alias[e] \in BeforeLast(e)]_vars
=============================================================================
