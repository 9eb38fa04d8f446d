----------------------------- MODULE MCServices -----------------------------
(***************************************************************************)
(* Small instances for TLC of the services around the models.              *)
(***************************************************************************)
EXTENDS ServiceLayer, TLC

CONSTANTS x, y, base, site, old, new, core, geo, ui, alice, bob, sheets, home, work, rule

MCThreads == {x, y}

MCSources == <<base, site>>
MCSettings == {old, new}
MCEnvSettings == {Absent, new}

MCPlugins == {core, geo, ui}
Needing(c, g, u) == [z \in MCPlugins |-> [deps |-> ((core :> c) @@ (geo :> g) @@ (ui :> u))[z],
                                         suits |-> TRUE]]
Chain == Needing({}, {core}, {geo})
\* A chain, a chain whose first plugin does not suit, and a circle.
MCManifests == {Chain, [Chain EXCEPT ![core].suits = FALSE], Needing({ui}, {core}, {geo})}

MCRules == {rule}

MCPeople == {alice, bob}
MCAmounts == {0 - 1, 2}
MCEmails == {home, work}
MCDatasets == {sheets}
OnePublisher == {x}

MCObjects == {old, new}

\* Nothing tells these from each other.
MCSymmetry == Permutations(MCPeople) \cup Permutations(MCEmails)

\* The part that is driven begins in each of its first states, the others in one.
MCInit ==
  /\ ServicesInit
  /\ driven # "config" => file = [f \in Layers |-> old] /\ environ = Absent
  /\ driven # "plugins" => manifests = Chain

MCSpec == MCInit /\ [][ServicesNext]_servicesVars
=============================================================================
