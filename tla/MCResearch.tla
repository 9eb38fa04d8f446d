----------------------------- MODULE MCResearch -----------------------------
(***************************************************************************)
(* Small instances of ResearchLayer for TLC: two runs of one of three      *)
(* graphs of two nodes on a pool of one worker and two control calls; an   *)
(* approval of two requests; and a promotion with one approval.            *)
(***************************************************************************)
EXTENDS ResearchLayer

CONSTANTS r1, r2, a, b, c

TwoRuns == {r1, r2}
OneRun == {r1}
MCIds == {a, b, c}

Graph(edges, declared) == [nodes |-> {a, b}, edges |-> edges, declared |-> declared]
Needs(n, deps) == [i \in MCIds |-> IF i = n THEN deps ELSE {}]

\* An edge a -> b, and a constructor that was given a dependency no edge orders.
Chain == Graph({<<a, b>>}, Needs(a, {b}))
\* add_edge(a, c) raised a KeyError, for c is no node, and had appended the edge by then.
Dangling == Graph({<<a, c>>}, Needs(b, {}))
\* What create_training_experiment() makes: dependencies of the constructors, and no edge.
Factory == Graph({}, Needs(b, {a}))
MCGraphs == {Chain, Dangling, Factory}
FactoryGraphs == {Factory}
MCRequired == {1, 2}
OneRequired == {1}

\* The graph matters to the runner only.
MCInit == ResearchInit /\ (driven = "runner" \/ graph = Factory)
MCSpec == MCInit /\ [][ResearchNext]_researchVars /\ ResearchFairness

\* "HumanApprovalPipeline with mandatory approval gates": in production there is a
\* request for the stage HUMAN_APPROVAL with the approvals it requires.
ProductionWasApproved ==
  stage = LastStage =>
    \E r \in DOMAIN requests : /\ requests[r].stage = LastStage - 1
                              /\ decided[r]["approve"] >= requests[r].required
=============================================================================
