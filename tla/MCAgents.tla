------------------------------ MODULE MCAgents ------------------------------
(***************************************************************************)
(* Small instances of AgentLayer for TLC: graphs of three tasks, two       *)
(* threads that submit, run and set, a region of one entry.                *)
(***************************************************************************)
EXTENDS AgentLayer

CONSTANTS j1, j2, x, y, p, q

MCTasks == {1, 2, 3}
MCPriorities == {0, 5}
MCDeadlines == {0}
MCJobs == {j1, j2}
MCRunners == {x, y}
MCKeys == {p, q}
MCAgents == {x, y}
=============================================================================
