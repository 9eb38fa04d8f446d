------------------------------ MODULE MCDesign ------------------------------
(***************************************************************************)
(* Small instances for TLC of what serves and assembles a design.          *)
(***************************************************************************)
EXTENDS DesignLayer

CONSTANTS r1, r2, r3, c1, c2, a, b, x, y, s1, s2, s3, p1, p2, p3

\* One batch fills, one request is left over, and one can be late.
MCRequests == {r1, r2, r3}
MCClosers == {c1, c2}

MCTokens == {a, b, Eos}
MCStartIds == {<<Bos>>, <<a>>, <<Bos, b>>}

MCWriters == {x, y}

\* The third stage is one that a late register_stage() brings in.
MCKnown == {s1, s2, s3}
MCDefaults == <<s1, s2>>

\* A stage that needs itself is left to register_stage().
MCConfigs ==
  {c \in [Known -> Configs] : c[s3] = Unregistered /\ \A s \in Known : s \notin c[s].deps}

MCFeatures == {s1, s2, s3}
\* Two are enough for every circle and every way around.
MCReferences == {s \in SetToAllKPermutations(MCFeatures) : Len(s) <= 2}
MCParams == <<p1, p2, p3>>

\* The part that is driven begins in each of its first states, the others in one.
MCInit ==
  /\ driven \in Parts
  /\ IF driven = "decoding" THEN TRUE ELSE method = "full" /\ target = [i \in 1..MaxLen |-> a]
  /\ IF driven = "workflow" THEN config \in MCConfigs ELSE config \in [Known -> {Unregistered}]
  /\ DesignInit

MCSpec == MCInit /\ [][DesignNext]_designVars /\ DesignFairness

\* "Stop the worker thread; pending futures are resolved with an error": once the
\* worker is gone and every shutdown() has returned, no future is left pending.
ShutdownResolvesPending ==
  worker = "exited" /\ (\A c \in Closers : closer[c] = "returned")
    => \A r \in Requests : future[r] # "pending"
=============================================================================
