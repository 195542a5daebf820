----------------------------- MODULE MCRegistry -----------------------------
(***************************************************************************)
(* A small registry: a feed of four rows read two at a time, one pruner,   *)
(* two write-back passes, two syncs of one procedure, two snapshots, two   *)
(* scope leases of two actors, two envelopes of one person carried by two   *)
(* calls, two processes of different releases that open the database, and a *)
(* run with one step that two connections work on and add two more to; and  *)
(* three calls, one of them a publishing one, and two prunes of their log.  *)
(***************************************************************************)
EXTENDS RegistryProps

CONSTANTS r1, p1,                 \* a reader, a pruner
          w1, w2,                 \* write-back passes
          x1, x2, j1, j2,         \* artifacts, digest jobs
          a1, a2, src, lib, ui, dot, up, none, \* actors, path segments
          e1, e2, k1, c1, c2,     \* envelopes, a key, carriers
          a0, y1, y2,             \* a procedure, syncs
          o1, o2, g1, g2,         \* processes that start, legacy procedures
          run, s1, s2, s3, h1, h2 \* a run and its steps, connections

FeedEvents ==
  {[kind |-> "gate", at |-> 1, by |-> "hub", origin |-> TRUE],
   [kind |-> "memory", at |-> 2, by |-> "hub", origin |-> FALSE]}

SnapUri == 1 :> x1 @@ 2 :> x2

PathSets ==
  {{<<src, none, lib>>}, {<<src, up, lib>>}, {<<dot, src, ui>>, <<src, lib, ui>>}}

EnvKey      == [e \in {e1, e2} |-> k1]
EnvNonce    == [e \in {e1, e2} |-> e]
EnvApproves == [e \in {e1, e2} |-> e = e1]

Releases == o1 :> 4 @@ o2 :> 3

StepsOf == [r \in Items |-> IF r = run THEN none ELSE run]

Symmetry == Permutations({c1, c2}) \cup Permutations({w1, w2})
=============================================================================
