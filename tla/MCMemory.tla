------------------------------ MODULE MCMemory ------------------------------
(***************************************************************************)
(* A small memory: an item of this hub and a replica, a person at the root *)
(* and an agent in a space below it.                                       *)
(***************************************************************************)
EXTENDS MemoryProps

CONSTANTS ann, bot, acme, public, team, w1, w2

AcmeGrants == acme :> 2
Holders ==
  [a \in {ann, bot} |-> IF a = ann THEN [grants |-> acme :> 1, space |-> Root]
                        ELSE [grants |-> acme :> 1, space |-> <<team>>]]
OneLabel  == {[owner |-> acme, level |-> 1]}
HighLabel == {[owner |-> acme, level |-> 2]}
Symmetry  == Permutations({w1, w2})
Places    == {Root, <<team>>}
=============================================================================
