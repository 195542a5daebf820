---------------------------- MODULE MCProcedures ----------------------------
(***************************************************************************)
(* A small library: two people and an agent, one procedure of two steps    *)
(* that teaches three lessons, and a run of four steps, one of them a      *)
(* nested procedure.                                                       *)
(***************************************************************************)
EXTENDS ProceduresProps, TLC

CONSTANTS p1, p2, s1, s2, bad1, bad2, good, run, upstream

\* With and without a lesson typed by hand.
Written   == {{s1}, {s1, s2, bad1}}
\* The second procedure is there to be opened.
Numbered  == p1 :> 4 @@ p2 :> 1
ThreeOrBoth == {{<<p1, 1>>, <<p1, 2>>, <<p1, 3>>}, {<<p1, 1>>, <<p2, 1>>}}
Two       == {<<p1, 1>>, <<p1, 2>>}
\* On Postgres one author at work makes another's read come back empty.
Stores    == [q \in AllParts |-> IF q = "learning" THEN {"postgres"} ELSE {"sqlite"}]
Postgres  == [q \in AllParts |-> {"postgres"}]
LearnedAt == [l \in Lessons |-> IF l = good THEN s2 ELSE s1]
\* 1, then 2 that uses an inner procedure 3 and 4, and 5 beside them.
Places    == 1 :> run @@ 2 :> run @@ 3 :> 2 @@ 4 :> 2 @@ 5 :> run
Order     == 1 :> {} @@ 2 :> {1} @@ 3 :> {} @@ 4 :> {3} @@ 5 :> {}
=============================================================================
