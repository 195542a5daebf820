---------------------------- MODULE MCWorkQueue ----------------------------
(***************************************************************************)
(* Instances of the work queue for TLC: what each small world files.       *)
(***************************************************************************)
EXTENDS WorkQueueProps, TLC

CONSTANTS a, b, c,      \* actors
          v, w, x, y, z \* items

\* An ungated item nobody is assigned to, outside any tree.
Plain ==
  [gate |-> "none", rungs |-> 0, inconclusive |-> FALSE, verifier |-> NoAgent,
   on_timeout |-> "fail", max_park |-> 0,
   parent |-> NoItem, repairs |-> NoItem, pinned |-> FALSE,
   blocked_by |-> {}, verifies |-> NoItem,
   assigned_agent |-> NoAgent, requires |-> {}]

NothingHeld == [g \in Agents |-> {}]
OwnParty == [g \in Agents |-> g]

\* Agents of whom nothing sets one apart.
AnyAgent == Permutations(Agents)

-----------------------------------------------------------------------------
(* Gates: a container w nobody can claim, that takes one step - one of a     *)
(* judged, a human or a staged deterministic unit (MaxChildren = 1).  c does *)
(* the first two, b the last; c answers to a, who is a person, and           *)
(* whom the vehicle v asks for the human unit's verdict - a cannot take it   *)
(* up (MCGateRouting has vehicles at work).                                  *)

GateRequest ==
  [i \in Items |->
     IF i = w THEN [Plain EXCEPT !.pinned = TRUE, !.requires = {"other"},
                                 !.assigned_agent = a]
     ELSE IF i = v THEN [Plain EXCEPT !.verifies = y, !.assigned_agent = a,
                                      !.requires = {"other"}]
     ELSE LET step == [Plain EXCEPT !.parent = w, !.requires = {"other"}]
          IN  CASE i = x -> [step EXCEPT !.gate = "judged", !.assigned_agent = c]
                [] i = y -> [step EXCEPT !.gate = "human", !.verifier = a, !.assigned_agent = c]
                [] i = z -> [step EXCEPT !.gate = "deterministic", !.assigned_agent = b,
                                         !.rungs = 2, !.inconclusive = TRUE]]

WorkersHeld == [g \in Agents |-> IF g = a THEN {"verify"} ELSE {"verify", "other"}]
PartyOfA == [g \in Agents |-> IF g = c THEN a ELSE g]

-----------------------------------------------------------------------------
(* A tree: run w holds the nested step x and the step z, which waits for x;  *)
(* x holds y; v is a repair beside y.  Only w cannot be claimed.             *)

TreeRequest ==
  [i \in Items |->
     CASE i = w -> [Plain EXCEPT !.pinned = TRUE, !.requires = {"other"}]
       [] i = x -> [Plain EXCEPT !.pinned = TRUE, !.parent = w]
       [] i = y -> [Plain EXCEPT !.parent = x]
       [] i = z -> [Plain EXCEPT !.parent = w, !.blocked_by = {x}]
       [] i = v -> [Plain EXCEPT !.parent = x, !.repairs = y]]
=============================================================================
