---------------------------- MODULE MCGateRouting ----------------------------
(***************************************************************************)
(* One gated unit and its vehicles.  The container w takes one step: x,     *)
(* judged, failed by its clock, or y, answered by the person b, escalated   *)
(* by its clock.  c does the work, b verifies.                              *)
(***************************************************************************)
EXTENDS GateRoutingProps

CONSTANTS b, c, w, x, y, x0, x1, x2, y0, y1, y2

Plain ==
  [gate |-> "none", rungs |-> 0, inconclusive |-> FALSE, verifier |-> NoAgent,
   on_timeout |-> "fail", max_park |-> 0,
   parent |-> NoItem, repairs |-> NoItem, pinned |-> FALSE,
   blocked_by |-> {}, verifies |-> NoItem,
   assigned_agent |-> NoAgent, requires |-> {}]

RoutingRequest ==
  [i \in Items |->
     CASE i = w -> [Plain EXCEPT !.pinned = TRUE, !.requires = Capability]
       [] i = x -> [Plain EXCEPT !.parent = w, !.requires = {"other"},
                                 !.gate = "judged", !.max_park = 1]
       [] i = y -> [Plain EXCEPT !.parent = w, !.requires = {"other"},
                                 !.gate = "human", !.verifier = b, !.max_park = 1,
                                 !.on_timeout = "escalate"]
       [] i \in {x0, x1, x2} -> [Plain EXCEPT !.verifies = x, !.requires = {"verify"}]
       [] i \in {y0, y1, y2} -> [Plain EXCEPT !.verifies = y, !.assigned_agent = b]]

RoutingVehicle ==
  LET Filable(v) == v \in Items
  IN  [i \in Items |-> CASE i = x -> SelectSeq(<<x0, x1, x2>>, Filable)
                         [] i = y -> SelectSeq(<<y0, y1, y2>>, Filable)
                         [] OTHER -> <<>>]

RoutingHeld == [g \in Agents |-> IF g = b THEN {"verify"} ELSE {"other"}]
OwnParty == [g \in Agents |-> g]

\* The judged unit alone, escalated by its clock.
AbandonedRequest ==
  [i \in Items |->
     IF i = x THEN [RoutingRequest[x] EXCEPT !.parent = NoItem, !.on_timeout = "escalate"]
              ELSE RoutingRequest[i]]
=============================================================================
