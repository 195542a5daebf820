-------------------------- MODULE GateRoutingProps --------------------------
(***************************************************************************)
(* What must hold of the routing of open gates.                            *)
(***************************************************************************)
EXTENDS GateRouting

\* Once the item's present vehicle is filed it stays on offer, or in
\* somebody's hands, until the gate is answered: neither the holder of the
\* vehicle nor a pass that read the queue earlier can close it under the gate
\* - unless the gate was put in quarantine (report_result's refusal, retire).
\* Of a ladder it is not true: a rung that passes takes the gate out of
\* quarantine, and its vehicle, closed under the same key, stays closed.
OfferStands ==
  \A i \in Items :
    /\ Owed(i) /\ Request[i].rungs = 0
    /\ Filed(CurrentVehicle(i)) /\ ~marks[i].quarantined
    => Live(CurrentVehicle(i))

-----------------------------------------------------------------------------
(* Liveness.  Time passes and the pulse comes round: every beat runs the    *)
(* reaper and all three passes, and carries on with a pass it began.  It    *)
(* may crash, but not for ever.                                            *)

RoutingFairness ==
  /\ WF_rvars(Pass)
  /\ \A i \in Items : WF_rvars(Reap(i) /\ UNCHANGED <<marks, beat>>)
  /\ WF_rvars(BeatStep)

FairRoutingSpec == RoutingSpec /\ RoutingFairness

CrashesEnd == <>[][~Crash]_rvars

\* A gate that is owed an answer is offered to a verifier, or answered first;
\* and a vehicle whose gate is answered or has moved on does not stay on offer
\* (route_open_gates on every beat, whatever crashed in the last one).
OffersFollowGates ==
  CrashesEnd =>
    /\ \A i \in Items, n \in 0..MaxFailures :
         (Owed(i) /\ row[i].verify_failures = n)
           ~> (~Owed(i) \/ row[i].verify_failures # n \/ Filed(Vehicle[i][n + 1]))
    /\ \A v \in Vehicles : (row[v].status = "pending" /\ Moot(v)) ~> row[v].status # "pending"

\* Gated work terminates without anybody's help: a parked gate is resolved by
\* its default, or lands on the list of abandoned ones.
ParkedEnds ==
  CrashesEnd =>
    \A i \in Items :
      row[i].status = "awaiting_verify"
        ~> (row[i].status # "awaiting_verify" \/ marks[i].quarantined)
=============================================================================
