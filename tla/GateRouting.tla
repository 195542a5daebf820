----------------------------- MODULE GateRouting -----------------------------
(***************************************************************************)
(* The passes of agentco/verifiers.py that keep a gated item moving: the   *)
(* routing of open gates to vehicles, the park clocks, and the quarantine  *)
(* of abandoned gates, run one after another by a pulse (pulse.py).        *)
(*                                                                         *)
(* A pass reads the whole queue once and then makes one write per item it  *)
(* decided on.  Between the read and the writes the queue moves: `beat` is *)
(* what the running pass still has to do, decided on what it read.  A      *)
(* crash forgets it.  `marks` are the two records a pass leaves on an item *)
(* that nobody answered.                                                   *)
(***************************************************************************)
EXTENDS WorkQueue

CONSTANTS Vehicle,  \* [Items -> Seq(Items)]: an item's vehicle per generation
          Grace     \* how long an escalated gate waits before quarantine

Vehicles == {v \in Items : Request[v].verifies # NoItem}

ASSUME RoutingConstantsOK ==
  /\ Grace \in Nat
  /\ Vehicle \in [Items -> Seq(Vehicles)]
  /\ \A i \in Items : \A n \in DOMAIN Vehicle[i] : Request[Vehicle[i][n]].verifies = i
  \* vehicle_key: another failure, another key.
  /\ \A i \in Items : \A m, n \in DOMAIN Vehicle[i] : Vehicle[i][m] = Vehicle[i][n] => m = n
  /\ \A i \in Items : Gate(i) \in {"judged", "human"} => Len(Vehicle[i]) > MaxFailures
  /\ \A v \in Vehicles : ~IsGated(v) /\ ~Request[v].pinned

VARIABLES marks,  \* [Items -> Marks]
          beat    \* what the running pass has left to do

rvars == <<row, seen, marks, beat>>

Marks == [escalated: BOOLEAN, grace: 0..Grace, quarantined: BOOLEAN]
Unmarked == [escalated |-> FALSE, grace |-> 0, quarantined |-> FALSE]

\* file, retire: vehicles; resolve, quarantine: items; next: the pass to come,
\* none after a crash.
Passes == {"route", "park", "quarantine", "none"}
Before(pass) ==
  [next |-> pass, file |-> {}, retire |-> {}, resolve |-> {}, quarantine |-> {}]

\* A beat begins with the routing pass.
BeatDue == beat \in {Before("route"), Before("none")}

RoutingTypeOK ==
  /\ TypeOK
  /\ marks \in [Items -> Marks]
  /\ beat \in [next: Passes, file: SUBSET Vehicles, retire: SUBSET Vehicles,
               resolve: SUBSET Items, quarantine: SUBSET Items]

-----------------------------------------------------------------------------

\* needs_a_verifier: the gate waits for an answer, or for another one after a
\* failure whose record asks for it.
Owed(i) ==
  /\ Gate(i) \in {"judged", "human"}
  /\ \/ row[i].status = "awaiting_verify"
     \/ row[i].status = "verify_failed" /\ row[i].retry \in {"fix", "escalate"}

\* Mutant: one vehicle per item, whatever its failures.
OneVehicle(i) == Vehicle[i][1]

\* The vehicle under vehicle_key: one per item and count of failures.
CurrentVehicle(i) == Vehicle[i][row[i].verify_failures + 1]

Live(v) == row[v].status \in {"pending", "in_progress"}

Moot(v) ==
  LET i == Request[v].verifies
  IN  ~Owed(i) \/ v # CurrentVehicle(i)

\* Mutant: nothing is withdrawn.
RouteScanFilingOnly ==
  /\ BeatDue
  /\ beat' = [Before("park") EXCEPT !.file =
                {v \in {CurrentVehicle(i) : i \in {j \in Items : Owed(j)}} : ~Filed(v)}]
  /\ UNCHANGED <<row, seen, marks>>

\* route_open_gates reads: what has no vehicle gets one, what is moot goes.
RouteScan ==
  /\ BeatDue
  /\ beat' = [Before("park") EXCEPT !.file = {v \in {CurrentVehicle(i) : i \in {j \in Items : Owed(j)}} :
                                      ~Filed(v)},
                          !.retire = {v \in Vehicles : Live(v) /\ Moot(v)}]
  /\ UNCHANGED <<row, seen, marks>>

FileVehicle(v) ==
  /\ v \in beat.file
  /\ Create(v)
  /\ beat' = [beat EXCEPT !.file = @ \ {v}]
  /\ UNCHANGED marks

\* A vehicle somebody holds, or that has settled meanwhile, is skipped.
RetireVehicle(v) ==
  /\ beat.file = {} /\ v \in beat.retire
  /\ beat' = [beat EXCEPT !.retire = @ \ {v}]
  /\ IF Live(v) /\ ~LeaseActive(row[v]) THEN Retire(v) ELSE UNCHANGED <<row, seen>>
  /\ UNCHANGED marks

\* sweep_park_clocks reads: the parked gates whose clock has run out, less the
\* ones already handed over.
ParkScan ==
  /\ beat = Before("park")
  /\ beat' = [Before("quarantine") EXCEPT !.resolve =
                {i \in Items : /\ row[i].status = "awaiting_verify"
                               /\ row[i].parked = 0
                               /\ ~(Request[i].on_timeout = "escalate" /\ marks[i].escalated)}]
  /\ UNCHANGED <<row, seen, marks>>

\* Escalating annotates the item whatever became of it since; any other
\* default is taken only on an item that is still parked.
ResolveItem(i) ==
  /\ i \in beat.resolve
  /\ beat' = [beat EXCEPT !.resolve = @ \ {i}]
  /\ IF Request[i].on_timeout = "escalate"
       THEN /\ marks' = [marks EXCEPT ![i].escalated = TRUE, ![i].grace = Grace]
            /\ UNCHANGED <<row, seen>>
       ELSE /\ IF row[i].status = "awaiting_verify"
                 THEN ResolveByDefault(i, Request[i].on_timeout)
                 ELSE UNCHANGED <<row, seen>>
            /\ UNCHANGED marks

\* Mutant: escalated gates are left to the person they went to.
QuarantineScanFailed ==
  /\ beat = Before("quarantine")
  /\ beat' = [Before("route") EXCEPT !.quarantine =
                {i \in Items \ Vehicles :
                   /\ ~marks[i].quarantined
                   /\ row[i].status = "verify_failed" /\ row[i].parked = 0}]
  /\ UNCHANGED <<row, seen, marks>>

\* sweep_quarantine reads: escalated gates nobody answered, and failed ones
\* whose offer to verify again was not taken up.
QuarantineScan ==
  /\ beat = Before("quarantine")
  /\ beat' = [Before("route") EXCEPT !.quarantine =
                {i \in Items \ Vehicles :
                   /\ ~marks[i].quarantined
                   /\ \/ row[i].status = "awaiting_verify"
                         /\ marks[i].escalated /\ marks[i].grace = 0
                      \/ row[i].status = "verify_failed" /\ row[i].parked = 0}]
  /\ UNCHANGED <<row, seen, marks>>

\* The mark is written whatever became of the item since; then the queue is
\* read again and the item's vehicles go.
QuarantineItem(i) ==
  /\ i \in beat.quarantine /\ beat.retire = {}
  /\ marks' = [marks EXCEPT ![i].quarantined = TRUE]
  /\ beat' = [beat EXCEPT !.quarantine = @ \ {i},
                          !.retire = {v \in Vehicles : Request[v].verifies = i /\ Live(v)}]
  /\ UNCHANGED <<row, seen>>

Crash ==
  /\ beat' = Before("none")
  /\ UNCHANGED <<row, seen, marks>>

-----------------------------------------------------------------------------
(* What the queue does meanwhile.                                          *)

\* A verdict clears the marks of a gate nobody had answered.
Answered(i) ==
  /\ Verdict(i)
  /\ marks' = [marks EXCEPT ![i] = Unmarked]
  /\ UNCHANGED beat

Pass ==
  /\ Tick
  /\ marks' = [i \in Items |-> [marks[i] EXCEPT !.grace = Down(@)]]
  /\ UNCHANGED beat

QueueStep == (WorkNext \/ \E i \in Items : Reap(i)) /\ UNCHANGED <<marks, beat>>

RoutingInit ==
  /\ Init
  /\ marks = [i \in Items |-> Unmarked]
  /\ beat = Before("route")

BeatStep ==
  \/ RouteScan \/ ParkScan \/ QuarantineScan
  \/ \E v \in Vehicles : FileVehicle(v) \/ RetireVehicle(v)
  \/ \E i \in Items : ResolveItem(i) \/ QuarantineItem(i)

RoutingNext ==
  \/ BeatStep \/ Crash
  \/ \E i \in Items : Answered(i)
  \/ QueueStep \/ Pass

RoutingSpec == RoutingInit /\ [][RoutingNext]_rvars
=============================================================================
