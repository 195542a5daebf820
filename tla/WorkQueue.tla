------------------------------ MODULE WorkQueue ------------------------------
(***************************************************************************)
(* The work queue of agentco/work.py: filing, the fenced lease protocol,   *)
(* gates and their answers, decomposition and the closing of run           *)
(* containers, and adjudication.                                           *)
(*                                                                         *)
(* Every write goes through Queue._mutate (or create), which holds the     *)
(* store lock from the read to the atomic replace of the file: one write   *)
(* is one action.  What the code reads BEFORE taking the lock and uses     *)
(* under it is a step of its own (ClaimRead).  Callers are not trusted:    *)
(* any agent may send any call, with any attempt number, any number of     *)
(* times and in any order, which covers lost, late and repeated messages.  *)
(*                                                                         *)
(* Time is relative.  `left` is what remains of a lease, `age` how long it *)
(* has been held (saturating at LeaseMaxAge) and `parked` what remains of  *)
(* the gate's park time; Tick moves all of them by one unit.               *)
(***************************************************************************)
EXTENDS Integers, Sequences, FiniteSets

CONSTANTS
  Items,          \* the create requests; an item's identity is its natural key
  NoItem,         \* "no item"
  Agents,         \* authenticated actors
  NoAgent,        \* "nobody"
  Request,        \* [Items -> Requests]: what each create carries
  Held,           \* [Agents -> SUBSET Capability]: bound capabilities
  Humans,         \* declared humans
  Adjudicators,   \* declared adjudicators
  Party,          \* [Agents -> who answers for the actor]
  TTLs,           \* lease lengths a caller may ask for
  LeaseMaxAge,    \* a lease is not renewed past this age
  MaxChildren,    \* children one parent may hold
  MaxDepth,       \* how far below the root an item may sit
  ClaimsKept,     \* how many claims a row remembers
  MaxAttempt,     \* model bound: no claim past this fence
  MaxFailures     \* model bound: no further failing answer past this count

Capability == {"verify", "other"}
GateKinds == {"none", "deterministic", "judged", "human"}
Defaults == {"pass", "proceed_on_default", "fail", "escalate"}

\* gate .. max_park: the gate; pinned: the row carries a sop_ref.
Requests ==
  [gate: GateKinds, rungs: Nat, inconclusive: BOOLEAN,
   verifier: Agents \cup {NoAgent}, on_timeout: Defaults, max_park: Nat,
   parent: Items \cup {NoItem}, repairs: Items \cup {NoItem}, pinned: BOOLEAN,
   blocked_by: SUBSET Items, verifies: Items \cup {NoItem},
   assigned_agent: Agents \cup {NoAgent}, requires: SUBSET Capability]

ASSUME ConstantsOK ==
  /\ NoAgent \notin Agents /\ NoItem \notin Items
  /\ Request \in [Items -> Requests]
  /\ Held \in [Agents -> SUBSET Capability]
  /\ TTLs \subseteq Nat \ {0}
  /\ LeaseMaxAge \in Nat \ {0}
  /\ MaxChildren \in Nat /\ MaxDepth \in Nat
  /\ ClaimsKept \in Nat \ {0}
  /\ MaxAttempt \in Nat /\ MaxFailures \in Nat

VARIABLES row,   \* [Items -> Row]: the store
          seen   \* [Agents -> Read]: what a claimant read before the lock

vars == <<row, seen>>

Terminal == {"done", "failed"}
Settled == Terminal \cup {"awaiting_verify", "verify_failed"}
Status == Settled \cup {"unfiled", "pending", "in_progress"}

Outcomes == {"pass", "fail", "cannot_evaluate"}
Evidence == [outcome: Outcomes \cup {"none"}, by: Agents \cup {NoAgent}]
NoEvidence == [outcome |-> "none", by |-> NoAgent]

\* One row.  From `claims` on, the fields are keys of its metadata.
Row ==
  [status: Status, blocked_by: SUBSET Items,
   leased_by: Agents \cup {NoAgent}, lease_attempt: Nat, left: Nat, age: Nat,
   verify_failures: Nat, attestation: Evidence,
   claims: Seq([agent: Agents, attempt: Nat]),
   lease_report: [by: Agents \cup {NoAgent}, attempt: Nat],
   stages: SUBSET [stage: Nat, passed: BOOLEAN, generation: Nat],
   rerun: BOOLEAN, retry: {"none", "fix", "escalate", "stop", "re-run"},
   resolution: Defaults \cup {"none"},
   adjudication: Agents \cup {NoAgent},
   parked: Nat]

NewRow ==
  [status |-> "unfiled", blocked_by |-> {},
   leased_by |-> NoAgent, lease_attempt |-> 0, left |-> 0, age |-> 0,
   verify_failures |-> 0, attestation |-> NoEvidence,
   claims |-> <<>>, lease_report |-> [by |-> NoAgent, attempt |-> 0],
   stages |-> {}, rerun |-> FALSE, retry |-> "none",
   resolution |-> "none",
   adjudication |-> NoAgent,
   parked |-> 0]

Read == [item: Items \cup {NoItem}, done: SUBSET Items]
NoRead == [item |-> NoItem, done |-> {}]

TypeOK ==
  /\ row \in [Items -> Row]
  /\ seen \in [Agents -> Read]

-----------------------------------------------------------------------------
(* Reading the store.                                                      *)

Filed(i) == row[i].status # "unfiled"
Gate(i) == Request[i].gate
IsGated(i) == Gate(i) # "none"

\* releases_blockers: DONE only.  Mutant: any settled item.
ReleasesWhenSettled(status) == status \in Settled
ReleasesBlockers(status) == status = "done"

DoneIds == {i \in Items : ReleasesBlockers(row[i].status)}

LeaseActive(r) == r.leased_by # NoAgent /\ r.left > 0
RerunPending(r) == r.status = "verify_failed" /\ r.rerun

\* A repair is not a child: it sits beside the unit it repairs.
IsChild(i) == Request[i].parent # NoItem /\ Request[i].repairs = NoItem
Kids(rows, p) ==
  {k \in Items : IsChild(k) /\ Request[k].parent = p /\ rows[k].status # "unfiled"}

\* The last `keep` entries of a list, plus one more.
Remember(list, entry, keep) ==
  LET longer == Append(list, entry)
  IN  IF Len(longer) > keep THEN Tail(longer) ELSE longer

\* Everyone the plane recorded as having executed the item.
Executors(i) ==
  {row[i].claims[n].agent : n \in DOMAIN row[i].claims}
    \cup ({row[i].leased_by, row[i].lease_report.by} \ {NoAgent})
    \cup (IF Gate(i) = "deterministic" THEN {row[i].attestation.by} \ {NoAgent} ELSE {})

-----------------------------------------------------------------------------
(* Closing run containers.                                                 *)

\* A pinned row that nobody holds and that has steps.
OpenContainers(rows) ==
  {c \in Items : /\ Request[c].pinned
                 /\ rows[c].status = "pending"
                 /\ Kids(rows, c) # {}}

\* Only DONE closes a container.
StepIsOver(rows, k) == rows[k].status = "done"

\* The containers whose steps are all done or closing too, bottom-up: the
\* least set with that closure.
FinishedContainers(rows) ==
  LET open == OpenContainers(rows)
      Covers(S) == \A c \in open :
                      (\A k \in Kids(rows, c) : StepIsOver(rows, k) \/ k \in S)
                        => c \in S
  IN  {c \in open : \A S \in SUBSET open : Covers(S) => c \in S}

\* Mutant: one level, without the fixed point.
RunCascadeOneLevel(rows) ==
  [i \in Items |-> IF i \in OpenContainers(rows) /\ \A k \in Kids(rows, i) : StepIsOver(rows, k)
                     THEN [rows[i] EXCEPT !.status = "done"]
                     ELSE rows[i]]

RunCascade(rows) ==
  [i \in Items |-> IF i \in FinishedContainers(rows)
                     THEN [rows[i] EXCEPT !.status = "done"]
                     ELSE rows[i]]

-----------------------------------------------------------------------------
(* Filing.                                                                 *)

\* A human gate may not name the party doing the work.
SelfVerifying(i) ==
  /\ Gate(i) = "human"
  /\ Request[i].assigned_agent # NoAgent
  /\ Request[i].verifier = Request[i].assigned_agent

\* How many ancestors an item has.  Requests form no loop (MC instances).
DepthOf[i \in Items] ==
  IF Request[i].parent = NoItem THEN 0 ELSE 1 + DepthOf[Request[i].parent]

EnforceDecomposition(i) ==
  LET parent == Request[i].parent
      repaired == Request[i].repairs
  IN  /\ repaired # NoItem =>
           /\ Filed(repaired)
           /\ parent # repaired
           /\ parent \in {NoItem, Request[repaired].parent}
      /\ IsChild(i) =>
           /\ Filed(parent)
           /\ row[parent].status # "done"
           /\ DepthOf[i] <= MaxDepth
           /\ Cardinality(Kids(row, parent)) < MaxChildren

FiledRow(i) ==
  [NewRow EXCEPT !.status = "pending", !.blocked_by = Request[i].blocked_by]

Create(i) ==
  /\ ~Filed(i)
  /\ ~SelfVerifying(i)
  /\ EnforceDecomposition(i)
  /\ row' = [j \in Items |->
               CASE j = i -> FiledRow(i)
                 [] IsChild(i) /\ j = Request[i].parent ->
                              [row[j] EXCEPT !.blocked_by = @ \cup {i}]
                 [] OTHER -> row[j]]
  /\ UNCHANGED seen

-----------------------------------------------------------------------------
(* The lease protocol.                                                     *)

\* What a claimant must hold and be; nothing ever changes it, so a claim that
\* fails on it is left out from the start.
Eligible(a, i) ==
  /\ Request[i].requires \subseteq Held[a]
  /\ Request[i].assigned_agent \in {NoAgent, a}

\* claim() reads the finished items before it takes the lock ...
ClaimRead(a, i) ==
  /\ seen[a] = NoRead
  /\ Filed(i) /\ Eligible(a, i)
  /\ seen' = [seen EXCEPT ![a] = [item |-> i, done |-> DoneIds]]
  /\ UNCHANGED row

Claimable(i, done) ==
  /\ row[i].blocked_by \subseteq done
  /\ ~LeaseActive(row[i])
  /\ row[i].status \in {"pending", "in_progress"} \/ RerunPending(row[i])

Claimed(r, a, ttl) ==
  [r EXCEPT !.status = "in_progress", !.leased_by = a, !.lease_attempt = @ + 1,
            !.left = ttl, !.age = 0,
            !.claims = Remember(@, [agent |-> a, attempt |-> r.lease_attempt + 1],
                                ClaimsKept)]

\* ... and compares and swaps under it, with the finished items it read.
Claim(a, ttl) ==
  LET i == seen[a].item
  IN  /\ seen[a] # NoRead
      /\ Claimable(i, seen[a].done)
      /\ row[i].lease_attempt < MaxAttempt
      /\ row' = [row EXCEPT ![i] = Claimed(@, a, ttl)]
      /\ seen' = [seen EXCEPT ![a] = NoRead]

\* A claim that is refused, or whose caller died first, writes nothing.
ClaimDropped(a) ==
  /\ seen[a] # NoRead
  /\ seen' = [seen EXCEPT ![a] = NoRead]
  /\ UNCHANGED row

\* Mutant: renewed without the cap.
RenewUncapped(a, i, n, ttl) ==
  /\ row[i].status = "in_progress"
  /\ row[i].leased_by = a
  /\ row[i].lease_attempt = n
  /\ LeaseActive(row[i])
  /\ row' = [row EXCEPT ![i].left = ttl]
  /\ UNCHANGED seen

\* A renewal moves the expiry and nothing else, and never past the cap.
Renew(a, i, n, ttl) ==
  LET limit == LeaseMaxAge - row[i].age
  IN  /\ row[i].status = "in_progress"
      /\ row[i].leased_by = a
      /\ row[i].lease_attempt = n
      /\ limit > 0
      /\ LeaseActive(row[i])
      /\ row' = [row EXCEPT ![i].left = IF ttl < limit THEN ttl ELSE limit]
      /\ UNCHANGED seen

\* Mutant: a reaped worker's fence still opens.
LapsedSameFence(r) ==
  [r EXCEPT !.status = "pending", !.leased_by = NoAgent, !.left = 0, !.age = 0]

Lapsed(r) ==
  [r EXCEPT !.status = "pending", !.leased_by = NoAgent, !.lease_attempt = @ + 1,
            !.left = 0, !.age = 0]

\* The scan outside the lock only nominates; this is the re-check and write.
Reap(i) ==
  /\ row[i].status = "in_progress"
  /\ ~LeaseActive(row[i])
  /\ row' = [row EXCEPT ![i] = Lapsed(@)]
  /\ UNCHANGED seen

-----------------------------------------------------------------------------
(* Gates.                                                                  *)

\* asop.gates: one fix, then a person, then never again by itself.
RetryDecision(failures) ==
  IF failures = 1 THEN "fix" ELSE IF failures = 2 THEN "escalate" ELSE "stop"

\* The row after one failing answer of its gate.
Failing(i, r) ==
  [r EXCEPT !.status = "verify_failed",
            !.verify_failures = @ + 1,
            !.retry = RetryDecision(r.verify_failures + 1),
            !.parked = Request[i].max_park]

\* Mutant: rungs of earlier generations still count.
FoldRungEver(r, stage, passed) ==
  {s \in r.stages : s.stage # stage}
    \cup {[stage |-> stage, passed |-> passed, generation |-> r.verify_failures]}

\* The rungs climbed, with this one folded in; earlier generations are stale.
FoldRung(r, stage, passed) ==
  {s \in r.stages : s.generation = r.verify_failures /\ s.stage # stage}
    \cup {[stage |-> stage, passed |-> passed, generation |-> r.verify_failures]}

\* Every rung of the ladder present and passing.
Climbed(i, stages) ==
  \A n \in 0..(Request[i].rungs - 1) : \E s \in stages : s.stage = n /\ s.passed

\* How evidence answers the gate of an item.  A check that could not judge the
\* work charges nobody and offers the item for a re-run.
Graded(i, r, by, outcome, stage) ==
  LET staged == Request[i].rungs > 0
      stages == IF staged THEN FoldRung(r, stage, outcome = "pass") ELSE r.stages
      shown == [r EXCEPT !.attestation = [outcome |-> outcome, by |-> by]]
      settled == [shown EXCEPT !.rerun = FALSE, !.stages = stages]
  IN  CASE outcome = "cannot_evaluate" ->
             [shown EXCEPT !.status = "verify_failed", !.rerun = TRUE,
                           !.retry = "re-run", !.parked = Request[i].max_park]
        [] outcome = "pass" ->
             [settled EXCEPT !.status = IF staged /\ ~Climbed(i, stages)
                                          THEN "awaiting_verify" ELSE "done"]
        [] outcome = "fail" -> Failing(i, settled)

\* The evidence a caller can show: a rung is named exactly on a staged gate,
\* and only a deterministic check can fail to evaluate.
Showable(i, outcome, stage) ==
  /\ IF Request[i].rungs = 0 THEN stage = 0 ELSE stage < Request[i].rungs
  /\ outcome = "cannot_evaluate" => Gate(i) = "deterministic" /\ Request[i].inconclusive
  /\ outcome = "fail" => row[i].verify_failures < MaxFailures

\* Mutant: barred only until the first verdict.
VehicleBarredAtFirst(i) ==
  /\ Request[i].verifies # NoItem
  /\ row[Request[i].verifies].status = "awaiting_verify"

\* A routing vehicle may not be reported while its item is owed a verdict.
VehicleBarred(i) ==
  /\ Request[i].verifies # NoItem
  /\ row[Request[i].verifies].status \in {"awaiting_verify", "verify_failed"}

\* Mutant: a judged gate takes the worker's word.
LandedOnWord(i, r, by, outcome, stage) ==
  IF Gate(i) = "human" THEN [r EXCEPT !.status = "awaiting_verify"]
                       ELSE [r EXCEPT !.status = "done"]

\* What a report of a DONE lands as; a park starts the gate's clock.
Landed(i, r, by, outcome, stage) ==
  CASE Gate(i) = "none" -> [r EXCEPT !.status = "done", !.attestation = NoEvidence]
    [] Gate(i) \in {"judged", "human"} ->
         [r EXCEPT !.status = "awaiting_verify", !.parked = Request[i].max_park]
    [] Gate(i) = "deterministic" ->
         LET graded == Graded(i, r, by, outcome, stage)
         IN  IF graded.status = "awaiting_verify"
               THEN [graded EXCEPT !.parked = Request[i].max_park] ELSE graded

\* What every accepted report does: the attempt ends with the lease.
Released(r, by, n) ==
  [r EXCEPT !.lease_report = [by |-> by, attempt |-> n],
            !.leased_by = NoAgent,
            !.lease_attempt = @ + 1,
            !.left = 0, !.age = 0]

\* The fence.  A replay of a recorded idempotency key writes nothing.
Accepted(a, i, n) ==
  /\ Filed(i)
  /\ ~VehicleBarred(i)
  /\ row[i].lease_attempt = n
  /\ row[i].leased_by = a
  /\ row[i].status \notin Settled

ReportFailed(a, i, n) ==
  /\ Accepted(a, i, n)
  /\ row' = RunCascade([row EXCEPT ![i] = [Released(@, a, n) EXCEPT !.status = "failed"]])
  /\ UNCHANGED seen

\* DONE is a request: evidence comes with it on a deterministic gate, and on
\* no other (the parameters are then idle).
ReportDone(a, i, n, outcome, stage) ==
  /\ Accepted(a, i, n)
  /\ IF Gate(i) = "deterministic" THEN Showable(i, outcome, stage)
                                  ELSE outcome = "pass" /\ stage = 0
  /\ row' = RunCascade([row EXCEPT ![i] = Landed(i, Released(@, a, n), a, outcome, stage)])
  /\ UNCHANGED seen

\* Mutant: two agents of one person count as two.
SameActor(i, a, b) == a = b

\* A declared human answering a human gate is compared as an actor, anyone
\* else as the party that answers for it.
SameSide(i, a, b) ==
  IF Gate(i) = "human" /\ a \in Humans THEN a = b ELSE Party[a] = Party[b]

\* Mutant: a failed item may be attested.
MayAttestAnytime(a, i) ==
  LET executor == row[i].lease_report.by
  IN  /\ IsGated(i) /\ executor # NoAgent /\ ~SameSide(i, a, executor)
      /\ row[i].status # "in_progress"

MayAttest(a, i) ==
  LET executor == row[i].lease_report.by
  IN  /\ row[i].status \in {"awaiting_verify", "verify_failed"}
      /\ IsGated(i)
      /\ Gate(i) = "judged" => "verify" \in Held[a]
      /\ Gate(i) = "human" => Request[i].verifier = a
      /\ Gate(i) # "deterministic" => executor # NoAgent /\ ~SameSide(i, a, executor)

\* A verdict overturns a default taken before it, and a passing one drops the
\* retry decision.
Attested(i, r, by, outcome, stage) ==
  LET graded == Graded(i, [r EXCEPT !.resolution = "none"], by, outcome, stage)
  IN  IF outcome = "pass" THEN [graded EXCEPT !.retry = "none"] ELSE graded

\* A retry under a recorded idempotency key writes nothing.
Attest(a, i, outcome, stage) ==
  /\ MayAttest(a, i)
  /\ Showable(i, outcome, stage)
  /\ row' = RunCascade([row EXCEPT ![i] = Attested(i, @, a, outcome, stage)])
  /\ UNCHANGED seen

Defaulted(i, r, default) ==
  LET resolved == [r EXCEPT !.resolution = default]
  IN  IF default = "fail" THEN Failing(i, resolved)
                          ELSE [resolved EXCEPT !.status = "done"]

\* The park clock's way to close a gate: no evidence, only the default taken.
ResolveByDefault(i, default) ==
  /\ row[i].status = "awaiting_verify"
  /\ default # "escalate"
  /\ default = "fail" => row[i].verify_failures < MaxFailures
  /\ row' = RunCascade([row EXCEPT ![i] = Defaulted(i, @, default)])
  /\ UNCHANGED seen

-----------------------------------------------------------------------------
(* The remaining writes.                                                   *)

Retired(r) ==
  [r EXCEPT !.status = "done", !.leased_by = NoAgent, !.left = 0, !.age = 0]

\* Closing a moot vehicle.  No cascade, and the fence is not advanced.
Retire(i) ==
  /\ row[i].status \in {"pending", "in_progress"}
  /\ ~IsGated(i)
  /\ ~LeaseActive(row[i])
  /\ row' = [row EXCEPT ![i] = Retired(@)]
  /\ UNCHANGED seen

\* Tagging a divergence, once, by somebody declared who did not execute it.
Adjudicate(a, i) ==
  /\ Filed(i)
  /\ Executors(i) # {}
  /\ a \notin Executors(i)
  /\ a \in Humans \cup Adjudicators
  /\ row[i].adjudication = NoAgent
  /\ row' = [row EXCEPT ![i].adjudication = a]
  /\ UNCHANGED seen

Down(n) == IF n > 0 THEN n - 1 ELSE 0

Aged(r) ==
  [r EXCEPT !.left = Down(@), !.parked = Down(@),
            !.age = IF r.leased_by # NoAgent /\ @ < LeaseMaxAge THEN @ + 1 ELSE @]

\* Time passes.
Tick ==
  /\ row' = [i \in Items |-> Aged(row[i])]
  /\ UNCHANGED seen

-----------------------------------------------------------------------------

Init ==
  /\ row = [i \in Items |-> NewRow]
  /\ seen = [a \in Agents |-> NoRead]

Stages == UNION {0..Request[i].rungs : i \in Items}

\* What callers send, verdicts apart.
WorkNext ==
  \/ \E i \in Items : Request[i].verifies = NoItem /\ Create(i)
  \/ \E a \in Agents, i \in Items : ClaimRead(a, i) \/ Adjudicate(a, i)
  \/ \E a \in Agents : ClaimDropped(a) \/ \E ttl \in TTLs : Claim(a, ttl)
  \/ \E a \in Agents, i \in Items, n \in 1..MaxAttempt :
       \/ \E ttl \in TTLs : Renew(a, i, n, ttl)
       \/ ReportFailed(a, i, n)
       \/ \E o \in Outcomes, g \in Stages : ReportDone(a, i, n, o, g)

Verdict(i) == \E a \in Agents, o \in Outcomes, g \in Stages : Attest(a, i, o, g)

\* What the plane does by itself, here whenever it likes: vehicles are filed
\* and retired, and defaults taken, by the passes of verifiers.py.
PlaneNext ==
  \/ \E i \in Items : Reap(i)
  \/ \E i \in Items : Request[i].verifies # NoItem /\ (Create(i) \/ Retire(i))
  \/ \E i \in Items, d \in Defaults : ResolveByDefault(i, d)

Next == WorkNext \/ (\E i \in Items : Verdict(i)) \/ PlaneNext \/ Tick

Spec == Init /\ [][Next]_vars
=============================================================================
