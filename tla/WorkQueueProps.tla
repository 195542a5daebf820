--------------------------- MODULE WorkQueueProps ---------------------------
(***************************************************************************)
(* What must hold of the work queue.                                       *)
(***************************************************************************)
EXTENDS WorkQueue

-----------------------------------------------------------------------------
(* Leases.                                                                 *)

\* A row is leased exactly while it is in progress: no outcome, gate answer,
\* reaping or retirement leaves a holder behind or takes one on the way
\* (claim, report_result, reap_expired_leases, retire).
LeaseIffInProgress ==
  \A i \in Items : row[i].leased_by # NoAgent <=> row[i].status = "in_progress"

\* A live lease is only ever ended by its own holder, reporting under it: no
\* claim, reaper, retirement or stale message takes it away.
NoLiveLeaseIsTaken ==
  [][\A i \in Items :
       LeaseActive(row[i]) /\ row'[i].leased_by # row[i].leased_by
         => /\ row'[i].leased_by = NoAgent
            /\ row'[i].lease_report = [by |-> row[i].leased_by,
                                      attempt |-> row[i].lease_attempt]
    ]_vars

\* The protocol keeps the promise of FencedWork.
PhaseOf(status) ==
  CASE status \in {"unfiled", "pending", "in_progress"} -> "open"
    [] status \in {"awaiting_verify", "verify_failed"} -> "answering"
    [] OTHER -> "closed"

Fenced == INSTANCE FencedWork WITH
  holder <- [i \in Items |-> row[i].leased_by],
  token <- [i \in Items |-> row[i].lease_attempt],
  phase <- [i \in Items |-> PhaseOf(row[i].status)]

IsFencedWork == Fenced!Spec

-----------------------------------------------------------------------------
(* Liveness of leases.  Clocks run, and housekeeping comes round to every   *)
(* lapsed lease (pulse.py runs the reaper on every beat).                   *)

Fairness == WF_vars(Tick) /\ \A i \in Items : WF_vars(Reap(i))
FairSpec == Spec /\ Fairness

\* No holding lasts for ever, whatever its holder renews and whoever dies: the
\* work is closed, or comes back to the queue under a later fence (renew's cap,
\* the reaper; only retiring a vehicle closes without a new fence).
HoldingsEnd ==
  \A i \in Items, n \in 1..MaxAttempt :
    (row[i].status = "in_progress" /\ row[i].lease_attempt = n)
      ~> (row[i].lease_attempt # n \/ row[i].status \in Terminal)

-----------------------------------------------------------------------------
(* Gates.                                                                  *)

\* Answered by the plane's clock, or by evidence.
ByDefault(r) == r.resolution # "none"

\* A gated item is done only on a passing answer: either the latest evidence
\* passes, or the park clock took a default that proceeds - never over a
\* failing verdict, and never by a default a later verdict overturned
\* (_gate_outcome, attest, resolve_by_default).
GateAnswered ==
  \A i \in Items :
    row[i].status = "done" /\ IsGated(i) /\ ~Request[i].pinned =>
      IF ByDefault(row[i]) THEN row[i].resolution \in {"pass", "proceed_on_default"}
                           ELSE row[i].attestation.outcome = "pass"

\* A staged gate that evidence closed was climbed whole after the last failing
\* answer: no rung passed before a failure counts for the work redone since
\* (_ladder_outstanding).
LadderClimbedAfresh ==
  \A i \in Items :
    row[i].status = "done" /\ IsGated(i) /\ ~Request[i].pinned /\ ~ByDefault(row[i]) =>
      \A n \in 0..(Request[i].rungs - 1) :
        [stage |-> n, passed |-> TRUE, generation |-> row[i].verify_failures]
          \in row[i].stages

\* The verdict that closed a judged or human gate came from somebody else than
\* who did the work, and on a judged gate from another party; a person may
\* answer a human gate over work of their own agent (attest's separation).
VerdictFromOutside ==
  \A i \in Items :
    /\ row[i].status = "done" /\ ~ByDefault(row[i]) /\ ~Request[i].pinned
    /\ Gate(i) \in {"judged", "human"}
    => /\ row[i].attestation.by # row[i].lease_report.by
       /\ Gate(i) = "judged" =>
            Party[row[i].attestation.by] # Party[row[i].lease_report.by]

\* An outcome is final: nothing reopens a done or failed item, rewrites what
\* answered it or hands it out again.
OutcomeIsFinal ==
  [][\A i \in Items :
       row[i].status \in Terminal =>
         /\ row'[i].status = row[i].status
         /\ row'[i].attestation = row[i].attestation
         /\ row'[i].resolution = row[i].resolution
         /\ row'[i].lease_report = row[i].lease_report
    ]_vars

-----------------------------------------------------------------------------
(* Trees.                                                                  *)

\* Nothing is handed out before everything it waits for is done, although the
\* finished items were read before the lock was taken (claim's done_ids).
NothingStartsEarly ==
  [][\A i \in Items :
       row'[i].lease_attempt > row[i].lease_attempt /\ row'[i].status = "in_progress"
         => \A j \in row[i].blocked_by : row[j].status = "done"
    ]_vars

Complete(rows, c) == Kids(rows, c) # {} /\ \A k \in Kids(rows, c) : rows[k].status = "done"

\* A run container the plane closes has steps, and every one is done by then:
\* a failed, parked or open step holds it open, a repair beside it does not
\* stand in for it (finished_containers).  And no write leaves a container
\* behind with all its steps done, at any depth, unless it was held when the
\* last of them finished (the cascade in report_result, attest and
\* resolve_by_default).
ContainersFollowSteps ==
  [][/\ \A i \in Items :
          row[i].status = "pending" /\ row'[i].status = "done" /\ Request[i].verifies = NoItem
            => Complete(row', i)
     /\ \A c \in OpenContainers(row') :
          Complete(row', c) => row[c].status = "in_progress"
                               \/ (c \in OpenContainers(row) /\ Complete(row, c))
    ]_vars
=============================================================================
