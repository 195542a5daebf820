----------------------------- MODULE OutboxProps -----------------------------
(***************************************************************************)
(* What must hold of the outbox.                                           *)
(***************************************************************************)
EXTENDS Outbox

\* A pushed line is in the outbox until there is a receipt with an answer to
\* it: no crash, failed transport or push during a drain loses one (settle).
NothingPushedVanishes ==
  \A l \in written \cap (Lines \ Raw) : l \in outbox \/ l \in Settled(receipts)

\* When a line the hub knows again has left the outbox, its receipts say
\* whether it took effect, however often it was sent (settle, _AlreadyRecorded).
ReceiptsAreTrue ==
  \A l \in Keyed \cap written :
    l \notin outbox =>
      (hub[l] > 0 <=> [entry |-> l, state |-> "published"] \in receipts)

\* A line takes effect again only after a failure: once per crash or lost
\* answer, and a keyed one never (drain_lock, settle, idempotency keys).
EffectsAreExcused ==
  \A l \in Lines : hub[l] <= IF l \in Keyed THEN 1 ELSE 1 + faults

-----------------------------------------------------------------------------
(* Liveness.  A scheduler runs the drainer for ever; failures end (faults). *)

FairOutboxSpec ==
  OutboxSpec /\ WF_ovars(\E d \in Drainers : DrainStep(d))

\* Every pushed line is answered in the end, and taken out.
EveryLineIsAnswered ==
  \A l \in Lines \ Raw : l \in written ~> l \notin outbox /\ l \in Settled(receipts)
=============================================================================
