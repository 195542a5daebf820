-------------------------- MODULE RunOwnershipProps --------------------------
(***************************************************************************)
(* What must hold of the ownership of a run.                               *)
(***************************************************************************)
EXTENDS RunOwnership

\* The epoch counts the transfers, each entry of the history has the number of
\* its transfer and begins at the owner the one before made, and the last made
\* the owner: in either count, before, in and after a rebase (transfer, rebased).
EpochsCountTransfers ==
  LET r == OwnerRecord
      n == Len(r.history)
  IN  /\ r.epoch = n - 1
      /\ \A k \in 1..n : r.history[k].epoch = k - 1
      /\ \A k \in 1..(n - 1) : r.history[k + 1].from = r.history[k].to
      /\ r.history[n].to = r.store

\* No recorded transfer is ever lost or rewritten, though the record is
\* replaced by one that was read before (transfer, rebase_epochs).
TransfersAreKept ==
  [][\A k \in DOMAIN OwnerRecord.history :
       /\ k \in DOMAIN OwnerRecord'.history
       /\ OwnerRecord'.history[k] = OwnerRecord.history[k]]_runvars

\* The transfer that made the present owner has not come to the step.
NotYetFreed(s) ==
  <<s, OwnerRecord.history[Len(OwnerRecord.history)].from>> \in owed

Reported(s) ==
  /\ step[s].status = "in_progress"
  /\ step'[s].status \in {"done", "failed", "awaiting_verify"}

Judged(s) ==
  /\ step[s].status \in {"awaiting_verify", "verify_failed"}
  /\ step'[s].status = "done" \/ step'[s].verify_failures # step[s].verify_failures

\* A report lands only from one whom the owner of that moment lets act: the
\* former owner's are fenced out, whenever they were claimed, checked or sent,
\* once the transfer has come to the step (check_epoch, release_for_transfer).
\* A verdict lands only from such a one at every moment, also while a transfer
\* is under way (check_attest_epoch inside the lock).
AnswersAreTheOwners ==
  [][\A s \in Steps :
       /\ Reported(s) => MayAct(step[s].leased_by, OwnerRecord) \/ NotYetFreed(s)
       /\ Judged(s) => MayAct(step'[s].attested_by, OwnerRecord)]_runvars

Open(s) == step[s].status \in {"pending", "in_progress"}

\* An open step assigned to an actor of some store can be claimed by them, or a
\* transfer has yet to come to it, or died on its way (release_for_transfer).
StepsAreFreed ==
  \A s \in Steps, store \in Stores :
    LET a == step[s].assigned_agent
    IN  Open(s) /\ Speaks(a, store) =>
          MayAct(a, OwnerRecord) \/ \E o \in Owners : Speaks(a, o) /\ <<s, o>> \in owed
=============================================================================
