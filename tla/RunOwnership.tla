---------------------------- MODULE RunOwnership ----------------------------
(***************************************************************************)
(* The ownership of one run: agentco/ownership.py, the checks the queue    *)
(* makes with it, and the administrative transfer.                         *)
(*                                                                         *)
(* A write of the queue is one step under the store lock.  Most ownership  *)
(* checks are made on a read from before the lock, so that a call is two   *)
(* steps, with the record moving in between.  A transfer moves the record  *)
(* in one write and then releases the open steps one by one.               *)
(*                                                                         *)
(* Of a step only what ownership meets is here: who holds it, the fence,   *)
(* the epoch its claim was stamped with, whom it is assigned to.  Gates    *)
(* are WorkQueue's; here a Gated step's report waits for a verdict.        *)
(***************************************************************************)
EXTENDS Integers, Sequences

CONSTANTS
  Steps,       \* the open steps of the run
  Gated,       \* those whose gate somebody must answer
  Actors,
  NoActor,     \* "nobody"
  Hub,         \* this hub, as an owner
  Stores,      \* the registered external stores
  SpeaksFor,   \* [Stores -> SUBSET Actors]
  Filer,       \* the store that owned the run when it was filed
  Binding,     \* [Steps -> whom the procedure assigns it to]
  Admins,      \* the administrators, as callers of the transfer
  MaxEpoch,    \* model bound: transfers
  MaxAttempt,  \* model bound: no claim past this fence
  MaxFailures  \* model bound: failing verdicts on a step

Owners == Stores \cup {Hub}

ASSUME OwnershipConstants ==
  /\ Gated \subseteq Steps
  /\ NoActor \notin Actors
  /\ Hub \notin Stores /\ "filed" \notin Stores \cup {Hub}
  /\ SpeaksFor \in [Stores -> SUBSET Actors]
  /\ Filer \in Owners
  /\ Binding \in [Steps -> Actors \cup {NoActor}]
  /\ MaxEpoch \in Nat /\ MaxAttempt \in Nat /\ MaxFailures \in Nat

VARIABLES
  owner,  \* the record on the run's root
  step,   \* [Steps -> Step]
  call,   \* [Actors -> Call]: what a caller's check has read
  admin,  \* [Admins -> Transfer]: transfers under way
  owed    \* <<s, o>>: a transfer away from o has not come to s yet (history)

runvars == <<owner, step, call, admin, owed>>

-----------------------------------------------------------------------------
(* Epochs.  The hub first counted from 1; a record or stamp without the    *)
(* marker of the spec's count is one higher and is read one lower.         *)

Entry == [from: Owners \cup {"filed"}, to: Owners, epoch: Nat]
Record == [store: Owners, epoch: Nat, marked: BOOLEAN, history: Seq(Entry)]

LoweredHistory(h) == [n \in DOMAIN h |-> [h[n] EXCEPT !.epoch = @ - 1]]

\* Mutant: lowered whether it is marked or not.
RebasedAlways(r) ==
  [r EXCEPT !.epoch = @ - 1, !.marked = TRUE, !.history = LoweredHistory(@)]

Rebased(r) ==
  IF r.marked THEN r
  ELSE [r EXCEPT !.epoch = @ - 1, !.marked = TRUE, !.history = LoweredHistory(@)]

OwnerRecord == Rebased(owner)
Epoch == OwnerRecord.epoch

\* A step that no claim has stamped has no epoch.
Stamps == [epoch: Int, marked: BOOLEAN]
Unstamped == [epoch |-> -1, marked |-> TRUE]
StampedEpoch(s) == IF step[s].stamp.marked THEN step[s].stamp.epoch
                                           ELSE step[s].stamp.epoch - 1

-----------------------------------------------------------------------------
(* Who may act.                                                            *)

Speaks(a, store) == store \in Stores /\ a \in SpeaksFor[store]

\* It owned the run before and does not now.
FormerOwner(a, record) ==
  \E n \in DOMAIN record.history :
    LET store == record.history[n].from
    IN  store # record.store /\ Speaks(a, store)

MayAct(a, record) ==
  IF record.store = Hub THEN ~FormerOwner(a, record) ELSE Speaks(a, record.store)

-----------------------------------------------------------------------------
(* State.                                                                  *)

Step ==
  [status: {"pending", "in_progress", "awaiting_verify", "verify_failed", "done", "failed"},
   leased_by: Actors \cup {NoActor}, live: BOOLEAN, lease_attempt: Nat,
   stamp: Stamps, assigned_agent: Actors \cup {NoActor},
   verify_failures: Nat, attested_by: Actors \cup {NoActor}]

\* A claim carries the epoch of the record it was checked against, an
\* attestation the epoch its sender read, a report its attempt.
NoCall == [verb |-> "none", item |-> "none", epoch |-> 0, attempt |-> 0]
Call == {NoCall}
          \cup [verb: {"claim", "report", "attest"}, item: Steps, epoch: Nat, attempt: Nat]

Transfer == [phase: {"idle", "record", "list", "release"},
             read: Record, to: Owners, todo: SUBSET Steps]
Filed(epoch, marked) ==
  [store |-> Filer, epoch |-> epoch, marked |-> marked,
   history |-> <<[from |-> "filed", to |-> Filer, epoch |-> epoch]>>]
NoTransfer == [phase |-> "idle", read |-> Filed(0, TRUE), to |-> Hub, todo |-> {}]

OwnershipTypeOK ==
  /\ owner \in Record /\ OwnerRecord \in Record
  /\ step \in [Steps -> Step]
  /\ call \in [Actors -> Call]
  /\ admin \in [Admins -> Transfer]
  /\ owed \subseteq Steps \X Owners

-----------------------------------------------------------------------------
(* Claims.  check_actor reads the record before the lock, and the claim is *)
(* stamped with the epoch of that read.                                    *)

Calling(a, c) ==
  /\ call[a] = NoCall
  /\ call' = [call EXCEPT ![a] = c]
  /\ UNCHANGED <<owner, step, admin, owed>>

CheckClaim(a, s) ==
  /\ MayAct(a, OwnerRecord)
  /\ Calling(a, [verb |-> "claim", item |-> s, epoch |-> Epoch, attempt |-> 0])

Writing(a, s, after) ==
  /\ step' = [step EXCEPT ![s] = after]
  /\ call' = [call EXCEPT ![a] = NoCall]
  /\ UNCHANGED <<owner, admin, owed>>

Claimed(r, a, stamp) ==
  [r EXCEPT !.status = "in_progress", !.leased_by = a, !.live = TRUE,
            !.lease_attempt = @ + 1, !.stamp = stamp]

Claimable(a, s) ==
  /\ call[a].verb = "claim"
  /\ step[s].status \in {"pending", "in_progress"}
  /\ ~step[s].live
  /\ step[s].assigned_agent \in {NoActor, a}
  /\ step[s].lease_attempt < MaxAttempt

Claim(a) ==
  LET s == call[a].item
  IN  /\ Claimable(a, s)
      /\ Writing(a, s, Claimed(step[s], a, [epoch |-> call[a].epoch, marked |-> TRUE]))

\* A call that is refused, or whose caller died, writes nothing.
CallDropped(a) ==
  /\ call[a] # NoCall
  /\ call' = [call EXCEPT ![a] = NoCall]
  /\ UNCHANGED <<owner, step, admin, owed>>

-----------------------------------------------------------------------------
(* Reports.  check_epoch compares stamp and record before the lock; the    *)
(* fence is checked under it.                                              *)

\* Mutant: a report is taken under any epoch.
CheckReportUnstamped(a, s, n) ==
  /\ n <= step[s].lease_attempt
  /\ Calling(a, [verb |-> "report", item |-> s, epoch |-> 0, attempt |-> n])

\* An attempt is known once it was given out.
CheckReport(a, s, n) ==
  /\ n <= step[s].lease_attempt
  /\ step[s].stamp # Unstamped => StampedEpoch(s) = Epoch
  /\ Calling(a, [verb |-> "report", item |-> s, epoch |-> 0, attempt |-> n])

Released(r, status) ==
  [r EXCEPT !.status = status, !.leased_by = NoActor, !.live = FALSE,
            !.lease_attempt = @ + 1]

Report(a, status) ==
  LET s == call[a].item
  IN  /\ call[a].verb = "report"
      /\ step[s].lease_attempt = call[a].attempt
      /\ step[s].leased_by = a
      /\ status \in {"failed", IF s \in Gated THEN "awaiting_verify" ELSE "done"}
      /\ Writing(a, s, Released(step[s], status))

-----------------------------------------------------------------------------
(* Verdicts.  check_actor reads before the lock; the epoch the attestation *)
(* carries is compared under it.                                           *)

\* The sender read its epoch at some time up to now.
CheckAttest(a, s, epoch) ==
  /\ epoch \in 0..Epoch
  /\ MayAct(a, OwnerRecord)
  /\ Calling(a, [verb |-> "attest", item |-> s, epoch |-> epoch, attempt |-> 0])

Answered(r, a, passed) ==
  [r EXCEPT !.status = IF passed THEN "done" ELSE "verify_failed",
            !.verify_failures = IF passed THEN @ ELSE @ + 1,
            !.attested_by = a]

Attest(a, passed) ==
  LET s == call[a].item
  IN  /\ call[a].verb = "attest"
      /\ call[a].epoch = Epoch
      /\ step[s].status \in {"awaiting_verify", "verify_failed"}
      /\ passed \/ step[s].verify_failures < MaxFailures
      /\ Writing(a, s, Answered(step[s], a, passed))

-----------------------------------------------------------------------------
(* Leases end without their holder.                                        *)

StepWrite(s, after) ==
  /\ step' = [step EXCEPT ![s] = after]
  /\ UNCHANGED <<owner, call, admin, owed>>

\* Time passes; the lease may lapse whenever it likes.
Lapse(s) == step[s].live /\ StepWrite(s, [step[s] EXCEPT !.live = FALSE])

Reap(s) ==
  /\ step[s].status = "in_progress" /\ ~step[s].live
  /\ StepWrite(s, Released(step[s], "pending"))

-----------------------------------------------------------------------------
(* The transfer.                                                           *)

Move(m, t) == admin' = [admin EXCEPT ![m] = t]

TransferRead(m, to) ==
  /\ admin[m].phase = "idle"
  /\ to # OwnerRecord.store
  /\ Epoch < MaxEpoch
  /\ Move(m, [NoTransfer EXCEPT !.phase = "record", !.read = OwnerRecord, !.to = to])
  /\ UNCHANGED <<owner, step, call, owed>>

Moved(r, to) ==
  [r EXCEPT !.store = to, !.epoch = @ + 1,
            !.history = Append(@, [from |-> r.store, to |-> to, epoch |-> r.epoch + 1])]

\* annotate: the record is replaced by the one that was read, moved.
TransferRecord(m) ==
  /\ admin[m].phase = "record"
  /\ owner' = Moved(admin[m].read, admin[m].to)
  /\ owed' = owed \cup
               {s \in Steps : step[s].status \in {"pending", "in_progress"}}
                 \X {admin[m].read.store}
  /\ Move(m, [admin[m] EXCEPT !.phase = "list"])
  /\ UNCHANGED <<step, call>>

\* The steps below the root, without what is done by now.
TransferList(m) ==
  /\ admin[m].phase = "list"
  /\ Move(m, [admin[m] EXCEPT !.phase = "release",
                              !.todo = {s \in Steps : step[s].status # "done"}])
  /\ UNCHANGED <<owner, step, call, owed>>

FormerActors(store) == IF store \in Stores THEN SpeaksFor[store] ELSE {}

\* Mutant: assignments are left as they are.
FreedOfLease(r, former) == IF r.status = "in_progress" THEN Released(r, "pending") ELSE r

\* The lease is voided under a new fence, and an assignment to an actor of the
\* former owner is dropped; settled steps stay.
Freed(r, former) ==
  LET voided == IF r.status = "in_progress" THEN Released(r, "pending") ELSE r
  IN  IF r.status \in {"pending", "in_progress"} /\ r.assigned_agent \in former
        THEN [voided EXCEPT !.assigned_agent = NoActor] ELSE voided

ReleaseForTransfer(m, s) ==
  /\ admin[m].phase = "release" /\ s \in admin[m].todo
  /\ step' = [step EXCEPT ![s] = Freed(@, FormerActors(admin[m].read.store))]
  /\ owed' = owed \ {<<s, admin[m].read.store>>}
  /\ Move(m, [admin[m] EXCEPT !.todo = @ \ {s}])
  /\ UNCHANGED <<owner, call>>

TransferEnd(m) ==
  /\ admin[m].phase = "release" /\ admin[m].todo = {}
  /\ Move(m, NoTransfer)
  /\ UNCHANGED <<owner, step, call, owed>>

\* The process dies; what was written stays.
Crash(m) ==
  /\ admin[m].phase # "idle"
  /\ Move(m, NoTransfer)
  /\ UNCHANGED <<owner, step, call, owed>>

-----------------------------------------------------------------------------
(* rebase_epochs rewrites what is not marked, row by row, at any time.     *)

RebaseRecord ==
  /\ ~owner.marked
  /\ owner' = Rebased(owner)
  /\ UNCHANGED <<step, call, admin, owed>>

RebaseStamp(s) ==
  /\ ~step[s].stamp.marked
  /\ StepWrite(s, [step[s] EXCEPT !.stamp = [epoch |-> StampedEpoch(s), marked |-> TRUE]])

-----------------------------------------------------------------------------

FiledStep(s) ==
  [status |-> "pending", leased_by |-> NoActor, live |-> FALSE, lease_attempt |-> 0,
   stamp |-> Unstamped, assigned_agent |-> Binding[s],
   verify_failures |-> 0, attested_by |-> NoActor]

\* A run just filed, or one filed when epochs began with 1 and worked on since.
OwnershipInit ==
  /\ \/ /\ owner = Filed(0, TRUE)
        /\ step = [s \in Steps |-> FiledStep(s)]
     \/ /\ owner = Filed(1, FALSE)
        /\ \E a \in Actors :
             /\ MayAct(a, owner)
             /\ step = [s \in Steps |->
                          IF Binding[s] \in {NoActor, a}
                            THEN Claimed(FiledStep(s), a, [epoch |-> 1, marked |-> FALSE])
                            ELSE FiledStep(s)]
  /\ call = [a \in Actors |-> NoCall]
  /\ admin = [m \in Admins |-> NoTransfer]
  /\ owed = {}

CallStep(a) ==
  \/ \E s \in Steps :
       \/ CheckClaim(a, s)
       \/ \E n \in 1..MaxAttempt : CheckReport(a, s, n)
       \/ \E epoch \in 0..MaxEpoch : CheckAttest(a, s, epoch)
  \/ Claim(a) \/ CallDropped(a)
  \/ \E status \in {"done", "failed", "awaiting_verify"} : Report(a, status)
  \/ \E passed \in BOOLEAN : Attest(a, passed)

TransferStep(m) ==
  \/ \E to \in Owners : TransferRead(m, to)
  \/ TransferRecord(m) \/ TransferList(m)
  \/ \E s \in Steps : ReleaseForTransfer(m, s)
  \/ TransferEnd(m) \/ Crash(m)

OwnershipNext ==
  \/ \E a \in Actors : CallStep(a)
  \/ \E m \in Admins : TransferStep(m)
  \/ \E s \in Steps : Lapse(s) \/ Reap(s) \/ RebaseStamp(s)
  \/ RebaseRecord

OwnershipSpec == OwnershipInit /\ [][OwnershipNext]_runvars
=============================================================================
