-------------------------- MODULE RunOwnershipProofs -------------------------
(***************************************************************************)
(* Proofs about the ownership of a run, for any steps, actors, stores and  *)
(* bounds, and one transfer at a time.                                     *)
(***************************************************************************)
EXTENDS RunOwnershipProps, TLAPS

-----------------------------------------------------------------------------
(* Records.                                                                *)

\* A record is the same run's, unmoved, in either count.
LEMMA FiledRecord ==
  ASSUME NEW r, r = Filed(0, TRUE) \/ r = Filed(1, FALSE)
  PROVE  /\ r \in Record /\ Rebased(r) \in Record
         /\ Rebased(r).store = Filer /\ Rebased(r).epoch = 0
         /\ Rebased(r).history = <<[from |-> "filed", to |-> Filer, epoch |-> 0]>>
<1> DEFINE entry(x) == [from |-> "filed", to |-> Filer, epoch |-> x]
<1> DEFINE h == LoweredHistory(<<entry(1)>>)
<1>1. /\ <<entry(0)>> \in Seq(Entry)
      /\ <<entry(1)>> \in Seq(Entry)
  BY OwnershipConstants DEF Entry, Owners
<1>2. h = <<entry(0)>>
  BY DEF LoweredHistory
<1>3. r \in Record
  <2>1. Filed(0, TRUE) \in Record /\ Filed(1, FALSE) \in Record
    BY <1>1, OwnershipConstants DEF Filed, Record, Owners
  <2> QED
    BY <2>1
<1>4. CASE r = Filed(0, TRUE)
  BY <1>3, <1>4 DEF Rebased, Filed
<1>5. CASE r = Filed(1, FALSE)
  <2> HIDE DEF h
  <2>1. r.store = Filer /\ r.epoch - 1 = 0 /\ ~r.marked /\ r.history = <<entry(1)>>
    BY <1>5 DEF Filed
  <2>2. Rebased(r) = [r EXCEPT !.epoch = 0, !.marked = TRUE, !.history = h]
    BY <2>1 DEF Rebased, h
  <2>3. [r EXCEPT !.epoch = 0, !.marked = TRUE, !.history = h] \in Record
    BY <1>1, <1>2, <1>3 DEF Record
  <2> QED
    BY <1>2, <1>3, <2>1, <2>2, <2>3 DEF Record
<1> QED
  BY <1>4, <1>5

\* A rebased record is left alone by a second rebase.
LEMMA RebasedOnce ==
  ASSUME NEW r \in Record
  PROVE  Rebased(r).marked /\ Rebased(Rebased(r)) = Rebased(r)
BY DEF Rebased, Record

\* A transfer appends its entry and leaves a marked record.
LEMMA MovedRecord ==
  ASSUME NEW r \in Record, r.marked, NEW to \in Owners
  PROVE  /\ Moved(r, to) \in Record
         /\ Rebased(Moved(r, to)) = Moved(r, to)
         /\ Moved(r, to).store = to /\ Moved(r, to).epoch = r.epoch + 1
         /\ Moved(r, to).history =
              Append(r.history, [from |-> r.store, to |-> to, epoch |-> r.epoch + 1])
<1> DEFINE entry == [from |-> r.store, to |-> to, epoch |-> r.epoch + 1]
<1> DEFINE longer == Append(r.history, entry)
<1> DEFINE moved == [r EXCEPT !.store = to, !.epoch = r.epoch + 1, !.history = longer]
<1>1. entry \in Entry
  BY DEF Entry, Record
<1>2. longer \in Seq(Entry)
  BY <1>1 DEF Record
<1> HIDE DEF longer
<1>3. r.epoch + 1 \in Nat
  BY DEF Record
<1>4. moved \in Record
  BY <1>2, <1>3 DEF Record
<1>5. moved.store = to /\ moved.epoch = r.epoch + 1 /\ moved.history = longer
  BY DEF Record
<1>6. moved.marked
  BY DEF Record
<1>7. Moved(r, to) = moved
  BY DEF Moved, longer
<1> HIDE DEF moved
<1>8. Rebased(moved) = moved
  BY <1>6 DEF Rebased
<1> QED
  BY <1>4, <1>5, <1>7, <1>8 DEF longer

-----------------------------------------------------------------------------
(* Steps: what each write makes of one.                                    *)

LEMMA ClaimedStep ==
  ASSUME NEW r \in Step, NEW a \in Actors, NEW stamp \in Stamps
  PROVE  /\ Claimed(r, a, stamp) \in Step
         /\ Claimed(r, a, stamp).status = "in_progress" /\ Claimed(r, a, stamp).leased_by = a
         /\ Claimed(r, a, stamp).lease_attempt = r.lease_attempt + 1
         /\ Claimed(r, a, stamp).stamp = stamp
<1>1. r.lease_attempt + 1 \in Nat
  BY DEF Step
<1> QED
  BY <1>1 DEF Claimed, Step

LEMMA ReleasedStep ==
  ASSUME NEW r \in Step, NEW status \in {"pending", "done", "failed", "awaiting_verify"}
  PROVE  /\ Released(r, status) \in Step
         /\ Released(r, status).status = status /\ Released(r, status).leased_by = NoActor
         /\ Released(r, status).lease_attempt = r.lease_attempt + 1
         /\ Released(r, status).stamp = r.stamp
<1>1. r.lease_attempt + 1 \in Nat
  BY DEF Step
<1> QED
  BY <1>1 DEF Released, Step

LEMMA AnsweredStep ==
  ASSUME NEW r \in Step, NEW a \in Actors, NEW passed \in BOOLEAN
  PROVE  /\ Answered(r, a, passed) \in Step
         /\ Answered(r, a, passed).status \in {"done", "verify_failed"}
         /\ Answered(r, a, passed).leased_by = r.leased_by
         /\ Answered(r, a, passed).lease_attempt = r.lease_attempt
         /\ Answered(r, a, passed).stamp = r.stamp
         /\ Answered(r, a, passed).attested_by = a
<1>1. r.verify_failures + 1 \in Nat
  BY DEF Step
<1>2. CASE passed
  BY <1>2 DEF Answered, Step
<1>3. CASE ~passed
  BY <1>1, <1>3 DEF Answered, Step
<1> QED
  BY <1>2, <1>3

\* Whatever was assigned, a lease is voided and nothing else moves.
LEMMA FreedStep ==
  ASSUME NEW r \in Step, NEW former
  PROVE  /\ Freed(r, former) \in Step
         /\ Freed(r, former).stamp = r.stamp
         /\ r.status = "in_progress" =>
              /\ Freed(r, former).status = "pending" /\ Freed(r, former).leased_by = NoActor
              /\ Freed(r, former).lease_attempt = r.lease_attempt + 1
         /\ r.status # "in_progress" =>
              /\ Freed(r, former).status = r.status
              /\ Freed(r, former).leased_by = r.leased_by
              /\ Freed(r, former).lease_attempt = r.lease_attempt
<1> DEFINE voided == IF r.status = "in_progress" THEN Released(r, "pending") ELSE r
<1>1. /\ voided \in Step /\ voided.stamp = r.stamp
      /\ r.status = "in_progress" =>
           /\ voided.status = "pending" /\ voided.leased_by = NoActor
           /\ voided.lease_attempt = r.lease_attempt + 1
      /\ r.status # "in_progress" => voided = r
  BY ReleasedStep
<1>2. Freed(r, former) = voided \/ Freed(r, former) = [voided EXCEPT !.assigned_agent = NoActor]
  BY DEF Freed
<1> HIDE DEF voided
<1>3. CASE Freed(r, former) = voided
  BY <1>1, <1>3
<1>4. CASE Freed(r, former) = [voided EXCEPT !.assigned_agent = NoActor]
  BY <1>1, <1>4 DEF Step
<1> QED
  BY <1>2, <1>3, <1>4

-----------------------------------------------------------------------------
(* Types.                                                                  *)

ReadsAreMarked == \A m \in Admins : admin[m].read.marked
TypeInv == OwnershipTypeOK /\ ReadsAreMarked

LEMMA InitType == OwnershipInit => TypeInv
<1> SUFFICES ASSUME OwnershipInit PROVE TypeInv
  OBVIOUS
<1>1. owner \in Record /\ OwnerRecord \in Record
  BY FiledRecord DEF OwnershipInit, OwnerRecord
<1>2. ASSUME NEW s \in Steps PROVE FiledStep(s) \in Step
  BY OwnershipConstants DEF FiledStep, Step, Unstamped, Stamps
<1>3. step \in [Steps -> Step]
  <2>1. CASE step = [s \in Steps |-> FiledStep(s)]
    BY <1>2, <2>1
  <2>2. ASSUME NEW a \in Actors,
               step = [s \in Steps |->
                         IF Binding[s] \in {NoActor, a}
                           THEN Claimed(FiledStep(s), a, [epoch |-> 1, marked |-> FALSE])
                           ELSE FiledStep(s)]
        PROVE  step \in [Steps -> Step]
    <3>1. [epoch |-> 1, marked |-> FALSE] \in Stamps
      BY DEF Stamps
    <3>2. ASSUME NEW s \in Steps
          PROVE  Claimed(FiledStep(s), a, [epoch |-> 1, marked |-> FALSE]) \in Step
      BY <1>2, <3>1, ClaimedStep
    <3> QED
      BY <1>2, <2>2, <3>2
  <2> QED
    BY <2>1, <2>2 DEF OwnershipInit
<1>4. call \in [Actors -> Call]
  BY DEF OwnershipInit, Call
<1>5. Filed(0, TRUE) \in Record /\ Filed(0, TRUE).marked
  BY FiledRecord DEF Filed
<1>6. NoTransfer \in Transfer /\ NoTransfer.read.marked
  BY <1>5 DEF NoTransfer, Transfer, Owners
<1> QED
  BY <1>1, <1>3, <1>4, <1>6 DEF OwnershipInit, TypeInv, OwnershipTypeOK, ReadsAreMarked

\* The record is the same, rebased or not.
LEMMA RecordKept ==
  ASSUME OwnershipTypeOK, owner' = owner \/ owner' = Rebased(owner)
  PROVE  OwnerRecord' = OwnerRecord /\ owner' \in Record
BY RebasedOnce DEF OwnershipTypeOK, OwnerRecord

LEMMA StepWritten ==
  ASSUME OwnershipTypeOK, NEW s \in Steps, NEW after \in Step,
         step' = [step EXCEPT ![s] = after]
  PROVE  /\ step' \in [Steps -> Step] /\ step'[s] = after
         /\ \A i \in Steps : i # s => step'[i] = step[i]
BY DEF OwnershipTypeOK

LEMMA CallWritten ==
  ASSUME OwnershipTypeOK, NEW a \in Actors, NEW c \in Call, call' = [call EXCEPT ![a] = c]
  PROVE  /\ call' \in [Actors -> Call] /\ call'[a] = c
         /\ \A b \in Actors : b # a => call'[b] = call[b]
BY DEF OwnershipTypeOK

LEMMA Moves ==
  ASSUME OwnershipTypeOK, NEW m \in Admins, NEW t \in Transfer, Move(m, t)
  PROVE  /\ admin' \in [Admins -> Transfer] /\ admin'[m] = t
         /\ \A n \in Admins : n # m => admin'[n] = admin[n]
BY DEF OwnershipTypeOK, Move

\* The item of a call is a step.
LEMMA CallsItem ==
  ASSUME OwnershipTypeOK, NEW a \in Actors, call[a].verb \in {"claim", "report", "attest"}
  PROVE  call[a].item \in Steps /\ call[a].epoch \in Nat /\ call[a].attempt \in Nat
<1>1. call[a] # NoCall
  BY DEF NoCall
<1>2. call[a] \in [verb: {"claim", "report", "attest"}, item: Steps, epoch: Nat, attempt: Nat]
  BY <1>1 DEF OwnershipTypeOK, Call
<1> QED
  BY <1>2

LEMMA NoCallType == NoCall \in Call
BY DEF Call

\* A stamp that is rebased counts as before.
LEMMA StampRebased ==
  ASSUME OwnershipTypeOK, NEW s \in Steps
  PROVE  [epoch |-> StampedEpoch(s), marked |-> TRUE] \in Stamps
<1>1. step[s].stamp \in Stamps
  BY DEF OwnershipTypeOK, Step
<1>2. StampedEpoch(s) \in Int
  BY <1>1 DEF StampedEpoch, Stamps
<1> QED
  BY <1>2 DEF Stamps

\* A write through the lock keeps the types when the new step has its type.
LEMMA WritingType ==
  ASSUME TypeInv, NEW a \in Actors, NEW s \in Steps, NEW after \in Step, Writing(a, s, after)
  PROVE  TypeInv'
<1>1. step' \in [Steps -> Step]
  BY StepWritten DEF Writing, TypeInv
<1>2. call' \in [Actors -> Call]
  BY CallWritten, NoCallType DEF Writing, TypeInv
<1> QED
  BY <1>1, <1>2 DEF TypeInv, Writing, OwnershipTypeOK, OwnerRecord, ReadsAreMarked

LEMMA CallingType ==
  ASSUME TypeInv, NEW a \in Actors, NEW c \in Call,
         call' = [call EXCEPT ![a] = c], UNCHANGED <<owner, step, admin, owed>>
  PROVE  TypeInv'
<1>1. call' \in [Actors -> Call]
  BY CallWritten DEF TypeInv
<1> QED
  BY <1>1 DEF TypeInv, OwnershipTypeOK, OwnerRecord, ReadsAreMarked

LEMMA StepWriteType ==
  ASSUME TypeInv, NEW s \in Steps, NEW after \in Step, StepWrite(s, after)
  PROVE  TypeInv'
<1>1. step' \in [Steps -> Step]
  BY StepWritten DEF StepWrite, TypeInv
<1> QED
  BY <1>1 DEF TypeInv, StepWrite, OwnershipTypeOK, OwnerRecord, ReadsAreMarked

LEMMA MoveType ==
  ASSUME TypeInv, NEW m \in Admins, NEW t \in Transfer, t.read.marked, Move(m, t),
         UNCHANGED <<owner, step, call>>, owed' \subseteq Steps \X Owners
  PROVE  TypeInv'
<1>1. admin' \in [Admins -> Transfer] /\ \A n \in Admins : admin'[n].read.marked
  BY Moves DEF TypeInv, ReadsAreMarked
<1> QED
  BY <1>1 DEF TypeInv, OwnershipTypeOK, OwnerRecord, ReadsAreMarked

LEMMA CallStepType ==
  ASSUME TypeInv, NEW a \in Actors, CallStep(a)
  PROVE  TypeInv'
<1> USE DEF TypeInv
<1>1. ASSUME NEW s \in Steps, CheckClaim(a, s) PROVE TypeInv'
  <2>1. Epoch \in Nat
    BY DEF Epoch, OwnershipTypeOK, Record
  <2>2. [verb |-> "claim", item |-> s, epoch |-> Epoch, attempt |-> 0] \in Call
    BY <2>1 DEF Call
  <2> QED
    BY <1>1, <2>2, CallingType DEF CheckClaim, Calling
<1>2. ASSUME NEW s \in Steps, NEW n \in 1..MaxAttempt, CheckReport(a, s, n) PROVE TypeInv'
  <2>1. [verb |-> "report", item |-> s, epoch |-> 0, attempt |-> n] \in Call
    BY OwnershipConstants DEF Call
  <2> QED
    BY <1>2, <2>1, CallingType DEF CheckReport, Calling
<1>3. ASSUME NEW s \in Steps, NEW epoch \in 0..MaxEpoch, CheckAttest(a, s, epoch) PROVE TypeInv'
  <2>1. [verb |-> "attest", item |-> s, epoch |-> epoch, attempt |-> 0] \in Call
    BY OwnershipConstants DEF Call
  <2> QED
    BY <1>3, <2>1, CallingType DEF CheckAttest, Calling
<1>4. CASE Claim(a)
  <2> DEFINE s == call[a].item
  <2>1. s \in Steps /\ [epoch |-> call[a].epoch, marked |-> TRUE] \in Stamps
    BY <1>4, CallsItem DEF Claim, Claimable, Stamps
  <2>2. step[s] \in Step
    BY <2>1 DEF OwnershipTypeOK
  <2>3. Claimed(step[s], a, [epoch |-> call[a].epoch, marked |-> TRUE]) \in Step
    BY <2>1, <2>2, ClaimedStep
  <2> QED
    BY <1>4, <2>1, <2>3, WritingType DEF Claim
<1>5. CASE CallDropped(a)
  BY <1>5, CallingType, NoCallType DEF CallDropped
<1>6. ASSUME NEW status, Report(a, status) PROVE TypeInv'
  <2> DEFINE s == call[a].item
  <2>1. s \in Steps /\ status \in {"pending", "done", "failed", "awaiting_verify"}
    BY <1>6, CallsItem DEF Report
  <2>2. step[s] \in Step
    BY <2>1 DEF OwnershipTypeOK
  <2>3. Released(step[s], status) \in Step
    BY <2>1, <2>2, ReleasedStep
  <2> QED
    BY <1>6, <2>1, <2>3, WritingType DEF Report
<1>7. ASSUME NEW passed \in BOOLEAN, Attest(a, passed) PROVE TypeInv'
  <2> DEFINE s == call[a].item
  <2>1. s \in Steps
    BY <1>7, CallsItem DEF Attest
  <2>2. step[s] \in Step
    BY <2>1 DEF OwnershipTypeOK
  <2>3. Answered(step[s], a, passed) \in Step
    BY <2>2, AnsweredStep
  <2> QED
    BY <1>7, <2>1, <2>3, WritingType DEF Attest
<1> QED
  BY <1>1, <1>2, <1>3, <1>4, <1>5, <1>6, <1>7 DEF CallStep

LEMMA TransferStepType ==
  ASSUME TypeInv, NEW m \in Admins, TransferStep(m)
  PROVE  TypeInv'
<1> USE DEF TypeInv
<1>1. OwnerRecord \in Record /\ OwnerRecord.marked
  BY RebasedOnce DEF OwnershipTypeOK, OwnerRecord
<1>2. admin[m] \in Transfer /\ admin[m].read.marked
  BY DEF OwnershipTypeOK, ReadsAreMarked
<1>3. NoTransfer \in Transfer /\ NoTransfer.read.marked
  BY FiledRecord DEF NoTransfer, Transfer, Owners, Filed
<1>4. ASSUME NEW to \in Owners, TransferRead(m, to) PROVE TypeInv'
  <2> DEFINE t == [NoTransfer EXCEPT !.phase = "record", !.read = OwnerRecord, !.to = to]
  <2>1. t \in Transfer /\ t.read = OwnerRecord
    BY <1>1, <1>3 DEF Transfer
  <2> QED
    BY <1>1, <1>4, <2>1, MoveType DEF TransferRead, OwnershipTypeOK
<1>5. CASE TransferRecord(m)
  <2> DEFINE t == [admin[m] EXCEPT !.phase = "list"]
  <2>1. t \in Transfer /\ t.read = admin[m].read
    BY <1>2 DEF Transfer
  <2>2. admin' \in [Admins -> Transfer] /\ \A n \in Admins : admin'[n].read.marked
    BY <1>2, <1>5, <2>1, Moves DEF TransferRecord, ReadsAreMarked
  <2>3. admin[m].read \in Record /\ admin[m].to \in Owners /\ admin[m].read.store \in Owners
    BY <1>2 DEF Transfer, Record
  <2>4. owner' \in Record /\ OwnerRecord' \in Record
    BY <1>2, <1>5, <2>3, MovedRecord DEF TransferRecord, OwnerRecord
  <2> QED
    BY <1>5, <2>2, <2>3, <2>4 DEF TransferRecord, OwnershipTypeOK, ReadsAreMarked
<1>6. CASE TransferList(m)
  <2> DEFINE todo == {s \in Steps : step[s].status # "done"}
  <2> DEFINE t == [admin[m] EXCEPT !.phase = "release", !.todo = todo]
  <2>1. t \in Transfer /\ t.read = admin[m].read
    BY <1>2 DEF Transfer
  <2> QED
    BY <1>2, <1>6, <2>1, MoveType DEF TransferList, OwnershipTypeOK
<1>7. ASSUME NEW s \in Steps, ReleaseForTransfer(m, s) PROVE TypeInv'
  <2> DEFINE t == [admin[m] EXCEPT !.todo = admin[m].todo \ {s}]
  <2>1. t \in Transfer /\ t.read = admin[m].read
    BY <1>2 DEF Transfer
  <2>2. admin' \in [Admins -> Transfer] /\ \A n \in Admins : admin'[n].read.marked
    BY <1>2, <1>7, <2>1, Moves DEF ReleaseForTransfer, ReadsAreMarked
  <2>3. step[s] \in Step
    BY DEF OwnershipTypeOK
  <2>4. step' \in [Steps -> Step]
    BY <1>7, <2>3, FreedStep, StepWritten DEF ReleaseForTransfer
  <2> QED
    BY <1>7, <2>2, <2>4 DEF ReleaseForTransfer, OwnershipTypeOK, OwnerRecord, ReadsAreMarked
<1>8. CASE TransferEnd(m)
  BY <1>3, <1>8, MoveType DEF TransferEnd, OwnershipTypeOK
<1>9. CASE Crash(m)
  BY <1>3, <1>9, MoveType DEF Crash, OwnershipTypeOK
<1> QED
  BY <1>4, <1>5, <1>6, <1>7, <1>8, <1>9 DEF TransferStep

LEMMA TypeStep ==
  ASSUME TypeInv, [OwnershipNext]_runvars
  PROVE  TypeInv'
<1>1. ASSUME NEW s \in Steps, Lapse(s) PROVE TypeInv'
  <2>1. [step[s] EXCEPT !.live = FALSE] \in Step
    BY DEF TypeInv, OwnershipTypeOK, Step
  <2> QED
    BY <1>1, <2>1, StepWriteType DEF Lapse
<1>2. ASSUME NEW s \in Steps, Reap(s) PROVE TypeInv'
  <2>1. Released(step[s], "pending") \in Step
    BY ReleasedStep DEF TypeInv, OwnershipTypeOK
  <2> QED
    BY <1>2, <2>1, StepWriteType DEF Reap
<1>3. ASSUME NEW s \in Steps, RebaseStamp(s) PROVE TypeInv'
  <2> DEFINE stamp == [epoch |-> StampedEpoch(s), marked |-> TRUE]
  <2>1. stamp \in Stamps
    BY StampRebased DEF TypeInv
  <2> HIDE DEF stamp
  <2>2. [step[s] EXCEPT !.stamp = stamp] \in Step
    BY <2>1 DEF TypeInv, OwnershipTypeOK, Step
  <2> QED
    BY <1>3, <2>2, StepWriteType DEF RebaseStamp, stamp
<1>4. CASE RebaseRecord
  BY <1>4, RecordKept DEF RebaseRecord, TypeInv, OwnershipTypeOK, ReadsAreMarked
<1>5. CASE UNCHANGED runvars
  BY <1>5 DEF runvars, TypeInv, OwnershipTypeOK, OwnerRecord, ReadsAreMarked
<1> QED
  BY <1>1, <1>2, <1>3, <1>4, <1>5, CallStepType, TransferStepType DEF OwnershipNext

\* Every record, step, call and transfer keeps its type, also the record in the
\* first count once it is lowered, and however many administrators there are.
THEOREM OwnershipTypeCorrect == OwnershipSpec => []OwnershipTypeOK
<1>1. TypeInv /\ [OwnershipNext]_runvars => TypeInv'
  BY TypeStep
<1>2. TypeInv => OwnershipTypeOK
  BY DEF TypeInv
<1> QED
  BY InitType, <1>1, <1>2, PTL DEF OwnershipSpec

-----------------------------------------------------------------------------
(* The inductive invariant.                                                *)

\* Nothing in the code keeps two administrators apart; the theorems that need
\* it assume it.
OneTransfer == \A m, n \in Admins : m = n

\* A transfer writes the record it read.
ReadIsCurrent ==
  \A m \in Admins : admin[m].phase = "record" => admin[m].read = OwnerRecord

\* A claim or attestation checked under the present epoch is the owner's; a
\* report that still fits the fence is of the present epoch, or a transfer has
\* yet to come to its step.
CallChecked(a) ==
  LET s == call[a].item
  IN  /\ call[a].verb \in {"claim", "attest"} =>
           /\ call[a].epoch <= Epoch
           /\ call[a].epoch = Epoch => MayAct(a, OwnerRecord)
      /\ call[a].verb = "report" =>
           /\ call[a].attempt <= step[s].lease_attempt
           /\ call[a].attempt = step[s].lease_attempt /\ step[s].leased_by = a =>
                StampedEpoch(s) = Epoch \/ NotYetFreed(s)

\* A lease stamped with the present epoch is held by the owner's.
HolderChecked(s) ==
  /\ step[s].status = "in_progress" <=> step[s].leased_by # NoActor
  /\ step[s].status = "in_progress" =>
       /\ 0 <= StampedEpoch(s) /\ StampedEpoch(s) <= Epoch
       /\ StampedEpoch(s) = Epoch => MayAct(step[s].leased_by, OwnerRecord)

OwnershipInv ==
  /\ TypeInv
  /\ EpochsCountTransfers
  /\ ReadIsCurrent
  /\ \A a \in Actors : CallChecked(a)
  /\ \A s \in Steps : HolderChecked(s)

LEMMA InitInv == OwnershipInit => OwnershipInv
<1> SUFFICES ASSUME OwnershipInit PROVE OwnershipInv
  OBVIOUS
<1>1. TypeInv
  BY InitType
<1>2. /\ OwnerRecord.store = Filer /\ Epoch = 0
      /\ OwnerRecord.history = <<[from |-> "filed", to |-> Filer, epoch |-> 0]>>
  BY FiledRecord DEF OwnershipInit, OwnerRecord, Epoch
<1>3. EpochsCountTransfers
  BY <1>2 DEF EpochsCountTransfers, Epoch
<1>4. ReadIsCurrent
  BY DEF OwnershipInit, NoTransfer, ReadIsCurrent
<1>5. \A a \in Actors : CallChecked(a)
  BY DEF OwnershipInit, NoCall, CallChecked
<1>6. ASSUME NEW s \in Steps PROVE HolderChecked(s)
  <2>1. FiledStep(s).status = "pending" /\ FiledStep(s).leased_by = NoActor
    BY DEF FiledStep
  <2>2. CASE step[s] = FiledStep(s)
    BY <2>1, <2>2 DEF HolderChecked
  <2>3. ASSUME NEW a \in Actors, MayAct(a, owner), owner = Filed(1, FALSE),
               step[s] = Claimed(FiledStep(s), a, [epoch |-> 1, marked |-> FALSE])
        PROVE  HolderChecked(s)
    <3>1. FiledStep(s) \in Step /\ [epoch |-> 1, marked |-> FALSE] \in Stamps
      BY OwnershipConstants DEF FiledStep, Step, Unstamped, Stamps
    <3>2. /\ step[s].status = "in_progress" /\ step[s].leased_by = a
          /\ step[s].stamp = [epoch |-> 1, marked |-> FALSE]
      BY <2>3, <3>1, ClaimedStep
    <3>3. StampedEpoch(s) = 0
      BY <3>2 DEF StampedEpoch
    <3>4. owner.store = Filer /\ owner.history = <<[from |-> "filed", to |-> Filer, epoch |-> 1]>>
      BY <2>3 DEF Filed
    <3>5. ~FormerOwner(a, OwnerRecord)
      BY <1>2, OwnershipConstants DEF FormerOwner, Speaks
    <3>6. MayAct(a, OwnerRecord)
      BY <1>2, <2>3, <3>4, <3>5 DEF MayAct
    <3>7. a # NoActor
      BY OwnershipConstants
    <3> QED
      BY <1>2, <3>2, <3>3, <3>6, <3>7 DEF HolderChecked
  <2> QED
    BY <2>2, <2>3 DEF OwnershipInit
<1> QED
  BY <1>1, <1>3, <1>4, <1>5, <1>6 DEF OwnershipInv

\* While the record stays, so does who may act, and the number.
LEMMA SameRecord ==
  ASSUME OwnerRecord' = OwnerRecord
  PROVE  /\ Epoch' = Epoch
         /\ \A a : MayAct(a, OwnerRecord') <=> MayAct(a, OwnerRecord)
         /\ EpochsCountTransfers => EpochsCountTransfers'
BY DEF Epoch, EpochsCountTransfers

\* A step keeps its lease, or what it had is fenced out and it is in order again.
SameLease(s) ==
  /\ step'[s].status = "in_progress" <=> step[s].status = "in_progress"
  /\ step'[s].leased_by = step[s].leased_by
  /\ step'[s].lease_attempt = step[s].lease_attempt
  /\ StampedEpoch(s)' = StampedEpoch(s)
NewFence(s) ==
  /\ step'[s].lease_attempt = step[s].lease_attempt + 1
  /\ HolderChecked(s)'

LEMMA SameStep ==
  ASSUME NEW s \in Steps, step'[s] = step[s]
  PROVE  SameLease(s)
BY DEF SameLease, StampedEpoch

\* Holders stay in order while the record stays.
LEMMA HoldersKept ==
  ASSUME OwnershipInv, OwnerRecord' = OwnerRecord,
         \A s \in Steps : SameLease(s) \/ NewFence(s)
  PROVE  \A s \in Steps : HolderChecked(s)'
<1> SUFFICES ASSUME NEW s \in Steps, SameLease(s) PROVE HolderChecked(s)'
  BY DEF NewFence
<1>1. HolderChecked(s)
  BY DEF OwnershipInv
<1> QED
  BY <1>1, SameRecord DEF HolderChecked, SameLease

\* So do the calls, while nothing that is owed is paid.
LEMMA CallKept ==
  ASSUME OwnershipInv, OwnerRecord' = OwnerRecord, owed' = owed,
         \A s \in Steps : SameLease(s) \/ NewFence(s),
         NEW a \in Actors, call'[a] = call[a]
  PROVE  CallChecked(a)'
<1> DEFINE s == call[a].item
<1>1. CallChecked(a) /\ TypeInv
  BY DEF OwnershipInv
<1>2. CASE call[a].verb # "report"
  BY <1>1, <1>2, SameRecord DEF CallChecked
<1>3. CASE call[a].verb = "report"
  <2>1. s \in Steps /\ call[a].attempt \in Nat
    BY <1>1, <1>3, CallsItem DEF TypeInv
  <2>2. step[s].lease_attempt \in Nat /\ call[a].attempt <= step[s].lease_attempt
    BY <1>1, <1>3, <2>1 DEF TypeInv, OwnershipTypeOK, Step, CallChecked
  <2>3. NotYetFreed(s)' <=> NotYetFreed(s)
    BY DEF NotYetFreed
  <2>4. CASE SameLease(s)
    BY <1>1, <1>3, <2>3, <2>4, SameRecord DEF CallChecked, SameLease
  <2>5. CASE NewFence(s)
    <3>1. call[a].attempt < step'[s].lease_attempt
      BY <2>1, <2>2, <2>5 DEF NewFence
    <3>2. /\ call[a].attempt <= step'[s].lease_attempt
          /\ call[a].attempt # step'[s].lease_attempt
      BY <2>1, <2>2, <2>5 DEF NewFence
    <3> QED
      BY <1>3, <3>2 DEF CallChecked
  <2> QED
    BY <2>1, <2>4, <2>5
<1> QED
  BY <1>2, <1>3

\* A step that leaves the record and what is owed, and disturbs no transfer.
LEMMA QuietStep ==
  ASSUME OwnershipInv, TypeInv', OwnerRecord' = OwnerRecord, owed' = owed,
         \A s \in Steps : SameLease(s) \/ NewFence(s),
         \A a \in Actors : call'[a] = call[a] \/ CallChecked(a)',
         \A m \in Admins : admin'[m].phase = "record" =>
                             admin'[m] = admin[m] \/ admin'[m].read = OwnerRecord
  PROVE  OwnershipInv'
<1>1. EpochsCountTransfers'
  BY SameRecord DEF OwnershipInv
<1>2. ReadIsCurrent'
  BY DEF OwnershipInv, ReadIsCurrent
<1>3. \A a \in Actors : CallChecked(a)'
  BY CallKept
<1>4. \A s \in Steps : HolderChecked(s)'
  BY HoldersKept
<1> QED
  BY <1>1, <1>2, <1>3, <1>4 DEF OwnershipInv

\* A call checked in its first step.
LEMMA CallingInv ==
  ASSUME OwnershipInv, TypeInv', NEW a \in Actors, NEW c \in Call, Calling(a, c),
         CallChecked(a)'
  PROVE  OwnershipInv'
<1>1. OwnerRecord' = OwnerRecord /\ owed' = owed
  BY DEF Calling, OwnerRecord
<1>2. \A s \in Steps : SameLease(s)
  BY SameStep DEF Calling
<1>3. \A b \in Actors : call'[b] = call[b] \/ CallChecked(b)'
  BY CallWritten DEF Calling, OwnershipInv, TypeInv
<1> QED
  BY <1>1, <1>2, <1>3, QuietStep DEF Calling

\* A call that ends in a write of its step.
LEMMA WritingInv ==
  ASSUME OwnershipInv, TypeInv', NEW a \in Actors, NEW s \in Steps, NEW after \in Step,
         Writing(a, s, after), SameLease(s) \/ NewFence(s)
  PROVE  OwnershipInv'
<1>1. OwnerRecord' = OwnerRecord /\ owed' = owed
  BY DEF Writing, OwnerRecord
<1>2. \A i \in Steps : SameLease(i) \/ NewFence(i)
  BY StepWritten, SameStep DEF Writing, OwnershipInv, TypeInv
<1>3. CallChecked(a)'
  <2>1. call'[a] = NoCall
    BY CallWritten, NoCallType DEF Writing, OwnershipInv, TypeInv
  <2> QED
    BY <2>1 DEF CallChecked, NoCall
<1>4. \A b \in Actors : call'[b] = call[b] \/ CallChecked(b)'
  BY <1>3, CallWritten, NoCallType DEF Writing, OwnershipInv, TypeInv
<1> QED
  BY <1>1, <1>2, <1>4, QuietStep DEF Writing

LEMMA StepWriteInv ==
  ASSUME OwnershipInv, TypeInv', NEW s \in Steps, NEW after \in Step,
         StepWrite(s, after), SameLease(s) \/ NewFence(s)
  PROVE  OwnershipInv'
<1>1. OwnerRecord' = OwnerRecord /\ owed' = owed
  BY DEF StepWrite, OwnerRecord
<1>2. \A i \in Steps : SameLease(i) \/ NewFence(i)
  BY StepWritten, SameStep DEF StepWrite, OwnershipInv, TypeInv
<1> QED
  BY <1>1, <1>2, QuietStep DEF StepWrite

\* A transfer's step that writes neither record nor steps.
LEMMA MoveInv ==
  ASSUME OwnershipInv, TypeInv', NEW m \in Admins, NEW t \in Transfer, Move(m, t),
         UNCHANGED <<owner, step, call, owed>>,
         t.phase = "record" => t.read = OwnerRecord
  PROVE  OwnershipInv'
<1>1. OwnerRecord' = OwnerRecord
  BY DEF OwnerRecord
<1>2. \A s \in Steps : SameLease(s)
  BY SameStep
<1>3. \A n \in Admins : admin'[n].phase = "record" =>
                          admin'[n] = admin[n] \/ admin'[n].read = OwnerRecord
  BY Moves DEF OwnershipInv, TypeInv
<1> QED
  BY <1>1, <1>2, <1>3, QuietStep

\* A lease that is given up is fenced out, and nobody holds the step.
LEMMA ReleasedFence ==
  ASSUME TypeInv, NEW s \in Steps,
         NEW status \in {"pending", "done", "failed", "awaiting_verify"},
         step'[s] = Released(step[s], status)
  PROVE  NewFence(s)
<1>1. step[s] \in Step
  BY DEF TypeInv, OwnershipTypeOK
<1>2. /\ step'[s].status # "in_progress" /\ step'[s].leased_by = NoActor
      /\ step'[s].lease_attempt = step[s].lease_attempt + 1
  BY <1>1, ReleasedStep
<1> QED
  BY <1>2 DEF NewFence, HolderChecked

LEMMA CallStepInv ==
  ASSUME OwnershipInv, TypeInv', NEW a \in Actors, CallStep(a)
  PROVE  OwnershipInv'
<1>0. TypeInv /\ Epoch \in Nat /\ CallChecked(a) /\ \A s \in Steps : step[s] \in Step
  BY DEF OwnershipInv, TypeInv, OwnershipTypeOK, Epoch, Record
<1>1. ASSUME NEW s \in Steps, CheckClaim(a, s) PROVE OwnershipInv'
  <2> DEFINE c == [verb |-> "claim", item |-> s, epoch |-> Epoch, attempt |-> 0]
  <2>1. c \in Call
    BY <1>0 DEF Call
  <2>2. call'[a] = c
    BY <1>0, <1>1, <2>1, CallWritten DEF CheckClaim, Calling, TypeInv
  <2>3. OwnerRecord' = OwnerRecord
    BY <1>1 DEF CheckClaim, Calling, OwnerRecord
  <2>4. Epoch' = Epoch /\ MayAct(a, OwnerRecord')
    BY <1>1, <2>3, SameRecord DEF CheckClaim
  <2>5. CallChecked(a)'
    BY <1>0, <2>2, <2>4 DEF CallChecked
  <2> QED
    BY <1>1, <2>1, <2>5, CallingInv DEF CheckClaim
<1>2. ASSUME NEW s \in Steps, NEW n \in 1..MaxAttempt, CheckReport(a, s, n) PROVE OwnershipInv'
  <2> DEFINE c == [verb |-> "report", item |-> s, epoch |-> 0, attempt |-> n]
  <2>1. c \in Call
    BY OwnershipConstants DEF Call
  <2>2. call'[a] = c
    BY <1>0, <1>2, <2>1, CallWritten DEF CheckReport, Calling, TypeInv
  <2>3. OwnerRecord' = OwnerRecord /\ step' = step
    BY <1>2 DEF CheckReport, Calling, OwnerRecord
  <2>4. ASSUME step[s].leased_by = a PROVE StampedEpoch(s) = Epoch
    <3>1. step[s].status = "in_progress" /\ 0 <= StampedEpoch(s)
      BY <2>4, OwnershipConstants DEF OwnershipInv, HolderChecked
    <3>2. step[s].stamp # Unstamped
      BY <3>1 DEF StampedEpoch, Unstamped
    <3> QED
      BY <1>2, <3>2 DEF CheckReport
  <2>5. /\ Epoch' = Epoch /\ StampedEpoch(s)' = StampedEpoch(s)
        /\ n <= step'[s].lease_attempt
    BY <1>2, <2>3, SameRecord DEF CheckReport, StampedEpoch
  <2>6. CallChecked(a)'
    BY <2>2, <2>3, <2>4, <2>5 DEF CallChecked
  <2> QED
    BY <1>2, <2>1, <2>6, CallingInv DEF CheckReport
<1>3. ASSUME NEW s \in Steps, NEW epoch \in 0..MaxEpoch, CheckAttest(a, s, epoch)
      PROVE  OwnershipInv'
  <2> DEFINE c == [verb |-> "attest", item |-> s, epoch |-> epoch, attempt |-> 0]
  <2>1. c \in Call /\ epoch <= Epoch
    BY <1>0, <1>3, OwnershipConstants DEF Call, CheckAttest
  <2>2. call'[a] = c
    BY <1>0, <1>3, <2>1, CallWritten DEF CheckAttest, Calling, TypeInv
  <2>3. OwnerRecord' = OwnerRecord
    BY <1>3 DEF CheckAttest, Calling, OwnerRecord
  <2>4. Epoch' = Epoch /\ MayAct(a, OwnerRecord')
    BY <1>3, <2>3, SameRecord DEF CheckAttest
  <2>5. CallChecked(a)'
    BY <2>1, <2>2, <2>4 DEF CallChecked
  <2> QED
    BY <1>3, <2>1, <2>5, CallingInv DEF CheckAttest
<1>4. CASE Claim(a)
  <2>0. PICK s \in Steps : s = call[a].item
    BY <1>0, <1>4, CallsItem DEF Claim, Claimable, TypeInv
  <2>12. PICK epoch \in Nat : epoch = call[a].epoch
    BY <1>0, <1>4, CallsItem DEF Claim, Claimable, TypeInv
  <2> DEFINE stamp == [epoch |-> epoch, marked |-> TRUE]
  <2>1. stamp \in Stamps /\ stamp.marked /\ stamp.epoch = epoch
    BY DEF Stamps
  <2> HIDE DEF stamp
  <2>2. Claimed(step[s], a, stamp) \in Step
    BY <1>0, <2>1, ClaimedStep
  <2>3. Writing(a, s, Claimed(step[s], a, stamp))
    BY <1>4, <2>0, <2>12 DEF Claim, stamp
  <2>4. step'[s] = Claimed(step[s], a, stamp)
    BY <1>0, <2>1, <2>2, <2>3, StepWritten DEF Writing, TypeInv
  <2>5. /\ step'[s].status = "in_progress" /\ step'[s].leased_by = a
        /\ step'[s].lease_attempt = step[s].lease_attempt + 1 /\ step'[s].stamp = stamp
    BY <1>0, <2>1, <2>4, ClaimedStep
  <2>6. StampedEpoch(s)' = epoch
    BY <2>1, <2>5 DEF StampedEpoch
  <2>7. epoch <= Epoch /\ (epoch = Epoch => MayAct(a, OwnerRecord))
    BY <1>0, <1>4, <2>12 DEF CallChecked, Claim, Claimable
  <2>8. OwnerRecord' = OwnerRecord
    BY <2>3 DEF Writing, OwnerRecord
  <2>9. a # NoActor /\ Epoch' = Epoch
        /\ (MayAct(a, OwnerRecord') <=> MayAct(a, OwnerRecord))
    BY <2>8, SameRecord, OwnershipConstants
  <2>10. 0 <= epoch
    OBVIOUS
  <2>11. NewFence(s)
    BY <2>5, <2>6, <2>7, <2>9, <2>10 DEF NewFence, HolderChecked
  <2> QED
    BY <2>1, <2>2, <2>3, <2>11, WritingInv
<1>5. CASE CallDropped(a)
  <2>1. OwnerRecord' = OwnerRecord /\ owed' = owed
    BY <1>5 DEF CallDropped, OwnerRecord
  <2>2. \A s \in Steps : SameLease(s)
    BY <1>5, SameStep DEF CallDropped
  <2>3. call'[a] = NoCall /\ \A b \in Actors : b # a => call'[b] = call[b]
    BY <1>0, <1>5, CallWritten, NoCallType DEF CallDropped, TypeInv
  <2>4. \A b \in Actors : call'[b] = call[b] \/ CallChecked(b)'
    BY <2>3 DEF CallChecked, NoCall
  <2> QED
    BY <1>5, <2>1, <2>2, <2>4, QuietStep DEF CallDropped
<1>6. ASSUME NEW status, Report(a, status) PROVE OwnershipInv'
  <2>0. PICK s \in Steps : s = call[a].item
    BY <1>0, <1>6, CallsItem DEF Report, TypeInv
  <2>1. status \in {"pending", "done", "failed", "awaiting_verify"}
    BY <1>6 DEF Report
  <2>2. Released(step[s], status) \in Step
    BY <1>0, <2>1, ReleasedStep
  <2>3. Writing(a, s, Released(step[s], status))
    BY <1>6, <2>0 DEF Report
  <2>4. step'[s] = Released(step[s], status)
    BY <1>0, <2>3, <2>2, StepWritten DEF Writing, TypeInv
  <2>5. NewFence(s)
    BY <1>0, <2>1, <2>4, ReleasedFence
  <2> QED
    BY <2>2, <2>3, <2>5, WritingInv
<1>7. ASSUME NEW passed \in BOOLEAN, Attest(a, passed) PROVE OwnershipInv'
  <2>0. PICK s \in Steps : s = call[a].item
    BY <1>0, <1>7, CallsItem DEF Attest, TypeInv
  <2>1. step[s].status \in {"awaiting_verify", "verify_failed"}
    BY <1>7, <2>0 DEF Attest
  <2>2. Answered(step[s], a, passed) \in Step
    BY <1>0, <2>1, AnsweredStep
  <2>12. Writing(a, s, Answered(step[s], a, passed))
    BY <1>7, <2>0 DEF Attest
  <2>3. step'[s] = Answered(step[s], a, passed)
    BY <1>0, <2>2, <2>12, StepWritten DEF Writing, TypeInv
  <2>4. /\ step'[s].status \in {"done", "verify_failed"}
        /\ step'[s].leased_by = step[s].leased_by
        /\ step'[s].lease_attempt = step[s].lease_attempt /\ step'[s].stamp = step[s].stamp
    BY <1>0, <2>1, <2>3, AnsweredStep
  <2>5. SameLease(s)
    BY <2>1, <2>4 DEF SameLease, StampedEpoch
  <2> QED
    BY <2>2, <2>5, <2>12, WritingInv
<1> QED
  BY <1>1, <1>2, <1>3, <1>4, <1>5, <1>6, <1>7 DEF CallStep

\* The one step that moves the record: whatever was checked is of an epoch that
\* is over, and every lease is owed to be voided.
LEMMA TransferRecordInv ==
  ASSUME OneTransfer, OwnershipInv, TypeInv', NEW m \in Admins, TransferRecord(m)
  PROVE  OwnershipInv'
<1>1. /\ OwnerRecord \in Record /\ OwnerRecord.marked /\ admin[m] \in Transfer
      /\ admin[m].read = OwnerRecord
  BY RebasedOnce DEF TransferRecord, ReadIsCurrent, OwnershipInv, TypeInv, OwnershipTypeOK, OwnerRecord
<1>2. PICK to \in Owners : to = admin[m].to
  BY <1>1 DEF Transfer
<1>3. OwnerRecord' = Moved(OwnerRecord, to)
  <2>1. owner' = Moved(OwnerRecord, to)
    BY <1>1, <1>2 DEF TransferRecord
  <2>2. OwnerRecord' = Rebased(owner')
    BY DEF OwnerRecord
  <2> QED
    BY <1>1, <2>1, <2>2, MovedRecord
<1> DEFINE entry == [from |-> OwnerRecord.store, to |-> to, epoch |-> OwnerRecord.epoch + 1]
<1>4. /\ OwnerRecord'.store = to /\ OwnerRecord'.epoch = OwnerRecord.epoch + 1
      /\ OwnerRecord'.history = Append(OwnerRecord.history, entry)
  BY <1>1, <1>3, MovedRecord
<1>5. Epoch \in Nat /\ Epoch' = Epoch + 1
  BY <1>1, <1>4 DEF Epoch, Record
<1>6. OwnerRecord.history \in Seq(Entry) /\ entry.from = OwnerRecord.store
  BY <1>1 DEF Record
<1> DEFINE n == Len(OwnerRecord.history)
<1>7. /\ n \in Nat /\ Len(OwnerRecord'.history) = n + 1 /\ OwnerRecord'.history[n + 1] = entry
      /\ \A k \in 1..n : OwnerRecord'.history[k] = OwnerRecord.history[k]
  BY <1>4, <1>6
<1>8. EpochsCountTransfers'
  <2>1. /\ OwnerRecord.epoch = n - 1
        /\ \A k \in 1..n : OwnerRecord.history[k].epoch = k - 1
        /\ \A k \in 1..(n - 1) : OwnerRecord.history[k + 1].from = OwnerRecord.history[k].to
        /\ OwnerRecord.history[n].to = OwnerRecord.store
    BY DEF OwnershipInv, EpochsCountTransfers
  <2> HIDE DEF n
  <2>2. OwnerRecord'.epoch = n
    BY <1>4, <1>7, <2>1
  <2>3. ASSUME NEW k \in 1..(n + 1) PROVE OwnerRecord'.history[k].epoch = k - 1
    <3>1. CASE k = n + 1
      BY <1>4, <1>7, <2>2, <3>1
    <3>2. CASE k \in 1..n
      BY <1>7, <2>1, <3>2
    <3> QED
      BY <1>7, <3>1, <3>2
  <2>4. ASSUME NEW k \in 1..n PROVE OwnerRecord'.history[k + 1].from = OwnerRecord'.history[k].to
    <3>1. CASE k = n
      BY <1>6, <1>7, <2>1, <3>1
    <3>2. CASE k \in 1..(n - 1)
      <4>1. k \in 1..n /\ k + 1 \in 1..n
        BY <1>7, <3>2
      <4> QED
        BY <1>7, <2>1, <3>2, <4>1
    <3> QED
      BY <1>7, <3>1, <3>2
  <2>5. OwnerRecord'.history[n + 1].to = OwnerRecord'.store
    BY <1>4, <1>7
  <2>6. (n + 1) - 1 = n
    BY <1>7
  <2> QED
    BY <1>7, <2>2, <2>3, <2>4, <2>5, <2>6 DEF EpochsCountTransfers
<1>9. ReadIsCurrent'
  <2>1. [admin[m] EXCEPT !.phase = "list"] \in Transfer
    BY <1>1 DEF Transfer
  <2>2. admin'[m].phase = "list"
    BY <1>1, <2>1, Moves DEF TransferRecord, OwnershipInv, TypeInv, Transfer
  <2> QED
    BY <2>2 DEF ReadIsCurrent, OneTransfer
<1>10. \A s \in Steps : StampedEpoch(s)' = StampedEpoch(s)
  BY DEF TransferRecord, StampedEpoch
<1>11. ASSUME NEW s \in Steps, step[s].status = "in_progress" PROVE NotYetFreed(s)'
  <2>1. <<s, OwnerRecord.store>> \in owed'
    BY <1>1, <1>11 DEF TransferRecord
  <2>2. OwnerRecord'.history[Len(OwnerRecord'.history)].from = OwnerRecord.store
    BY <1>6, <1>7
  <2> QED
    BY <2>1, <2>2 DEF NotYetFreed
<1>12. ASSUME NEW a \in Actors PROVE CallChecked(a)'
  <2>1. call'[a] = call[a] /\ step' = step /\ CallChecked(a)
    BY DEF TransferRecord, OwnershipInv
  <2>2. ASSUME call[a].verb \in {"claim", "attest"}
        PROVE  call[a].epoch <= Epoch' /\ call[a].epoch # Epoch'
    <3>1. call[a].epoch \in Nat /\ call[a].epoch <= Epoch
      BY <2>1, <2>2, CallsItem DEF CallChecked, OwnershipInv, TypeInv
    <3> QED
      BY <1>5, <3>1
  <2>3. ASSUME call[a].verb = "report", step[call[a].item].leased_by = a
        PROVE  NotYetFreed(call[a].item)'
    <3>1. PICK s \in Steps : s = call[a].item
      BY <2>3, CallsItem DEF OwnershipInv, TypeInv
    <3>2. step[s].status = "in_progress"
      BY <2>3, <3>1, OwnershipConstants DEF OwnershipInv, HolderChecked
    <3>3. NotYetFreed(s)'
      BY <1>11, <3>2
    <3> QED
      BY <2>1, <3>1, <3>3 DEF NotYetFreed
  <2> QED
    BY <2>1, <2>2, <2>3 DEF CallChecked
<1>13. ASSUME NEW s \in Steps PROVE HolderChecked(s)'
  <2>1. step' = step /\ HolderChecked(s) /\ StampedEpoch(s)' = StampedEpoch(s)
    BY <1>10 DEF TransferRecord, OwnershipInv
  <2>2. StampedEpoch(s) \in Int
    BY DEF StampedEpoch, OwnershipInv, TypeInv, OwnershipTypeOK, Step, Stamps
  <2>3. ASSUME step[s].status = "in_progress"
        PROVE  0 <= StampedEpoch(s) /\ StampedEpoch(s) <= Epoch' /\ StampedEpoch(s) # Epoch'
    <3>1. 0 <= StampedEpoch(s) /\ StampedEpoch(s) <= Epoch
      BY <2>1, <2>3 DEF HolderChecked
    <3> QED
      BY <1>5, <2>2, <3>1
  <2> QED
    BY <2>1, <2>3 DEF HolderChecked
<1> QED
  BY <1>8, <1>9, <1>12, <1>13 DEF OwnershipInv

\* A step that is released: if it was held, its lease is fenced out before the
\* debt is struck off.
LEMMA ReleaseForTransferInv ==
  ASSUME OwnershipInv, TypeInv', NEW m \in Admins, NEW s \in Steps, ReleaseForTransfer(m, s)
  PROVE  OwnershipInv'
<1> DEFINE former == FormerActors(admin[m].read.store)
<1>1. TypeInv /\ step[s] \in Step /\ admin[m] \in Transfer
  BY DEF OwnershipInv, TypeInv, OwnershipTypeOK
<1>2. OwnerRecord' = OwnerRecord /\ call' = call
  BY DEF ReleaseForTransfer, OwnerRecord
<1>3. Freed(step[s], former) \in Step
  BY <1>1, FreedStep
<1>4. step'[s] = Freed(step[s], former) /\ \A i \in Steps : i # s => step'[i] = step[i]
  BY <1>1, <1>3, StepWritten DEF ReleaseForTransfer, TypeInv
<1>5. step[s].status = "in_progress" => NewFence(s)
  <2> SUFFICES ASSUME step[s].status = "in_progress" PROVE NewFence(s)
    OBVIOUS
  <2>1. /\ step'[s].status = "pending" /\ step'[s].leased_by = NoActor
        /\ step'[s].lease_attempt = step[s].lease_attempt + 1
    BY <1>1, <1>4, FreedStep
  <2> QED
    BY <2>1 DEF NewFence, HolderChecked
<1>6. step[s].status # "in_progress" => SameLease(s)
  <2> SUFFICES ASSUME step[s].status # "in_progress" PROVE SameLease(s)
    OBVIOUS
  <2>1. /\ step'[s].status = step[s].status /\ step'[s].leased_by = step[s].leased_by
        /\ step'[s].lease_attempt = step[s].lease_attempt /\ step'[s].stamp = step[s].stamp
    BY <1>1, <1>4, FreedStep
  <2> QED
    BY <2>1 DEF SameLease, StampedEpoch
<1>7. \A i \in Steps : SameLease(i) \/ NewFence(i)
  BY <1>4, <1>5, <1>6, SameStep
<1>8. EpochsCountTransfers'
  BY <1>2, SameRecord DEF OwnershipInv
<1>9. ReadIsCurrent'
  <2>1. [admin[m] EXCEPT !.todo = admin[m].todo \ {s}] \in Transfer
    BY <1>1 DEF Transfer
  <2>2. admin'[m].phase = "release" /\ \A n \in Admins : n # m => admin'[n] = admin[n]
    BY <1>1, <2>1, Moves DEF ReleaseForTransfer, TypeInv, Transfer
  <2> QED
    BY <1>2, <2>2 DEF ReadIsCurrent, OwnershipInv
<1>10. \A i \in Steps : HolderChecked(i)'
  BY <1>2, <1>7, HoldersKept
<1>11. ASSUME NEW i \in Steps, i # s PROVE NotYetFreed(i)' <=> NotYetFreed(i)
  BY <1>2, <1>11 DEF NotYetFreed, ReleaseForTransfer
<1>12. ASSUME NEW a \in Actors PROVE CallChecked(a)'
  <2>1. CallChecked(a)
    BY DEF OwnershipInv
  <2>2. CASE call[a].verb # "report"
    BY <1>2, <2>1, <2>2, SameRecord DEF CallChecked
  <2>3. CASE call[a].verb = "report"
    <3>1. PICK i \in Steps : i = call[a].item
      BY <1>1, <2>3, CallsItem DEF TypeInv
    <3>2. /\ call[a].attempt \in Nat /\ step[i].lease_attempt \in Nat
          /\ call[a].attempt <= step[i].lease_attempt
          /\ call[a].attempt = step[i].lease_attempt /\ step[i].leased_by = a =>
               StampedEpoch(i) = Epoch \/ NotYetFreed(i)
      BY <1>1, <2>1, <2>3, <3>1, CallsItem DEF TypeInv, OwnershipTypeOK, Step, CallChecked
    <3>3. SUFFICES /\ call[a].attempt <= step'[i].lease_attempt
                   /\ call[a].attempt = step'[i].lease_attempt /\ step'[i].leased_by = a =>
                        StampedEpoch(i)' = Epoch \/ NotYetFreed(i)'
      BY <1>2, <2>3, <3>1, SameRecord DEF CallChecked, StampedEpoch, NotYetFreed
    <3>4. CASE NewFence(i)
      BY <3>2, <3>4 DEF NewFence
    <3>5. CASE SameLease(i) /\ i # s
      BY <1>11, <3>2, <3>5 DEF SameLease
    <3>6. CASE SameLease(s) /\ i = s /\ step[s].status # "in_progress"
      <4>1. step'[i].leased_by # a
        BY <3>6, OwnershipConstants DEF SameLease, OwnershipInv, HolderChecked
      <4> QED
        BY <3>2, <3>6, <4>1 DEF SameLease
    <3> QED
      BY <1>5, <1>6, <1>7, <3>4, <3>5, <3>6
  <2> QED
    BY <2>2, <2>3
<1> QED
  BY <1>8, <1>9, <1>10, <1>12 DEF OwnershipInv

LEMMA InvStep ==
  ASSUME OneTransfer, OwnershipInv, [OwnershipNext]_runvars
  PROVE  OwnershipInv'
<1>0. /\ TypeInv /\ TypeInv' /\ \A s \in Steps : step[s] \in Step
      /\ \A m \in Admins : admin[m] \in Transfer
  BY TypeStep DEF OwnershipInv, TypeInv, OwnershipTypeOK
<1>1. ASSUME NEW m \in Admins, TransferStep(m) PROVE OwnershipInv'
  <2>1. NoTransfer \in Transfer /\ NoTransfer.phase = "idle"
    BY FiledRecord DEF NoTransfer, Transfer, Owners
  <2>2. ASSUME NEW to \in Owners, TransferRead(m, to) PROVE OwnershipInv'
    <3> DEFINE t == [NoTransfer EXCEPT !.phase = "record", !.read = OwnerRecord, !.to = to]
    <3>1. OwnerRecord \in Record
      BY <1>0 DEF TypeInv, OwnershipTypeOK
    <3>2. t \in Transfer /\ t.read = OwnerRecord
      BY <2>1, <3>1 DEF Transfer
    <3> QED
      BY <1>0, <2>2, <3>2, MoveInv DEF TransferRead
  <2>3. CASE TransferList(m)
    <3> DEFINE todo == {s \in Steps : step[s].status # "done"}
    <3> DEFINE t == [admin[m] EXCEPT !.phase = "release", !.todo = todo]
    <3>1. t \in Transfer /\ t.phase = "release"
      BY <1>0 DEF Transfer
    <3> QED
      BY <1>0, <2>3, <3>1, MoveInv DEF TransferList
  <2>4. CASE TransferEnd(m) \/ Crash(m)
    BY <1>0, <2>1, <2>4, MoveInv DEF TransferEnd, Crash
  <2> QED
    BY <1>0, <1>1, <2>2, <2>3, <2>4, TransferRecordInv, ReleaseForTransferInv DEF TransferStep
<1>2. ASSUME NEW s \in Steps, Lapse(s) PROVE OwnershipInv'
  <2> DEFINE after == [step[s] EXCEPT !.live = FALSE]
  <2>1. /\ after \in Step /\ after.status = step[s].status /\ after.leased_by = step[s].leased_by
        /\ after.lease_attempt = step[s].lease_attempt /\ after.stamp = step[s].stamp
    BY <1>0 DEF Step
  <2>2. StepWrite(s, after)
    BY <1>2 DEF Lapse
  <2> HIDE DEF after
  <2>3. step'[s] = after
    BY <1>0, <2>1, <2>2, StepWritten DEF StepWrite, TypeInv
  <2>4. SameLease(s)
    BY <2>1, <2>3 DEF SameLease, StampedEpoch
  <2> QED
    BY <1>0, <2>1, <2>2, <2>4, StepWriteInv
<1>3. ASSUME NEW s \in Steps, Reap(s) PROVE OwnershipInv'
  <2>1. Released(step[s], "pending") \in Step
    BY <1>0, ReleasedStep
  <2>2. step'[s] = Released(step[s], "pending")
    BY <1>0, <1>3, <2>1, StepWritten DEF Reap, StepWrite, TypeInv
  <2>3. NewFence(s)
    BY <1>0, <2>2, ReleasedFence
  <2> QED
    BY <1>0, <1>3, <2>1, <2>3, StepWriteInv DEF Reap
<1>4. ASSUME NEW s \in Steps, RebaseStamp(s) PROVE OwnershipInv'
  <2>1. PICK stamp \in Stamps : stamp = [epoch |-> StampedEpoch(s), marked |-> TRUE]
    BY <1>0, StampRebased DEF TypeInv
  <2> DEFINE after == [step[s] EXCEPT !.stamp = stamp]
  <2>2. /\ after \in Step /\ after.status = step[s].status /\ after.leased_by = step[s].leased_by
        /\ after.lease_attempt = step[s].lease_attempt /\ after.stamp = stamp
    BY <1>0 DEF Step
  <2>3. StepWrite(s, after)
    BY <1>4, <2>1 DEF RebaseStamp
  <2> HIDE DEF after
  <2>4. step'[s] = after
    BY <1>0, <2>2, <2>3, StepWritten DEF StepWrite, TypeInv
  <2>5. stamp.marked /\ stamp.epoch = StampedEpoch(s)
    BY <2>1
  <2>6. StampedEpoch(s)' = stamp.epoch
    BY <2>2, <2>4, <2>5 DEF StampedEpoch
  <2>7. SameLease(s)
    BY <2>2, <2>4, <2>5, <2>6 DEF SameLease
  <2> QED
    BY <1>0, <2>2, <2>3, <2>7, StepWriteInv
<1>5. CASE RebaseRecord
  <2>1. OwnerRecord' = OwnerRecord
    BY <1>0, <1>5, RecordKept DEF RebaseRecord, TypeInv
  <2> QED
    BY <1>0, <1>5, <2>1, SameStep, QuietStep DEF RebaseRecord
<1>6. CASE UNCHANGED runvars
  <2>1. OwnerRecord' = OwnerRecord
    BY <1>6 DEF runvars, OwnerRecord
  <2> QED
    BY <1>0, <1>6, <2>1, SameStep, QuietStep DEF runvars
<1> QED
  BY <1>0, <1>1, <1>2, <1>3, <1>4, <1>5, <1>6, CallStepInv DEF OwnershipNext

-----------------------------------------------------------------------------
(* What the record says.                                                   *)

\* One transfer at a time: the epoch counts the transfers, and the history is
\* a chain of owners from the filing to the present one, in either count.
THEOREM EpochsCorrect ==
  ASSUME OneTransfer PROVE OwnershipSpec => []EpochsCountTransfers
<1>1. OwnershipInv /\ [OwnershipNext]_runvars => OwnershipInv'
  BY InvStep
<1>2. OwnershipInv => EpochsCountTransfers
  BY DEF OwnershipInv
<1> QED
  BY InitInv, <1>1, <1>2, PTL DEF OwnershipSpec

LEMMA HistoryStep ==
  ASSUME OwnershipInv, [OwnershipNext]_runvars
  PROVE  \/ OwnerRecord' = OwnerRecord
         \/ \E e : OwnerRecord'.history = Append(OwnerRecord.history, e)
<1>1. ASSUME NEW m \in Admins, TransferRecord(m)
      PROVE  \E e : OwnerRecord'.history = Append(OwnerRecord.history, e)
  <2>1. /\ OwnerRecord \in Record /\ OwnerRecord.marked
        /\ admin[m] \in Transfer /\ admin[m].read = OwnerRecord
    BY <1>1, RebasedOnce
    DEF TransferRecord, ReadIsCurrent, OwnershipInv, TypeInv, OwnershipTypeOK, OwnerRecord
  <2>2. PICK to \in Owners : to = admin[m].to
    BY <2>1 DEF Transfer
  <2>3. owner' = Moved(OwnerRecord, to) /\ OwnerRecord' = Rebased(owner')
    BY <1>1, <2>1, <2>2 DEF TransferRecord, OwnerRecord
  <2>4. OwnerRecord'.history =
          Append(OwnerRecord.history,
                 [from |-> OwnerRecord.store, to |-> to, epoch |-> OwnerRecord.epoch + 1])
    BY <2>1, <2>3, MovedRecord
  <2> QED
    BY <2>4
<1>2. CASE RebaseRecord
  BY <1>2, RecordKept DEF RebaseRecord, OwnershipInv, TypeInv
<1>3. ASSUME NEW a \in Actors, CallStep(a) PROVE OwnerRecord' = OwnerRecord
  BY <1>3 DEF CallStep, CheckClaim, CheckReport, CheckAttest, Calling, Claim, CallDropped,
              Report, Attest, Writing, OwnerRecord
<1>4. ASSUME NEW m \in Admins, TransferStep(m), ~TransferRecord(m)
      PROVE  OwnerRecord' = OwnerRecord
  BY <1>4 DEF TransferStep, TransferRead, TransferList, ReleaseForTransfer, TransferEnd, Crash,
              OwnerRecord
<1>5. ASSUME NEW s \in Steps, Lapse(s) \/ Reap(s) \/ RebaseStamp(s)
      PROVE  OwnerRecord' = OwnerRecord
  BY <1>5 DEF Lapse, Reap, RebaseStamp, StepWrite, OwnerRecord
<1>6. CASE UNCHANGED runvars
  BY <1>6 DEF runvars, OwnerRecord
<1> QED
  BY <1>1, <1>2, <1>3, <1>4, <1>5, <1>6 DEF OwnershipNext

\* One transfer at a time: no transfer that was recorded is lost or rewritten.
THEOREM TransfersKept ==
  ASSUME OneTransfer PROVE OwnershipSpec => TransfersAreKept
<1> DEFINE Kept == \A k \in DOMAIN OwnerRecord.history :
                     /\ k \in DOMAIN OwnerRecord'.history
                     /\ OwnerRecord'.history[k] = OwnerRecord.history[k]
<1>1. OwnershipInv /\ [OwnershipNext]_runvars => OwnershipInv'
  BY InvStep
<1>2. OwnershipInv /\ [OwnershipNext]_runvars => [Kept]_runvars
  <2> SUFFICES ASSUME OwnershipInv, [OwnershipNext]_runvars PROVE Kept
    OBVIOUS
  <2>1. OwnerRecord.history \in Seq(Entry)
    BY DEF OwnershipInv, TypeInv, OwnershipTypeOK, Record
  <2>2. CASE OwnerRecord' = OwnerRecord
    BY <2>2
  <2>3. ASSUME NEW e, OwnerRecord'.history = Append(OwnerRecord.history, e) PROVE Kept
    BY <2>1, <2>3
  <2> QED
    BY <2>2, <2>3, HistoryStep
<1> QED
  BY InitInv, <1>1, <1>2, PTL DEF OwnershipSpec, TransfersAreKept

-----------------------------------------------------------------------------
(* Who reports and who judges.                                             *)

\* What a step is turned to, and by which write.
Same(s) ==
  /\ step'[s].status = step[s].status
  /\ step'[s].verify_failures = step[s].verify_failures
Reopened(s) ==
  step[s].status \in {"pending", "in_progress"} /\ step'[s].status \in {"pending", "in_progress"}
ReportedBy(s, a) == call[a].item = s /\ \E status : Report(a, status)
AttestedBy(s, a) == call[a].item = s /\ \E passed \in BOOLEAN : Attest(a, passed)

LEMMA StepTurns ==
  ASSUME TypeInv, [OwnershipNext]_runvars, NEW s \in Steps
  PROVE  \/ Same(s) \/ Reopened(s)
         \/ \E a \in Actors : ReportedBy(s, a) \/ AttestedBy(s, a)
<1> USE DEF TypeInv
<1>0. \A i \in Steps : step[i] \in Step
  BY DEF OwnershipTypeOK
<1>1. ASSUME step' = step PROVE Same(s)
  BY <1>1 DEF Same
<1>2. ASSUME NEW i \in Steps, NEW after \in Step, step' = [step EXCEPT ![i] = after], i # s
      PROVE  Same(s)
  BY <1>2, StepWritten DEF Same
<1>3. ASSUME NEW a \in Actors, CallStep(a)
      PROVE  Same(s) \/ Reopened(s) \/ ReportedBy(s, a) \/ AttestedBy(s, a)
  <2>1. CASE step' = step
    BY <1>1, <2>1
  <2>2. CASE Claim(a)
    <3>1. PICK i \in Steps : i = call[a].item
      BY <2>2, CallsItem DEF Claim, Claimable
    <3>2. PICK stamp \in Stamps : stamp = [epoch |-> call[a].epoch, marked |-> TRUE]
      <4>1. call[a].epoch \in Int
        BY <2>2, CallsItem DEF Claim, Claimable
      <4>2. [epoch |-> call[a].epoch, marked |-> TRUE] \in Stamps
        BY <4>1 DEF Stamps
      <4> QED
        BY <4>2
    <3>3. /\ step' = [step EXCEPT ![i] = Claimed(step[i], a, stamp)]
          /\ Claimed(step[i], a, stamp) \in Step
          /\ Claimed(step[i], a, stamp).status = "in_progress"
          /\ step[i].status \in {"pending", "in_progress"}
      BY <1>0, <2>2, <3>1, <3>2, ClaimedStep DEF Claim, Claimable, Writing
    <3> QED
      BY <1>2, <3>3, StepWritten DEF Reopened
  <2>3. ASSUME NEW status, Report(a, status) PROVE Same(s) \/ ReportedBy(s, a)
    <3>1. PICK i \in Steps : i = call[a].item
      BY <2>3, CallsItem DEF Report
    <3>2. /\ step' = [step EXCEPT ![i] = Released(step[i], status)]
          /\ Released(step[i], status) \in Step
      BY <1>0, <2>3, <3>1, ReleasedStep DEF Report, Writing
    <3> QED
      BY <1>2, <2>3, <3>1, <3>2 DEF ReportedBy
  <2>4. ASSUME NEW passed \in BOOLEAN, Attest(a, passed) PROVE Same(s) \/ AttestedBy(s, a)
    <3>1. PICK i \in Steps : i = call[a].item
      BY <2>4, CallsItem DEF Attest
    <3>2. /\ step' = [step EXCEPT ![i] = Answered(step[i], a, passed)]
          /\ Answered(step[i], a, passed) \in Step
      BY <1>0, <2>4, <3>1, AnsweredStep DEF Attest, Writing
    <3> QED
      BY <1>2, <2>4, <3>1, <3>2 DEF AttestedBy
  <2> QED
    BY <1>3, <2>1, <2>2, <2>3, <2>4
    DEF CallStep, CheckClaim, CheckReport, CheckAttest, Calling, CallDropped
<1>4. ASSUME NEW m \in Admins, TransferStep(m) PROVE Same(s) \/ Reopened(s)
  <2>1. CASE step' = step
    BY <1>1, <2>1
  <2>2. ASSUME NEW i \in Steps, ReleaseForTransfer(m, i) PROVE Same(s) \/ Reopened(s)
    <3> DEFINE after == Freed(step[i], FormerActors(admin[m].read.store))
    <3>1. after \in Step
      BY <1>0, FreedStep
    <3>2. step' = [step EXCEPT ![i] = after]
      BY <2>2 DEF ReleaseForTransfer
    <3>3. CASE i # s
      BY <1>2, <3>1, <3>2, <3>3
    <3>4. CASE i = s
      <4>1. step'[s] = after
        BY <3>1, <3>2, <3>4, StepWritten
      <4>2. CASE step[s].status = "in_progress"
        BY <1>0, <3>4, <4>1, <4>2, FreedStep DEF Reopened
      <4>3. CASE step[s].status # "in_progress"
        <5>1. after = step[s] \/ after = [step[s] EXCEPT !.assigned_agent = NoActor]
          BY <3>4, <4>3 DEF Freed
        <5>2. after.status = step[s].status /\ after.verify_failures = step[s].verify_failures
          BY <1>0, <5>1 DEF Step
        <5> QED
          BY <4>1, <5>2 DEF Same
      <4> QED
        BY <4>2, <4>3
    <3> QED
      BY <3>3, <3>4
  <2> QED
    BY <1>4, <2>1, <2>2
    DEF TransferStep, TransferRead, TransferRecord, TransferList, TransferEnd, Crash
<1>5. ASSUME NEW i \in Steps, Lapse(i) PROVE Same(s)
  <2>1. /\ [step[i] EXCEPT !.live = FALSE] \in Step
        /\ [step[i] EXCEPT !.live = FALSE].status = step[i].status
        /\ [step[i] EXCEPT !.live = FALSE].verify_failures = step[i].verify_failures
    BY <1>0 DEF Step
  <2> QED
    BY <1>2, <1>5, <2>1, StepWritten DEF Lapse, StepWrite, Same
<1>6. ASSUME NEW i \in Steps, Reap(i) PROVE Same(s) \/ Reopened(s)
  <2>1. Released(step[i], "pending") \in Step /\ Released(step[i], "pending").status = "pending"
    BY <1>0, ReleasedStep
  <2> QED
    BY <1>2, <1>6, <2>1, StepWritten DEF Reap, StepWrite, Reopened
<1>7. ASSUME NEW i \in Steps, RebaseStamp(i) PROVE Same(s)
  <2>1. PICK stamp \in Stamps : stamp = [epoch |-> StampedEpoch(i), marked |-> TRUE]
    BY StampRebased
  <2>2. /\ [step[i] EXCEPT !.stamp = stamp] \in Step
        /\ [step[i] EXCEPT !.stamp = stamp].status = step[i].status
        /\ [step[i] EXCEPT !.stamp = stamp].verify_failures = step[i].verify_failures
    BY <1>0 DEF Step
  <2> QED
    BY <1>2, <1>7, <2>1, <2>2, StepWritten DEF RebaseStamp, StepWrite, Same
<1>8. CASE RebaseRecord \/ UNCHANGED runvars
  BY <1>1, <1>8 DEF RebaseRecord, runvars
<1> QED
  BY <1>3, <1>4, <1>5, <1>6, <1>7, <1>8 DEF OwnershipNext

\* Whoever was claimed, checked or sent when, a report lands from the present
\* owner's actors only, but for a step that the transfer has yet to come to.
LEMMA ReportOfOwner ==
  ASSUME OwnershipInv, [OwnershipNext]_runvars, NEW s \in Steps, Reported(s)
  PROVE  MayAct(step[s].leased_by, OwnerRecord) \/ NotYetFreed(s)
<1>1. PICK a \in Actors : ReportedBy(s, a) \/ AttestedBy(s, a)
  BY StepTurns DEF OwnershipInv, Reported, Same, Reopened
<1>2. ReportedBy(s, a)
  BY <1>1 DEF Reported, AttestedBy, Attest
<1>3. /\ call[a].verb = "report" /\ call[a].item = s
      /\ call[a].attempt = step[s].lease_attempt /\ step[s].leased_by = a
  BY <1>2 DEF ReportedBy, Report
<1>4. StampedEpoch(s) = Epoch \/ NotYetFreed(s)
  BY <1>3 DEF OwnershipInv, CallChecked
<1> QED
  BY <1>3, <1>4 DEF Reported, OwnershipInv, HolderChecked

\* A verdict lands from the present owner's actors only, at every moment of a
\* transfer.
LEMMA VerdictOfOwner ==
  ASSUME OwnershipInv, [OwnershipNext]_runvars, NEW s \in Steps, Judged(s)
  PROVE  MayAct(step'[s].attested_by, OwnerRecord)
<1>1. PICK a \in Actors : ReportedBy(s, a) \/ AttestedBy(s, a)
  BY StepTurns DEF OwnershipInv, Judged, Same, Reopened
<1>2. step[s].status # "in_progress"
  BY DEF Judged
<1>3. step[s].leased_by = NoActor
  BY <1>2 DEF OwnershipInv, HolderChecked
<1>4. AttestedBy(s, a)
  BY <1>1, <1>3, OwnershipConstants DEF ReportedBy, Report
<1>5. PICK passed \in BOOLEAN : Attest(a, passed)
  BY <1>4 DEF AttestedBy
<1>6. call[a].item = s /\ call[a].verb = "attest" /\ call[a].epoch = Epoch
  BY <1>4, <1>5 DEF AttestedBy, Attest
<1>7. MayAct(a, OwnerRecord)
  BY <1>6 DEF OwnershipInv, CallChecked
<1>8. step[s] \in Step /\ Answered(step[s], a, passed) \in Step
  BY AnsweredStep DEF OwnershipInv, TypeInv, OwnershipTypeOK
<1>9. step' = [step EXCEPT ![s] = Answered(step[s], a, passed)]
  BY <1>5, <1>6 DEF Attest, Writing
<1>10. step'[s] = Answered(step[s], a, passed)
  BY <1>8, <1>9, StepWritten DEF OwnershipInv, TypeInv
<1>11. step'[s].attested_by = a
  BY <1>8, <1>10, AnsweredStep
<1> QED
  BY <1>7, <1>11

\* One transfer at a time: neither a report nor a verdict of a former owner
\* lands, whatever was checked before the transfer or while it ran.
THEOREM AnswersCorrect ==
  ASSUME OneTransfer PROVE OwnershipSpec => AnswersAreTheOwners
<1> DEFINE Right == \A s \in Steps :
                      /\ Reported(s) => MayAct(step[s].leased_by, OwnerRecord) \/ NotYetFreed(s)
                      /\ Judged(s) => MayAct(step'[s].attested_by, OwnerRecord)
<1>1. OwnershipInv /\ [OwnershipNext]_runvars => OwnershipInv'
  BY InvStep
<1>2. OwnershipInv /\ [OwnershipNext]_runvars => [Right]_runvars
  BY ReportOfOwner, VerdictOfOwner
<1> QED
  BY InitInv, <1>1, <1>2, PTL DEF OwnershipSpec, AnswersAreTheOwners
-----------------------------------------------------------------------------
(* What a step is assigned to.                                             *)

\* An assignment was right when it was made: an actor of a store is one of the
\* store the run was filed for.
AssignmentsWereRight ==
  \A s \in Steps, store \in Stores : Speaks(Binding[s], store) => Speaks(Binding[s], Filer)

SameAssignment(s) ==
  /\ step'[s].assigned_agent = step[s].assigned_agent
  /\ Open(s)' => Open(s)
Dropped(s) == step'[s].assigned_agent = NoActor

\* Nobody speaks for no store.
LEMMA NobodySpeaks == \A store : ~Speaks(NoActor, store)
BY OwnershipConstants DEF Speaks

\* A claim, a lapse, an answer and a release leave the assignment.
LEMMA AssignmentLeft ==
  ASSUME NEW r \in Step
  PROVE  /\ \A a \in Actors, stamp \in Stamps :
              Claimed(r, a, stamp).assigned_agent = r.assigned_agent
         /\ \A status : Released(r, status).assigned_agent = r.assigned_agent
         /\ \A a \in Actors, passed \in BOOLEAN :
              Answered(r, a, passed).assigned_agent = r.assigned_agent
BY DEF Claimed, Released, Answered, Step

\* What the transfer makes of a step: an open one that is the former owner's is
\* nobody's now, another keeps its assignment.
LEMMA AssignmentFreed ==
  ASSUME NEW r \in Step, NEW former,
         r.status \notin {"pending", "in_progress"} \/ r.assigned_agent \notin former
  PROVE  /\ Freed(r, former).assigned_agent = r.assigned_agent
         /\ r.status \notin {"pending", "in_progress"} => Freed(r, former) = r
<1>1. Freed(r, former) = IF r.status = "in_progress" THEN Released(r, "pending") ELSE r
  BY DEF Freed
<1> QED
  BY <1>1, AssignmentLeft

LEMMA AssignmentDropped ==
  ASSUME NEW r \in Step, NEW former,
         r.status \in {"pending", "in_progress"}, r.assigned_agent \in former
  PROVE  Freed(r, former).assigned_agent = NoActor
<1> DEFINE voided == IF r.status = "in_progress" THEN Released(r, "pending") ELSE r
<1>1. voided \in Step
  BY ReleasedStep
<1>2. Freed(r, former) = [voided EXCEPT !.assigned_agent = NoActor]
  BY DEF Freed
<1> HIDE DEF voided
<1> QED
  BY <1>1, <1>2 DEF Step

LEMMA TransferReleases ==
  ASSUME TypeInv, NEW m \in Admins, NEW s \in Steps, ReleaseForTransfer(m, s)
  PROVE  /\ Dropped(s)
            \/ /\ SameAssignment(s)
               /\ Open(s) => step[s].assigned_agent \notin FormerActors(admin[m].read.store)
         /\ \A i \in Steps : i # s => step'[i] = step[i]
<1> DEFINE former == FormerActors(admin[m].read.store)
<1>1. step[s] \in Step
  BY DEF TypeInv, OwnershipTypeOK
<1>2. Freed(step[s], former) \in Step
  BY <1>1, FreedStep
<1>3. step'[s] = Freed(step[s], former) /\ \A i \in Steps : i # s => step'[i] = step[i]
  BY <1>2, StepWritten DEF ReleaseForTransfer, TypeInv
<1> HIDE DEF former
<1>4. CASE Open(s) /\ step[s].assigned_agent \in former
  BY <1>1, <1>3, <1>4, AssignmentDropped DEF Open, Dropped
<1>5. CASE ~(Open(s) /\ step[s].assigned_agent \in former)
  <2>1. step'[s].assigned_agent = step[s].assigned_agent
    BY <1>1, <1>3, <1>5, AssignmentFreed DEF Open
  <2>2. ~Open(s) => step'[s] = step[s]
    BY <1>1, <1>3, <1>5, AssignmentFreed DEF Open
  <2>3. Open(s)' => Open(s)
    BY <2>2 DEF Open
  <2> QED
    BY <1>3, <1>5, <2>1, <2>3 DEF SameAssignment, former
<1> QED
  BY <1>3, <1>4, <1>5

\* A write of one step that leaves its assignment.
LEMMA AssignmentKept ==
  ASSUME TypeInv, NEW i \in Steps, NEW after \in Step, step' = [step EXCEPT ![i] = after],
         after.assigned_agent = step[i].assigned_agent,
         after.status \in {"pending", "in_progress"} => Open(i)
  PROVE  \A s \in Steps : SameAssignment(s)
<1> SUFFICES ASSUME NEW s \in Steps PROVE SameAssignment(s)
  OBVIOUS
<1>1. CASE i = s
  BY <1>1, StepWritten DEF SameAssignment, Open, TypeInv
<1>2. CASE i # s
  BY <1>2, StepWritten DEF SameAssignment, Open, TypeInv
<1> QED
  BY <1>1, <1>2

LEMMA CallsKeepAssignments ==
  ASSUME TypeInv, NEW a \in Actors, CallStep(a)
  PROVE  \A s \in Steps : SameAssignment(s)
<1> USE DEF TypeInv
<1>0. \A i \in Steps : step[i] \in Step
  BY DEF OwnershipTypeOK
<1>1. CASE step' = step
  BY <1>1 DEF SameAssignment, Open
<1>2. CASE Claim(a)
  <2>1. PICK i \in Steps : i = call[a].item
    BY <1>2, CallsItem DEF Claim, Claimable
  <2>2. PICK stamp \in Stamps : stamp = [epoch |-> call[a].epoch, marked |-> TRUE]
    <3>1. call[a].epoch \in Int
      BY <1>2, CallsItem DEF Claim, Claimable
    <3>2. [epoch |-> call[a].epoch, marked |-> TRUE] \in Stamps
      BY <3>1 DEF Stamps
    <3> QED
      BY <3>2
  <2>3. /\ step' = [step EXCEPT ![i] = Claimed(step[i], a, stamp)]
        /\ Claimed(step[i], a, stamp) \in Step
        /\ step[i].status \in {"pending", "in_progress"}
    BY <1>0, <1>2, <2>1, <2>2, ClaimedStep DEF Claim, Claimable, Writing
  <2>4. Claimed(step[i], a, stamp).assigned_agent = step[i].assigned_agent
    BY <1>0, AssignmentLeft
  <2> QED
    BY <2>3, <2>4, AssignmentKept DEF Open
<1>3. ASSUME NEW status, Report(a, status) PROVE \A s \in Steps : SameAssignment(s)
  <2>1. PICK i \in Steps : i = call[a].item
    BY <1>3, CallsItem DEF Report
  <2>2. /\ step' = [step EXCEPT ![i] = Released(step[i], status)]
        /\ status \in {"failed", "awaiting_verify", "done"}
    BY <1>3, <2>1 DEF Report, Writing
  <2>3. /\ Released(step[i], status) \in Step
        /\ Released(step[i], status).status \notin {"pending", "in_progress"}
    BY <1>0, <2>2, ReleasedStep
  <2>4. Released(step[i], status).assigned_agent = step[i].assigned_agent
    BY <1>0, AssignmentLeft
  <2> QED
    BY <2>2, <2>3, <2>4, AssignmentKept
<1>4. ASSUME NEW passed \in BOOLEAN, Attest(a, passed) PROVE \A s \in Steps : SameAssignment(s)
  <2>1. PICK i \in Steps : i = call[a].item
    BY <1>4, CallsItem DEF Attest
  <2>2. /\ step' = [step EXCEPT ![i] = Answered(step[i], a, passed)]
        /\ Answered(step[i], a, passed) \in Step
        /\ Answered(step[i], a, passed).status \notin {"pending", "in_progress"}
    BY <1>0, <1>4, <2>1, AnsweredStep DEF Attest, Writing
  <2>3. Answered(step[i], a, passed).assigned_agent = step[i].assigned_agent
    BY <1>0, AssignmentLeft
  <2> QED
    BY <2>2, <2>3, AssignmentKept
<1> QED
  BY <1>1, <1>2, <1>3, <1>4
  DEF CallStep, CheckClaim, CheckReport, CheckAttest, Calling, CallDropped

LEMMA LeasesKeepAssignments ==
  ASSUME TypeInv, NEW i \in Steps, Lapse(i) \/ Reap(i) \/ RebaseStamp(i)
  PROVE  \A s \in Steps : SameAssignment(s)
<1>0. step[i] \in Step
  BY DEF TypeInv, OwnershipTypeOK
<1>1. CASE Lapse(i)
  <2>1. /\ [step[i] EXCEPT !.live = FALSE] \in Step
        /\ [step[i] EXCEPT !.live = FALSE].status = step[i].status
        /\ [step[i] EXCEPT !.live = FALSE].assigned_agent = step[i].assigned_agent
    BY <1>0 DEF Step
  <2> QED
    BY <1>1, <2>1, AssignmentKept DEF Lapse, StepWrite, Open
<1>2. CASE Reap(i)
  <2>1. Released(step[i], "pending") \in Step
    BY <1>0, ReleasedStep
  <2>2. Released(step[i], "pending").assigned_agent = step[i].assigned_agent
    BY <1>0, AssignmentLeft
  <2> QED
    BY <1>2, <2>1, <2>2, AssignmentKept DEF Reap, StepWrite, Open
<1>3. CASE RebaseStamp(i)
  <2>1. PICK stamp \in Stamps : stamp = [epoch |-> StampedEpoch(i), marked |-> TRUE]
    BY StampRebased DEF TypeInv
  <2>2. /\ [step[i] EXCEPT !.stamp = stamp] \in Step
        /\ [step[i] EXCEPT !.stamp = stamp].status = step[i].status
        /\ [step[i] EXCEPT !.stamp = stamp].assigned_agent = step[i].assigned_agent
    BY <1>0 DEF Step
  <2> QED
    BY <1>3, <2>1, <2>2, AssignmentKept DEF RebaseStamp, StepWrite, Open
<1> QED
  BY <1>1, <1>2, <1>3

\* An actor of some store may act, or a transfer away from a store of theirs has
\* yet to come to the step.
Served(a, s) ==
  MayAct(a, OwnerRecord) \/ \E o \in Owners : Speaks(a, o) /\ <<s, o>> \in owed
Assigned(s) ==
  /\ step[s].assigned_agent \in {NoActor, Binding[s]}
  /\ \A store \in Stores :
       Open(s) /\ Speaks(step[s].assigned_agent, store) => Served(step[s].assigned_agent, s)

FreeingInv ==
  /\ OwnerRecord.history[1].to = Filer
  /\ \A s \in Steps : Assigned(s)

LEMMA FreeingInit ==
  ASSUME AssignmentsWereRight, OwnershipInit
  PROVE  FreeingInv
<1>1. /\ OwnerRecord.store = Filer
      /\ OwnerRecord.history = <<[from |-> "filed", to |-> Filer, epoch |-> 0]>>
  BY FiledRecord DEF OwnershipInit, OwnerRecord
<1>2. OwnerRecord.history[1].to = Filer
  BY <1>1
<1>3. ASSUME NEW s \in Steps PROVE step[s].assigned_agent = Binding[s]
  <2>1. FiledStep(s) \in Step /\ [epoch |-> 1, marked |-> FALSE] \in Stamps
    BY OwnershipConstants DEF FiledStep, Step, Unstamped, Stamps
  <2>2. FiledStep(s).assigned_agent = Binding[s]
    BY DEF FiledStep
  <2>3. \A a \in Actors :
          Claimed(FiledStep(s), a, [epoch |-> 1, marked |-> FALSE]).assigned_agent = Binding[s]
    BY <2>1, <2>2, AssignmentLeft
  <2> QED
    BY <2>2, <2>3 DEF OwnershipInit
<1>4. ASSUME NEW s \in Steps, NEW store \in Stores, Speaks(Binding[s], store)
      PROVE  Served(Binding[s], s)
  <2>1. Speaks(Binding[s], Filer)
    BY <1>4 DEF AssignmentsWereRight
  <2>2. OwnerRecord.store # Hub
    BY <1>1, <2>1, OwnershipConstants DEF Speaks
  <2>3. MayAct(Binding[s], OwnerRecord)
    BY <1>1, <2>1, <2>2 DEF MayAct
  <2> QED
    BY <2>3 DEF Served
<1> QED
  BY <1>2, <1>3, <1>4 DEF FreeingInv, Assigned

\* While the record stays and nothing is paid, whoever is served stays served.
LEMMA FreeingKept ==
  ASSUME FreeingInv, OwnerRecord' = OwnerRecord, owed' = owed,
         \A s \in Steps : SameAssignment(s)
  PROVE  FreeingInv'
<1>1. ASSUME NEW s \in Steps PROVE Assigned(s)'
  <2>1. Assigned(s) /\ SameAssignment(s)
    BY DEF FreeingInv
  <2>2. \A a : Served(a, s)' <=> Served(a, s)
    BY DEF Served
  <2>3. PICK a : a = step[s].assigned_agent
    OBVIOUS
  <2>4. step'[s].assigned_agent = a /\ (Open(s)' => Open(s)) /\ a \in {NoActor, Binding[s]}
    BY <2>1, <2>3 DEF SameAssignment, Assigned
  <2>5. ASSUME NEW store \in Stores, Open(s)', Speaks(a, store) PROVE Served(a, s)'
    BY <2>1, <2>2, <2>3, <2>4, <2>5 DEF Assigned
  <2> QED
    BY <2>4, <2>5 DEF Assigned
<1> QED
  BY <1>1 DEF FreeingInv

LEMMA FreeingReleased ==
  ASSUME OwnershipInv, FreeingInv, NEW m \in Admins, NEW s \in Steps, ReleaseForTransfer(m, s)
  PROVE  FreeingInv'
<1>1. OwnerRecord' = OwnerRecord /\ owed' = owed \ {<<s, admin[m].read.store>>}
  BY DEF ReleaseForTransfer, OwnerRecord
<1>2. TypeInv
  BY DEF OwnershipInv
<1>3. ASSUME NEW i \in Steps, i # s PROVE Assigned(i)'
  <2>1. step'[i] = step[i] /\ Assigned(i)
    BY <1>2, <1>3, TransferReleases DEF FreeingInv
  <2>2. \A o : <<i, o>> \in owed' <=> <<i, o>> \in owed
    BY <1>1, <1>3
  <2> QED
    BY <1>1, <2>1, <2>2 DEF Assigned, Served, Open
<1>4. Assigned(s)'
  <2>1. CASE Dropped(s)
    BY <2>1, NobodySpeaks DEF Dropped, Assigned
  <2>2. CASE /\ SameAssignment(s)
             /\ Open(s) => step[s].assigned_agent \notin FormerActors(admin[m].read.store)
    <3>1. PICK a : a = step[s].assigned_agent
      OBVIOUS
    <3>2. step'[s].assigned_agent = a /\ (Open(s)' => Open(s)) /\ Assigned(s)
      BY <2>2, <3>1 DEF SameAssignment, FreeingInv
    <3>3. ASSUME NEW store \in Stores, Open(s)', Speaks(a, store) PROVE Served(a, s)'
      <4>1. Open(s) /\ Served(a, s)
        BY <3>1, <3>2, <3>3 DEF Assigned
      <4>2. a \notin FormerActors(admin[m].read.store)
        BY <2>2, <3>1, <4>1
      <4>3. ~Speaks(a, admin[m].read.store)
        BY <4>2 DEF FormerActors, Speaks
      <4>4. ASSUME NEW o \in Owners, Speaks(a, o), <<s, o>> \in owed PROVE <<s, o>> \in owed'
        <5>1. o # admin[m].read.store
          BY <4>3, <4>4
        <5> QED
          BY <1>1, <4>4, <5>1
      <4> QED
        BY <1>1, <4>1, <4>4 DEF Served
    <3>4. step'[s].assigned_agent \in {NoActor, Binding[s]}
      BY <3>1, <3>2 DEF Assigned
    <3> QED
      BY <3>2, <3>3, <3>4 DEF Assigned, Served
  <2> QED
    BY <1>2, <2>1, <2>2, TransferReleases
<1> QED
  BY <1>1, <1>3, <1>4 DEF FreeingInv

\* Under the hub an actor of the store that filed the run is a former owner's:
\* the history is a chain that begins with that store.
LEMMA FilersAreFormer ==
  ASSUME OwnershipInv, FreeingInv, NEW a, Speaks(a, Filer), OwnerRecord.store = Hub
  PROVE  FormerOwner(a, OwnerRecord)
<1> DEFINE h == OwnerRecord.history
<1>1. h \in Seq(Entry)
  BY DEF OwnershipInv, TypeInv, OwnershipTypeOK, Record
<1>2. /\ h[1].to = Filer /\ h[Len(h)].to = Hub
      /\ \A k \in 1..(Len(h) - 1) : h[k + 1].from = h[k].to
      /\ Len(h) - 1 \in Nat
  BY DEF OwnershipInv, EpochsCountTransfers, FreeingInv, TypeInv, OwnershipTypeOK, Record
<1>3. Filer # Hub
  BY OwnershipConstants DEF Speaks
<1> HIDE DEF h
<1>4. Len(h) \in Nat /\ Len(h) # 1
  BY <1>1, <1>2, <1>3
<1>5. 2 \in 1..Len(h) /\ 1 \in 1..(Len(h) - 1)
  <2>1. PICK n \in Nat : n = Len(h)
    BY <1>4
  <2>2. n - 1 \in Nat /\ n # 1
    BY <1>2, <1>4, <2>1
  <2>3. 2 \in 1..n /\ 1 \in 1..(n - 1)
    BY <2>2
  <2> QED
    BY <2>1, <2>3
<1>6. 2 \in DOMAIN h /\ h[1 + 1].from = Filer
  BY <1>1, <1>2, <1>5
<1>7. 1 + 1 = 2
  OBVIOUS
<1> QED
  BY <1>3, <1>6, <1>7 DEF FormerOwner, h

LEMMA FreeingRecorded ==
  ASSUME AssignmentsWereRight, OwnershipInv, FreeingInv,
         NEW m \in Admins, TransferRecord(m)
  PROVE  FreeingInv'
<1>1. /\ OwnerRecord \in Record /\ OwnerRecord.marked
      /\ admin[m] \in Transfer /\ admin[m].read = OwnerRecord
  BY RebasedOnce
  DEF TransferRecord, ReadIsCurrent, OwnershipInv, TypeInv, OwnershipTypeOK, OwnerRecord
<1>2. /\ step' = step /\ owed \subseteq owed'
      /\ \A s \in Steps : Open(s) => <<s, OwnerRecord.store>> \in owed'
  BY <1>1 DEF TransferRecord, Open
<1>3. OwnerRecord'.history[1] = OwnerRecord.history[1]
  <2>1. PICK to \in Owners : to = admin[m].to
    BY <1>1 DEF Transfer
  <2>2. owner' = Moved(OwnerRecord, to) /\ OwnerRecord' = Rebased(owner')
    BY <1>1, <2>1 DEF TransferRecord, OwnerRecord
  <2>3. OwnerRecord'.history =
          Append(OwnerRecord.history,
                 [from |-> OwnerRecord.store, to |-> to, epoch |-> OwnerRecord.epoch + 1])
    BY <1>1, <2>2, MovedRecord
  <2>4. OwnerRecord.history \in Seq(Entry) /\ Len(OwnerRecord.history) - 1 \in Nat
    BY <1>1 DEF OwnershipInv, EpochsCountTransfers, Record
  <2>5. 1 \in 1..Len(OwnerRecord.history)
    BY <2>4
  <2> QED
    BY <2>3, <2>4, <2>5
<1>4. ASSUME NEW s \in Steps, NEW store \in Stores, NEW a, a = step[s].assigned_agent,
             Open(s), Speaks(a, store)
      PROVE  \E o \in Owners : Speaks(a, o) /\ <<s, o>> \in owed'
  <2>1. Assigned(s)
    BY DEF FreeingInv
  <2>2. a = Binding[s] /\ Speaks(a, Filer)
    BY <1>4, <2>1, NobodySpeaks DEF Assigned, AssignmentsWereRight
  <2>3. CASE OwnerRecord.store # Hub /\ Speaks(a, OwnerRecord.store)
    BY <1>1, <1>2, <1>4, <2>3 DEF Record
  <2>4. CASE ~MayAct(a, OwnerRecord)
    BY <1>2, <1>4, <2>1, <2>4 DEF Assigned, Served
  <2> QED
    BY <2>2, <2>3, <2>4, FilersAreFormer DEF MayAct
<1>5. ASSUME NEW s \in Steps PROVE Assigned(s)'
  <2>1. Assigned(s) /\ step'[s] = step[s] /\ (Open(s)' <=> Open(s))
    BY <1>2 DEF FreeingInv, Open
  <2> QED
    BY <1>4, <2>1 DEF Assigned, Served
<1> QED
  BY <1>3, <1>5 DEF FreeingInv

LEMMA FreeingStep ==
  ASSUME AssignmentsWereRight, OwnershipInv, FreeingInv, [OwnershipNext]_runvars
  PROVE  FreeingInv'
<1>0. TypeInv
  BY DEF OwnershipInv
<1>1. ASSUME step' = step PROVE \A s \in Steps : SameAssignment(s)
  BY <1>1 DEF SameAssignment, Open
<1>2. ASSUME NEW a \in Actors, CallStep(a) PROVE FreeingInv'
  <2>1. OwnerRecord' = OwnerRecord /\ owed' = owed
    BY <1>2 DEF CallStep, CheckClaim, CheckReport, CheckAttest, Calling, Claim, CallDropped,
                Report, Attest, Writing, OwnerRecord
  <2> QED
    BY <1>0, <1>2, <2>1, CallsKeepAssignments, FreeingKept
<1>3. ASSUME NEW m \in Admins, TransferStep(m) PROVE FreeingInv'
  <2>1. CASE \/ \E to \in Owners : TransferRead(m, to)
             \/ TransferList(m) \/ TransferEnd(m) \/ Crash(m)
    <3>1. OwnerRecord' = OwnerRecord /\ owed' = owed /\ step' = step
      BY <2>1 DEF TransferRead, TransferList, TransferEnd, Crash, OwnerRecord
    <3> QED
      BY <1>1, <3>1, FreeingKept
  <2> QED
    BY <1>3, <2>1, FreeingRecorded, FreeingReleased DEF TransferStep
<1>4. ASSUME NEW s \in Steps, Lapse(s) \/ Reap(s) \/ RebaseStamp(s) PROVE FreeingInv'
  <2>1. OwnerRecord' = OwnerRecord /\ owed' = owed
    BY <1>4 DEF Lapse, Reap, RebaseStamp, StepWrite, OwnerRecord
  <2> QED
    BY <1>0, <1>4, <2>1, LeasesKeepAssignments, FreeingKept
<1>5. CASE RebaseRecord
  <2>1. OwnerRecord' = OwnerRecord /\ owed' = owed /\ step' = step
    BY <1>0, <1>5, RecordKept DEF RebaseRecord, TypeInv
  <2> QED
    BY <1>1, <2>1, FreeingKept
<1>6. CASE UNCHANGED runvars
  <2>1. OwnerRecord' = OwnerRecord /\ owed' = owed /\ step' = step
    BY <1>6 DEF runvars, OwnerRecord
  <2> QED
    BY <1>1, <2>1, FreeingKept
<1> QED
  BY <1>2, <1>3, <1>4, <1>5, <1>6 DEF OwnershipNext

\* One transfer at a time, of a run whose assignments were right when it was
\* filed: an open step is never left to an actor of a store that may not act,
\* but for a transfer that has yet to come to it or died on its way.
THEOREM AssignmentsFollow ==
  ASSUME OneTransfer, AssignmentsWereRight
  PROVE  OwnershipSpec => []StepsAreFreed
<1>1. OwnershipInit => OwnershipInv /\ FreeingInv
  BY InitInv, FreeingInit
<1>2. OwnershipInv /\ FreeingInv /\ [OwnershipNext]_runvars => OwnershipInv' /\ FreeingInv'
  BY InvStep, FreeingStep
<1>3. FreeingInv => StepsAreFreed
  BY DEF FreeingInv, Assigned, Served, StepsAreFreed
<1> QED
  BY <1>1, <1>2, <1>3, PTL DEF OwnershipSpec
=============================================================================
