--------------------------- MODULE WorkQueueProofs ---------------------------
(***************************************************************************)
(* Theorems about the work queue, for every value of its constants.        *)
(***************************************************************************)
EXTENDS WorkQueueRows

-----------------------------------------------------------------------------
(* Type correctness.                                                       *)

LEMMA InitTypeOK == Init => TypeOK
<1> SUFFICES ASSUME Init PROVE TypeOK
  OBVIOUS
<1>1. row \in [Items -> Row]
  BY FiledRowType DEF Init
<1>2. seen \in [Agents -> Read]
  BY DEF Init, NoRead, Read
<1> QED
  BY <1>1, <1>2 DEF TypeOK

\* Everything that may be named as a fence or a rung is a number.
LEMMA NumbersType == 1..MaxAttempt \subseteq Nat /\ Stages \subseteq Nat
BY ConstantsOK DEF Stages, Requests

LEMMA WaitsType ==
  ASSUME NEW r \in Row, NEW i \in Items
  PROVE  [r EXCEPT !.blocked_by = r.blocked_by \cup {i}] \in Row
BY DEF Row

\* Filing an item, which also adds it to what its parent waits for.
LEMMA CreateTypeOK ==
  ASSUME TypeOK, NEW i \in Items, Create(i)
  PROVE  TypeOK'
<1> DEFINE Waits(j) == [row[j] EXCEPT !.blocked_by = row[j].blocked_by \cup {i}]
<1>1. \A j \in Items : Waits(j) \in Row
  BY WaitsType DEF TypeOK
<1>2. FiledRow(i) \in Row
  BY FiledRowType
<1>3. \A j \in Items : row'[j] \in {FiledRow(i), Waits(j), row[j]}
  BY DEF Create
<1>4. row' = [j \in Items |-> row'[j]]
  BY DEF Create
<1> HIDE DEF Waits
<1>5. \A j \in Items : row'[j] \in Row
  BY <1>1, <1>2, <1>3 DEF TypeOK
<1>6. row' \in [Items -> Row]
  BY <1>4, <1>5
<1> QED
  BY <1>6 DEF TypeOK, Create

\* The two writes of the adjudicator and of the renewing holder.
LEMMA AdjudicateTypeOK ==
  ASSUME TypeOK, NEW a \in Agents, NEW i \in Items, Adjudicate(a, i)
  PROVE  TypeOK'
<1> DEFINE r == row[i]
<1>1. r \in Row
  BY DEF TypeOK
<1> HIDE DEF r
<1>2. [r EXCEPT !.adjudication = a] \in Row
  BY <1>1 DEF Row
<1>3. row' = [row EXCEPT ![i] = [r EXCEPT !.adjudication = a]]
  BY DEF Adjudicate, TypeOK, r
<1> QED
  BY <1>2, <1>3 DEF TypeOK, Adjudicate

LEMMA RenewTypeOK ==
  ASSUME TypeOK, NEW a \in Agents, NEW i \in Items, NEW n, NEW ttl \in TTLs,
         Renew(a, i, n, ttl)
  PROVE  TypeOK'
<1> DEFINE r == row[i]
           limit == LeaseMaxAge - r.age
           left == IF ttl < limit THEN ttl ELSE limit
<1>0. r \in Row
  BY DEF TypeOK
<1>1. left \in Nat
  <2>1. r.age \in Nat /\ ttl \in Nat /\ LeaseMaxAge \in Nat
    BY <1>0, ConstantsOK DEF Row
  <2>2. limit > 0
    BY DEF Renew
  <2> QED
    BY <2>1, <2>2
<1>3. row' = [row EXCEPT ![i] = [r EXCEPT !.left = left]]
  BY DEF Renew, TypeOK
<1> HIDE DEF r, left
<1>2. [r EXCEPT !.left = left] \in Row
  BY <1>0, <1>1 DEF Row
<1> QED
  BY <1>2, <1>3 DEF TypeOK, Renew

\* One action after the other.
LEMMA NextTypeOK == TypeOK /\ [Next]_vars => TypeOK'
<1> SUFFICES ASSUME TypeOK, [Next]_vars PROVE TypeOK'
  OBVIOUS
<1> USE DEF TypeOK
<1>1. ASSUME NEW i \in Items, Create(i) PROVE TypeOK'
  BY <1>1, CreateTypeOK
<1>2. ASSUME NEW a \in Agents, NEW i \in Items, ClaimRead(a, i) PROVE TypeOK'
  <2>1. DoneIds \in SUBSET Items
    BY DEF DoneIds
  <2> QED
    BY <1>2, <2>1 DEF ClaimRead, Read
<1>3. ASSUME NEW a \in Agents, ClaimDropped(a) PROVE TypeOK'
  BY <1>3 DEF ClaimDropped, Read, NoRead
<1>4. ASSUME NEW a \in Agents, NEW ttl \in TTLs, Claim(a, ttl) PROVE TypeOK'
  <2> DEFINE i == seen[a].item
  <2>1. CASE i \in Items
    <3>1. Claimed(row[i], a, ttl) \in Row
      BY <2>1, ClaimedType
    <3> QED
      BY <1>4, <2>1, <3>1 DEF Claim, Read, NoRead
  <2>2. CASE i \notin Items
    BY <1>4, <2>2 DEF Claim, Read, NoRead
  <2> QED
    BY <2>1, <2>2
<1>5. ASSUME NEW a \in Agents, NEW i \in Items, NEW n \in 1..MaxAttempt,
             NEW ttl \in TTLs, Renew(a, i, n, ttl)
      PROVE  TypeOK'
  BY <1>5, RenewTypeOK
<1>6. ASSUME NEW i \in Items, Reap(i) PROVE TypeOK'
  BY <1>6, LapsedType DEF Reap
<1>7. ASSUME NEW a \in Agents, NEW i \in Items, NEW n \in 1..MaxAttempt, ReportFailed(a, i, n)
      PROVE  TypeOK'
  <2>1. Released(row[i], a, n) \in Row
    BY ReleasedType, NumbersType
  <2>2. [Released(row[i], a, n) EXCEPT !.status = "failed"] \in Row
    BY <2>1, StatusSetType DEF Status, Settled, Terminal
  <2> QED
    BY <1>7, <2>2, CascadeType DEF ReportFailed
<1>8. ASSUME NEW a \in Agents, NEW i \in Items, NEW n \in 1..MaxAttempt,
             NEW o \in Outcomes, NEW g \in Stages, ReportDone(a, i, n, o, g)
      PROVE  TypeOK'
  <2>1. Released(row[i], a, n) \in Row /\ g \in Nat
    BY ReleasedType, NumbersType
  <2>2. Landed(i, Released(row[i], a, n), a, o, g) \in Row
    BY <2>1, LandedType
  <2> QED
    BY <1>8, <2>2, CascadeType DEF ReportDone
<1>9. ASSUME NEW a \in Agents, NEW i \in Items, NEW o \in Outcomes, NEW g \in Stages,
             Attest(a, i, o, g)
      PROVE  TypeOK'
  <2>1. g \in Nat
    BY NumbersType
  <2>2. Attested(i, row[i], a, o, g) \in Row
    BY <2>1, AttestedType
  <2> QED
    BY <1>9, <2>2, CascadeType DEF Attest
<1>10. ASSUME NEW i \in Items, NEW d \in Defaults, ResolveByDefault(i, d) PROVE TypeOK'
  <2>1. Defaulted(i, row[i], d) \in Row
    BY DefaultedType
  <2> QED
    BY <1>10, <2>1, CascadeType DEF ResolveByDefault
<1>11. ASSUME NEW i \in Items, Retire(i) PROVE TypeOK'
  BY <1>11, RetiredType DEF Retire
<1>12. ASSUME NEW a \in Agents, NEW i \in Items, Adjudicate(a, i) PROVE TypeOK'
  BY <1>12, AdjudicateTypeOK
<1>13. ASSUME Tick PROVE TypeOK'
  BY <1>13, AgedType DEF Tick
<1>14. CASE UNCHANGED vars
  BY <1>14 DEF vars
<1> QED
  BY <1>1, <1>2, <1>3, <1>4, <1>5, <1>6, <1>7, <1>8, <1>9, <1>10, <1>11, <1>12,
     <1>13, <1>14
  DEF Next, WorkNext, Verdict, PlaneNext

\* Every reachable state of the queue is one its types describe: each write
\* leaves a whole row behind.
THEOREM TypeCorrect == Spec => []TypeOK
BY InitTypeOK, NextTypeOK, PTL DEF Spec

-----------------------------------------------------------------------------
(* The shape of a step: what may happen to the rows, whichever action was  *)
(* taken.  All the theorems below follow from it.                          *)

\* Neither who held the row nor what answered it changes.
Kept(r, s) ==
  /\ SameHolding(r, s)
  /\ s.attestation = r.attestation /\ s.resolution = r.resolution

Quiet(r, s) ==
  /\ Kept(r, s)
  /\ s.status = r.status \/ (r.status = "unfiled" /\ s.status = "pending")

\* A container closed by the cascade.
Closes(r, s) == Kept(r, s) /\ r.status = "pending" /\ s.status = "done"

\* Handed out by a claim, on what the claimant had read.
Granted(i, s) ==
  /\ row[i].status \in {"pending", "in_progress", "verify_failed"}
  /\ ~LeaseActive(row[i])
  /\ \E a \in Agents : seen[a].item = i /\ row[i].blocked_by \subseteq seen[a].done
  /\ s.status = "in_progress" /\ s.leased_by \in Agents
  /\ s.lease_attempt = row[i].lease_attempt + 1

\* Ended by its holder's report, or after it lapsed.
Ended(r, s) ==
  /\ r.leased_by # NoAgent /\ r.status = "in_progress"
  /\ \/ ~LeaseActive(r)
     \/ s.lease_report = [by |-> r.leased_by, attempt |-> r.lease_attempt]
  /\ s.leased_by = NoAgent /\ s.lease_attempt = r.lease_attempt + 1
  /\ s.status \in Settled \cup {"pending"}

\* Answered while nobody held it.
GotAnswer(r, s) ==
  /\ r.status \in {"awaiting_verify", "verify_failed"}
  /\ SameHolding(r, s)
  /\ s.status \in Settled \ {"failed"}

\* Retired.
Withdrawn(r, s) ==
  /\ r.status \in {"pending", "in_progress"}
  /\ ~LeaseActive(r)
  /\ s.status = "done" /\ s.leased_by = NoAgent
  /\ s.lease_attempt = r.lease_attempt

Moves(i, s) ==
  Granted(i, s) \/ Ended(row[i], s) \/ GotAnswer(row[i], s) \/ Withdrawn(row[i], s)

StepShape ==
  \/ \A j \in Items : Quiet(row[j], row'[j])
  \/ \E i \in Items :
       /\ Moves(i, row'[i])
       /\ \A j \in Items \ {i} : Quiet(row[j], row'[j]) \/ Closes(row[j], row'[j])

\* What the queue keeps besides its types: leases sit on work in progress,
\* and an item not filed has no history.
HoldingInv ==
  /\ LeaseIffInProgress
  /\ \A i \in Items : row[i].status = "unfiled" => Kept(NewRow, row[i])

\* A settled row is none the cascade touches, and of the others it closes
\* only pending ones.
LEMMA CascadeShape ==
  ASSUME TypeOK, NEW i \in Items, NEW s \in Row, s.status \in Settled,
         row' = RunCascade([row EXCEPT ![i] = s])
  PROVE  /\ row'[i] = s
         /\ \A j \in Items \ {i} : Quiet(row[j], row'[j]) \/ Closes(row[j], row'[j])
<1> DEFINE rows == [row EXCEPT ![i] = s]
<1>1. rows \in [Items -> Row] /\ rows[i] = s /\ \A j \in Items \ {i} : rows[j] = row[j]
  BY DEF TypeOK
<1> HIDE DEF rows
<1>2. \A j \in Items :
         \/ row'[j] = rows[j]
         \/ /\ rows[j].status = "pending"
            /\ row'[j] = [rows[j] EXCEPT !.status = "done"]
  BY <1>1, CascadeType DEF rows
<1>3. row'[i] = s
  BY <1>1, <1>2 DEF Settled, Terminal
<1>4. ASSUME NEW r \in Row
      PROVE  /\ Kept(r, [r EXCEPT !.status = "done"])
             /\ [r EXCEPT !.status = "done"].status = "done"
  BY DEF Row, Kept, SameHolding
<1>5. ASSUME NEW j \in Items \ {i}
      PROVE  Quiet(row[j], row'[j]) \/ Closes(row[j], row'[j])
  <2>1. rows[j] = row[j] /\ row[j] \in Row
    BY <1>1 DEF TypeOK
  <2>2. CASE row'[j] = row[j]
    BY <2>2 DEF Quiet, Kept, SameHolding
  <2>3. CASE row[j].status = "pending" /\ row'[j] = [row[j] EXCEPT !.status = "done"]
    BY <2>1, <2>3, <1>4 DEF Closes
  <2> QED
    BY <1>2, <2>1, <2>2, <2>3
<1> QED
  BY <1>3, <1>5

\* One row rewritten, the others as they were.
LEMMA SoloShape ==
  ASSUME TypeOK, NEW i \in Items, NEW s, row' = [row EXCEPT ![i] = s]
  PROVE  row'[i] = s /\ \A j \in Items \ {i} : Quiet(row[j], row'[j])
BY DEF TypeOK, Quiet, Kept, SameHolding

\* An accepted report comes from the holder of work in progress, under its
\* fence.
LEMMA AcceptedHolds ==
  ASSUME TypeOK, HoldingInv, NEW a \in Agents, NEW i \in Items, NEW n, Accepted(a, i, n)
  PROVE  /\ row[i].status = "in_progress" /\ row[i].leased_by = a
         /\ row[i].leased_by # NoAgent /\ row[i].lease_attempt = n
BY ConstantsOK DEF Accepted, HoldingInv, LeaseIffInProgress

LEMMA CreateShape ==
  ASSUME TypeOK, HoldingInv, NEW i \in Items, Create(i)
  PROVE  \A j \in Items : Quiet(row[j], row'[j])
<1>1. ASSUME NEW r \in Row
      PROVE  Quiet(r, [r EXCEPT !.blocked_by = r.blocked_by \cup {i}])
  BY DEF Row, Quiet, Kept, SameHolding
<1>2. Kept(NewRow, FiledRow(i)) /\ FiledRow(i).status = "pending"
  BY DEF NewRow, FiledRow, Kept, SameHolding
<1>3. Quiet(row[i], FiledRow(i))
  <2>1. row[i].status = "unfiled" /\ Kept(NewRow, row[i])
    BY DEF Create, Filed, HoldingInv
  <2> QED
    BY <1>2, <2>1 DEF Quiet, Kept, SameHolding
<1>4. \A j \in Items :
         \/ j = i /\ row'[j] = FiledRow(i)
         \/ row'[j] \in {row[j], [row[j] EXCEPT !.blocked_by = row[j].blocked_by \cup {i}]}
  BY DEF Create
<1>5. \A j \in Items : row[j] \in Row /\ Quiet(row[j], row[j])
  BY DEF TypeOK, Quiet, Kept, SameHolding
<1> QED
  BY <1>1, <1>3, <1>4, <1>5

\* The writes that leave status and answers alone.
LEMMA QuietShapes ==
  ASSUME TypeOK,
         \/ UNCHANGED row
         \/ \E a \in Agents, i \in Items :
              \/ Adjudicate(a, i)
              \/ \E n \in 1..MaxAttempt, ttl \in TTLs : Renew(a, i, n, ttl)
         \/ Tick
  PROVE  \A j \in Items : Quiet(row[j], row'[j])
<1>1. \A j \in Items : row[j] \in Row /\ Quiet(row[j], row[j])
  BY DEF TypeOK, Quiet, Kept, SameHolding
<1>2. CASE UNCHANGED row
  BY <1>1, <1>2
<1>3. ASSUME NEW a \in Agents, NEW i \in Items, Adjudicate(a, i)
      PROVE  \A j \in Items : Quiet(row[j], row'[j])
  <2>1. ASSUME NEW r \in Row PROVE Quiet(r, [r EXCEPT !.adjudication = a])
    BY DEF Row, Quiet, Kept, SameHolding
  <2>2. row' = [row EXCEPT ![i] = [row[i] EXCEPT !.adjudication = a]]
    BY <1>3 DEF Adjudicate, TypeOK
  <2> QED
    BY <1>1, <2>1, <2>2 DEF TypeOK
<1>4. ASSUME NEW a \in Agents, NEW i \in Items, NEW n, NEW ttl, Renew(a, i, n, ttl)
      PROVE  \A j \in Items : Quiet(row[j], row'[j])
  <2>1. ASSUME NEW r \in Row, NEW left PROVE Quiet(r, [r EXCEPT !.left = left])
    BY DEF Row, Quiet, Kept, SameHolding
  <2>2. PICK left : row' = [row EXCEPT ![i] = [row[i] EXCEPT !.left = left]]
    BY <1>4 DEF Renew, TypeOK
  <2> QED
    BY <1>1, <2>1, <2>2 DEF TypeOK
<1>5. CASE Tick
  <2>1. \A j \in Items : Quiet(row[j], Aged(row[j]))
    <3> TAKE j \in Items
    <3>1. row[j] \in Row /\ SameHolding(row[j], Aged(row[j])) /\ Aged(row[j]).status = row[j].status
      BY <1>1, AgedType
    <3>2. /\ Aged(row[j]).attestation = row[j].attestation
          /\ Aged(row[j]).resolution = row[j].resolution
      BY <3>1 DEF Aged, Row
    <3> QED
      BY <3>1, <3>2 DEF Quiet, Kept
  <2> QED
    BY <1>5, <2>1 DEF Tick
<1> QED
  BY <1>2, <1>3, <1>4, <1>5

LEMMA ClaimShape ==
  ASSUME TypeOK, HoldingInv, NEW a \in Agents, NEW ttl \in TTLs, Claim(a, ttl)
  PROVE  StepShape
<1> DEFINE i == seen[a].item
<1>1. CASE i \in Items
  <2>1. row' = [row EXCEPT ![i] = Claimed(row[i], a, ttl)]
    BY <1>1 DEF Claim, TypeOK
  <2>2. Granted(i, Claimed(row[i], a, ttl))
    BY <1>1, ClaimedType DEF Claim, Claimable, RerunPending, Granted, TypeOK
  <2>3. /\ row'[i] = Claimed(row[i], a, ttl)
        /\ \A j \in Items \ {i} : Quiet(row[j], row'[j])
    BY <1>1, <2>1, SoloShape
  <2> QED
    BY <1>1, <2>2, <2>3 DEF StepShape, Moves
<1>2. CASE i \notin Items
  <2>1. row' = row
    BY <1>2 DEF Claim, TypeOK
  <2> QED
    BY <2>1 DEF StepShape, Quiet, Kept, SameHolding
<1> QED
  BY <1>1, <1>2

LEMMA ReapShape ==
  ASSUME TypeOK, HoldingInv, NEW i \in Items, Reap(i)
  PROVE  StepShape
<1>1. row' = [row EXCEPT ![i] = Lapsed(row[i])]
  BY DEF Reap, TypeOK
<1>2. Ended(row[i], Lapsed(row[i]))
  BY LapsedType DEF Reap, Ended, TypeOK, HoldingInv, LeaseIffInProgress
<1> QED
  BY <1>1, <1>2, SoloShape DEF StepShape, Moves

LEMMA RetireShape ==
  ASSUME TypeOK, HoldingInv, NEW i \in Items, Retire(i)
  PROVE  StepShape
<1>1. row' = [row EXCEPT ![i] = Retired(row[i])]
  BY DEF Retire, TypeOK
<1>2. Withdrawn(row[i], Retired(row[i]))
  BY RetiredType DEF Retire, Withdrawn, TypeOK
<1> QED
  BY <1>1, <1>2, SoloShape DEF StepShape, Moves

LEMMA ReportFailedShape ==
  ASSUME TypeOK, HoldingInv, NEW a \in Agents, NEW i \in Items, NEW n \in 1..MaxAttempt,
         ReportFailed(a, i, n)
  PROVE  StepShape
<1> DEFINE r == Released(row[i], a, n)
           s == [r EXCEPT !.status = "failed"]
<1>1. r \in Row /\ r.leased_by = NoAgent /\ r.lease_attempt = row[i].lease_attempt + 1
      /\ r.lease_report = [by |-> a, attempt |-> n]
  BY ReleasedType, NumbersType DEF TypeOK
<1>2. row' = RunCascade([row EXCEPT ![i] = s])
  BY DEF ReportFailed, TypeOK
<1> HIDE DEF r
<1>3. s \in Row /\ SameHolding(r, s) /\ s.status = "failed"
  BY <1>1, StatusSetType DEF Status, Settled, Terminal
<1>4. Ended(row[i], s)
  BY <1>1, <1>3, AcceptedHolds DEF ReportFailed, Ended, SameHolding, Settled, Terminal
<1> HIDE DEF s
<1> QED
  BY <1>2, <1>3, <1>4, CascadeShape DEF StepShape, Moves, Settled, Terminal

LEMMA ReportDoneShape ==
  ASSUME TypeOK, HoldingInv, NEW a \in Agents, NEW i \in Items, NEW n \in 1..MaxAttempt,
         NEW o \in Outcomes, NEW g \in Stages, ReportDone(a, i, n, o, g)
  PROVE  StepShape
<1> DEFINE r == Released(row[i], a, n)
           s == Landed(i, r, a, o, g)
<1>1. r \in Row /\ r.leased_by = NoAgent /\ r.lease_attempt = row[i].lease_attempt + 1
      /\ r.lease_report = [by |-> a, attempt |-> n]
  BY ReleasedType, NumbersType DEF TypeOK
<1>2. row' = RunCascade([row EXCEPT ![i] = s])
  BY DEF ReportDone, TypeOK
<1> HIDE DEF r
<1>3. s \in Row /\ SameHolding(r, s) /\ s.status \in Settled
  BY <1>1, LandedType, NumbersType
<1> HIDE DEF s
<1>4. Ended(row[i], s)
  BY <1>1, <1>3, AcceptedHolds DEF ReportDone, Ended, SameHolding
<1> QED
  BY <1>2, <1>3, <1>4, CascadeShape DEF StepShape, Moves

LEMMA AttestShape ==
  ASSUME TypeOK, HoldingInv, NEW a \in Agents, NEW i \in Items,
         NEW o \in Outcomes, NEW g \in Stages, Attest(a, i, o, g)
  PROVE  StepShape
<1> DEFINE s == Attested(i, row[i], a, o, g)
<1>1. s \in Row /\ SameHolding(row[i], s) /\ s.status \in Settled \ {"failed"}
  BY AttestedType, NumbersType DEF TypeOK
<1>2. row' = RunCascade([row EXCEPT ![i] = s])
  BY DEF Attest, TypeOK
<1> HIDE DEF s
<1>3. GotAnswer(row[i], s)
  BY <1>1 DEF Attest, MayAttest, GotAnswer
<1> QED
  BY <1>1, <1>2, <1>3, CascadeShape DEF StepShape, Moves

LEMMA ResolveShape ==
  ASSUME TypeOK, HoldingInv, NEW i \in Items, NEW d \in Defaults, ResolveByDefault(i, d)
  PROVE  StepShape
<1> DEFINE s == Defaulted(i, row[i], d)
<1>1. s \in Row /\ SameHolding(row[i], s) /\ s.status \in Settled \ {"failed"}
  BY DefaultedType DEF TypeOK
<1>2. row' = RunCascade([row EXCEPT ![i] = s])
  BY DEF ResolveByDefault, TypeOK
<1> HIDE DEF s
<1>3. GotAnswer(row[i], s)
  BY <1>1 DEF ResolveByDefault, GotAnswer
<1> QED
  BY <1>1, <1>2, <1>3, CascadeShape DEF StepShape, Moves

LEMMA NextShape == TypeOK /\ HoldingInv /\ [Next]_vars => StepShape
<1> SUFFICES ASSUME TypeOK, HoldingInv, [Next]_vars PROVE StepShape
  OBVIOUS
<1>1. ASSUME \A j \in Items : Quiet(row[j], row'[j]) PROVE StepShape
  BY <1>1 DEF StepShape
<1>2. CASE UNCHANGED row
  BY <1>1, <1>2, QuietShapes
<1>3. CASE Tick
  BY <1>1, <1>3, QuietShapes
<1>4. ASSUME NEW i \in Items, Create(i) PROVE StepShape
  BY <1>1, <1>4, CreateShape
<1>5. ASSUME NEW a \in Agents, NEW i \in Items, ClaimRead(a, i) \/ Adjudicate(a, i)
      PROVE  StepShape
  BY <1>1, <1>5, QuietShapes DEF ClaimRead
<1>6. ASSUME NEW a \in Agents, ClaimDropped(a) PROVE StepShape
  BY <1>2, <1>6 DEF ClaimDropped
<1>7. ASSUME NEW a \in Agents, NEW i \in Items, NEW n \in 1..MaxAttempt,
             NEW ttl \in TTLs, Renew(a, i, n, ttl)
      PROVE  StepShape
  BY <1>1, <1>7, QuietShapes
<1> QED
  BY <1>2, <1>3, <1>4, <1>5, <1>6, <1>7, ClaimShape, ReapShape, RetireShape,
     ReportFailedShape, ReportDoneShape, AttestShape, ResolveShape
  DEF Next, WorkNext, Verdict, PlaneNext, vars

-----------------------------------------------------------------------------
(* Leases.                                                                 *)

LEMMA InitHolding == Init => HoldingInv
BY DEF Init, HoldingInv, LeaseIffInProgress, Kept, SameHolding, NewRow

LEMMA ShapeKeepsHolding == HoldingInv /\ StepShape => HoldingInv'
<1> SUFFICES ASSUME HoldingInv, StepShape PROVE HoldingInv'
  OBVIOUS
<1>1. ASSUME NEW j \in Items, Quiet(row[j], row'[j]) \/ Closes(row[j], row'[j])
      PROVE  /\ row'[j].leased_by # NoAgent <=> row'[j].status = "in_progress"
             /\ row'[j].status = "unfiled" => Kept(NewRow, row'[j])
  BY <1>1 DEF HoldingInv, LeaseIffInProgress, Quiet, Closes, Kept, SameHolding
<1>2. ASSUME NEW i \in Items, Moves(i, row'[i])
      PROVE  /\ row'[i].leased_by # NoAgent <=> row'[i].status = "in_progress"
             /\ row'[i].status # "unfiled"
  BY <1>2, ConstantsOK
  DEF HoldingInv, LeaseIffInProgress, Moves, Granted, Ended, GotAnswer, Withdrawn,
      SameHolding, Settled, Terminal
<1> QED
  BY <1>1, <1>2 DEF StepShape, HoldingInv, LeaseIffInProgress

LEMMA Holding == Spec => [](TypeOK /\ HoldingInv)
<1>1. TypeOK /\ HoldingInv /\ [Next]_vars => HoldingInv'
  BY NextShape, ShapeKeepsHolding
<1> QED
  BY <1>1, TypeCorrect, InitHolding, PTL DEF Spec

\* A row has a holder exactly while it is in progress, whatever calls arrive in
\* whatever order: no outcome, answer, reaping or retirement leaves one behind.
THEOREM HolderIsAtWork == Spec => []LeaseIffInProgress
<1>1. HoldingInv => LeaseIffInProgress
  BY DEF HoldingInv
<1> QED
  BY <1>1, Holding, PTL

\* Nobody but its holder, reporting under it, ends a live lease: the claims of
\* others, the reaper, retirement and stale messages all leave it alone.
THEOREM LiveLeaseIsSafe == Spec => NoLiveLeaseIsTaken
<1>1. ASSUME TypeOK, HoldingInv, [Next]_vars, NEW i \in Items,
             LeaseActive(row[i]), row'[i].leased_by # row[i].leased_by
      PROVE  /\ row'[i].leased_by = NoAgent
             /\ row'[i].lease_report = [by |-> row[i].leased_by,
                                        attempt |-> row[i].lease_attempt]
  <2>1. StepShape
    BY <1>1, NextShape
  <2>2. ~Quiet(row[i], row'[i]) /\ ~Closes(row[i], row'[i])
    BY <1>1 DEF Quiet, Closes, Kept, SameHolding
  <2>3. Moves(i, row'[i])
    BY <2>1, <2>2 DEF StepShape
  <2> QED
    BY <1>1, <2>3 DEF Moves, Granted, Ended, GotAnswer, Withdrawn, SameHolding
<1>2. TypeOK /\ HoldingInv /\ [Next]_vars =>
        [\A i \in Items :
           LeaseActive(row[i]) /\ row'[i].leased_by # row[i].leased_by
             => /\ row'[i].leased_by = NoAgent
                /\ row'[i].lease_report = [by |-> row[i].leased_by,
                                          attempt |-> row[i].lease_attempt]]_vars
  BY <1>1
<1> QED
  BY <1>2, Holding, PTL DEF Spec, NoLiveLeaseIsTaken

-----------------------------------------------------------------------------
(* Outcomes.                                                               *)

LEMMA FinalStep ==
  TypeOK /\ HoldingInv /\ [Next]_vars =>
    [\A i \in Items :
       row[i].status \in Terminal =>
         /\ row'[i].status = row[i].status
         /\ row'[i].attestation = row[i].attestation
         /\ row'[i].resolution = row[i].resolution
         /\ row'[i].lease_report = row[i].lease_report]_vars
<1> SUFFICES ASSUME TypeOK, HoldingInv, [Next]_vars,
                    NEW i \in Items, row[i].status \in Terminal
             PROVE  Quiet(row[i], row'[i])
  BY DEF Quiet, Kept, SameHolding, Terminal
<1>1. StepShape
  BY NextShape
<1>2. ~Moves(i, row'[i]) /\ ~Closes(row[i], row'[i])
  BY DEF Moves, Granted, Ended, GotAnswer, Withdrawn, Closes, Terminal
<1> QED
  BY <1>1, <1>2 DEF StepShape

\* A done or failed item stays what it is, with the evidence, the default and
\* the report it was closed on: no verdict, claim, default, retirement or late
\* report reaches it.
THEOREM FinalIsFinal == Spec => OutcomeIsFinal
BY FinalStep, Holding, PTL DEF Spec, OutcomeIsFinal

-----------------------------------------------------------------------------
(* Claims on what was read before the lock.                                *)

\* What a claimant read as done is done, and stays so until it claims.
ReadsAreTrue == \A a \in Agents : \A j \in seen[a].done : row[j].status = "done"

\* What becomes of the claimants' reads in a step.
LEMMA ReadStep ==
  ASSUME TypeOK, [Next]_vars, NEW a \in Agents
  PROVE  seen'[a] = seen[a] \/ seen'[a].done \in {{}, DoneIds}
<1>1. ASSUME NEW b \in Agents, ClaimDropped(b) \/ \E ttl \in TTLs : Claim(b, ttl)
      PROVE  seen' = [seen EXCEPT ![b] = NoRead]
  BY <1>1 DEF ClaimDropped, Claim
<1>2. ASSUME NEW b \in Agents, NEW i \in Items, ClaimRead(b, i)
      PROVE  seen' = [seen EXCEPT ![b] = [item |-> i, done |-> DoneIds]]
  BY <1>2 DEF ClaimRead
<1>3. \/ UNCHANGED seen
      \/ \E b \in Agents : \/ seen' = [seen EXCEPT ![b] = NoRead]
                          \/ \E i \in Items : seen' = [seen EXCEPT ![b] = [item |-> i, done |-> DoneIds]]
  BY <1>1, <1>2
  DEF Next, WorkNext, Verdict, PlaneNext, vars, Create, Adjudicate, Renew, ReportFailed,
      ReportDone, Attest, Reap, Retire, ResolveByDefault, Tick
<1> QED
  BY <1>3 DEF TypeOK, NoRead

LEMMA ReadsStayTrue == TypeOK /\ HoldingInv /\ ReadsAreTrue /\ [Next]_vars => ReadsAreTrue'
<1> SUFFICES ASSUME TypeOK, HoldingInv, ReadsAreTrue, [Next]_vars,
                    NEW a \in Agents, NEW j \in seen'[a].done
             PROVE  row'[j].status = "done"
  BY DEF ReadsAreTrue
<1>1. j \in Items /\ row[j].status = "done"
  <2>1. CASE seen'[a] = seen[a]
    BY <2>1 DEF ReadsAreTrue, TypeOK, Read
  <2>2. CASE seen'[a].done \in {{}, DoneIds}
    BY <2>2 DEF DoneIds, ReleasesBlockers
  <2> QED
    BY <2>1, <2>2, ReadStep
<1> QED
  BY <1>1, FinalStep DEF Terminal, vars

LEMMA TrueReads == Spec => [](TypeOK /\ HoldingInv /\ ReadsAreTrue)
<1>1. Init => ReadsAreTrue
  BY DEF Init, ReadsAreTrue, NoRead
<1> QED
  BY <1>1, ReadsStayTrue, Holding, PTL DEF Spec

\* A claim hands an item out only when everything it waits for is done, although
\* it decides on what was read before the lock: done is final, so a read that
\* has gone stale errs on the safe side.
THEOREM NoEarlyStart == Spec => NothingStartsEarly
<1>1. ASSUME TypeOK, HoldingInv, ReadsAreTrue, [Next]_vars, NEW i \in Items,
             row'[i].lease_attempt > row[i].lease_attempt, row'[i].status = "in_progress",
             NEW j \in row[i].blocked_by
      PROVE  row[j].status = "done"
  <2>1. row[i].lease_attempt \in Nat
    BY <1>1 DEF TypeOK, Row
  <2>2. ~Quiet(row[i], row'[i]) /\ ~Closes(row[i], row'[i])
    BY <1>1, <2>1 DEF Quiet, Closes, Kept, SameHolding
  <2>3. Moves(i, row'[i])
    BY <1>1, <2>2, NextShape DEF StepShape
  <2>4. Granted(i, row'[i])
    BY <1>1, <2>1, <2>3
    DEF Moves, Ended, GotAnswer, Withdrawn, SameHolding, Settled, Terminal
  <2> QED
    BY <1>1, <2>4 DEF Granted, ReadsAreTrue
<1>2. TypeOK /\ HoldingInv /\ ReadsAreTrue /\ [Next]_vars =>
        [\A i \in Items :
           row'[i].lease_attempt > row[i].lease_attempt /\ row'[i].status = "in_progress"
             => \A j \in row[i].blocked_by : row[j].status = "done"]_vars
  BY <1>1
<1> QED
  BY <1>2, TrueReads, PTL DEF Spec, NothingStartsEarly

-----------------------------------------------------------------------------
(* Trees.                                                                  *)

\* The containers that finish are a least fixed point: one with its steps done
\* or finishing too finishes, and each that does has them so.
LEMMA FinishedIsClosed ==
  ASSUME NEW rows, NEW c \in OpenContainers(rows),
         \A k \in Kids(rows, c) : StepIsOver(rows, k) \/ k \in FinishedContainers(rows)
  PROVE  c \in FinishedContainers(rows)
BY DEF FinishedContainers

LEMMA FinishedIsSupported ==
  ASSUME NEW rows, NEW c \in FinishedContainers(rows)
  PROVE  \A k \in Kids(rows, c) : StepIsOver(rows, k) \/ k \in FinishedContainers(rows)
<1> DEFINE open == OpenContainers(rows)
           finished == FinishedContainers(rows)
           Ready(d, S) == \A k \in Kids(rows, d) : StepIsOver(rows, k) \/ k \in S
           S == {d \in open : Ready(d, finished)}
<1>1. \A d \in S : d \in finished
  BY FinishedIsClosed
<1>2. \A d \in open : Ready(d, S) => d \in S
  BY <1>1
<1>3. S \in SUBSET open
  OBVIOUS
<1>4. c \in S
  BY <1>2, <1>3 DEF FinishedContainers
<1> QED
  BY <1>4

\* What the cascade leaves of each row.
LEMMA CascadeRows ==
  ASSUME NEW rows \in [Items -> Row], row' = RunCascade(rows), NEW j \in Items
  PROVE  /\ j \in FinishedContainers(rows) => row'[j].status = "done"
         /\ j \notin FinishedContainers(rows) => row'[j] = rows[j]
         /\ row'[j].status = "unfiled" <=> rows[j].status = "unfiled"
<1>1. row'[j] = IF j \in FinishedContainers(rows) THEN [rows[j] EXCEPT !.status = "done"]
                                                  ELSE rows[j]
  BY DEF RunCascade
<1>2. [rows[j] EXCEPT !.status = "done"].status = "done"
  BY DEF Row
<1>3. j \in FinishedContainers(rows) => rows[j].status = "pending"
  BY DEF FinishedContainers, OpenContainers
<1> QED
  BY <1>1, <1>2, <1>3

\* Kids depend on what is filed and on nothing else.
LEMMA KidsKept ==
  ASSUME NEW rows, NEW after, NEW c,
         \A k \in Items : after[k].status = "unfiled" <=> rows[k].status = "unfiled"
  PROVE  Kids(after, c) = Kids(rows, c)
BY DEF Kids

\* Each write either closes what it finishes, or files, or moves one item
\* without a cascade, or leaves every status.
CascadeFrom(i, s) ==
  /\ row[i].status \notin {"pending", "unfiled"}
  /\ s.status \in Settled
  /\ row' = RunCascade([row EXCEPT ![i] = s])

MovedAlone(i) ==
  /\ \A j \in Items \ {i} : row'[j].status = row[j].status
  /\ row[i].status # "unfiled"
  /\ \/ row'[i].status = "in_progress"
     \/ row'[i].status = "pending" /\ row[i].status = "in_progress"
     \/ row'[i].status = "done" /\ Request[i].verifies # NoItem

TreeShape ==
  \/ \A j \in Items : row'[j].status = row[j].status
  \/ \E i \in Items : Create(i) \/ MovedAlone(i) \/ \E s \in Row : CascadeFrom(i, s)

LEMMA SoloTree ==
  ASSUME TypeOK, NEW i \in Items, NEW s, row' = [row EXCEPT ![i] = s],
         row[i].status # "unfiled",
         \/ s.status = "in_progress"
         \/ s.status = "pending" /\ row[i].status = "in_progress"
         \/ s.status = "done" /\ Request[i].verifies # NoItem
  PROVE  TreeShape
<1>1. row'[i] = s /\ \A j \in Items \ {i} : row'[j] = row[j]
  BY DEF TypeOK
<1> QED
  BY <1>1 DEF TreeShape, MovedAlone

LEMMA NextTree ==
  ASSUME TypeOK, HoldingInv, [Next]_vars
  PROVE  TreeShape
<1>0. \A j \in Items : row[j] \in Row
  BY DEF TypeOK
<1>1. CASE \A j \in Items : row'[j].status = row[j].status
  BY <1>1 DEF TreeShape
<1>2. ASSUME NEW i \in Items, Create(i) PROVE TreeShape
  BY <1>2 DEF TreeShape
<1>3. CASE Tick \/ UNCHANGED row
  BY <1>0, <1>3, <1>1, AgedType DEF Tick
<1>4. ASSUME NEW a \in Agents, NEW i \in Items, ClaimRead(a, i) PROVE TreeShape
  BY <1>1, <1>4 DEF ClaimRead
<1>5. ASSUME NEW a \in Agents, NEW i \in Items, Adjudicate(a, i) PROVE TreeShape
  <2>1. [row[i] EXCEPT !.adjudication = a].status = row[i].status
    BY <1>0 DEF Row
  <2>2. row' = [row EXCEPT ![i] = [row[i] EXCEPT !.adjudication = a]]
    BY <1>5 DEF Adjudicate, TypeOK
  <2> QED
    BY <1>1, <2>1, <2>2 DEF TypeOK
<1>6. ASSUME NEW a \in Agents, ClaimDropped(a) PROVE TreeShape
  BY <1>1, <1>6 DEF ClaimDropped
<1>7. ASSUME NEW a \in Agents, NEW i \in Items, NEW n, NEW ttl, Renew(a, i, n, ttl)
      PROVE  TreeShape
  <2>1. PICK left : row' = [row EXCEPT ![i] = [row[i] EXCEPT !.left = left]]
    BY <1>7 DEF Renew, TypeOK
  <2>2. [row[i] EXCEPT !.left = left].status = row[i].status
    BY <1>0 DEF Row
  <2> QED
    BY <1>1, <2>1, <2>2 DEF TypeOK
<1>8. ASSUME NEW a \in Agents, NEW ttl \in TTLs, Claim(a, ttl) PROVE TreeShape
  <2>1. PICK i : i = seen[a].item
    OBVIOUS
  <2>2. CASE i \in Items
    <3>1. row' = [row EXCEPT ![i] = Claimed(row[i], a, ttl)]
      BY <1>8, <2>1, <2>2 DEF Claim, TypeOK
    <3>2. row[i].status # "unfiled"
      BY <1>8, <2>1 DEF Claim, Claimable, RerunPending
    <3> QED
      BY <1>0, <2>2, <3>1, <3>2, ClaimedType, SoloTree
  <2>3. CASE i \notin Items
    <3>1. row' = row
      BY <1>8, <2>1, <2>3 DEF Claim, TypeOK
    <3> QED
      BY <1>1, <3>1
  <2> QED
    BY <2>2, <2>3
<1>9. ASSUME NEW i \in Items, Reap(i) PROVE TreeShape
  <2>1. row' = [row EXCEPT ![i] = Lapsed(row[i])] /\ row[i].status = "in_progress"
    BY <1>9 DEF Reap, TypeOK
  <2> QED
    BY <1>0, <2>1, LapsedType, SoloTree
<1>10. ASSUME NEW i \in Items, Request[i].verifies # NoItem, Retire(i) PROVE TreeShape
  <2>1. /\ row' = [row EXCEPT ![i] = Retired(row[i])]
        /\ row[i].status \in {"pending", "in_progress"}
    BY <1>10 DEF Retire, TypeOK
  <2> QED
    BY <1>0, <1>10, <2>1, RetiredType, SoloTree
<1>11. ASSUME NEW a \in Agents, NEW i \in Items, NEW n \in 1..MaxAttempt, ReportFailed(a, i, n)
       PROVE  TreeShape
  <2> DEFINE s == [Released(row[i], a, n) EXCEPT !.status = "failed"]
  <2>1. Released(row[i], a, n) \in Row
    BY <1>0, ReleasedType, NumbersType
  <2>2. s \in Row /\ s.status = "failed"
    BY <2>1, StatusSetType DEF Status, Settled, Terminal
  <2>3. row' = RunCascade([row EXCEPT ![i] = s])
    BY <1>11 DEF ReportFailed, TypeOK
  <2>4. row[i].status = "in_progress"
    BY <1>11, AcceptedHolds DEF ReportFailed
  <2> HIDE DEF s
  <2> QED
    BY <2>2, <2>3, <2>4 DEF TreeShape, CascadeFrom, Settled, Terminal
<1>12. ASSUME NEW a \in Agents, NEW i \in Items, NEW n \in 1..MaxAttempt,
              NEW o \in Outcomes, NEW g \in Stages, ReportDone(a, i, n, o, g)
       PROVE  TreeShape
  <2> DEFINE s == Landed(i, Released(row[i], a, n), a, o, g)
  <2>1. Released(row[i], a, n) \in Row
    BY <1>0, ReleasedType, NumbersType
  <2>2. s \in Row /\ s.status \in Settled
    BY <2>1, LandedType, NumbersType
  <2>3. row' = RunCascade([row EXCEPT ![i] = s])
    BY <1>12 DEF ReportDone, TypeOK
  <2>4. row[i].status = "in_progress"
    BY <1>12, AcceptedHolds DEF ReportDone
  <2> HIDE DEF s
  <2> QED
    BY <2>2, <2>3, <2>4 DEF TreeShape, CascadeFrom
<1>13. ASSUME NEW a \in Agents, NEW i \in Items, NEW o \in Outcomes, NEW g \in Stages,
              Attest(a, i, o, g)
       PROVE  TreeShape
  <2> DEFINE s == Attested(i, row[i], a, o, g)
  <2>1. s \in Row /\ s.status \in Settled
    BY <1>0, AttestedType, NumbersType
  <2>2. row' = RunCascade([row EXCEPT ![i] = s])
    BY <1>13 DEF Attest, TypeOK
  <2>3. row[i].status \in {"awaiting_verify", "verify_failed"}
    BY <1>13 DEF Attest, MayAttest
  <2> HIDE DEF s
  <2> QED
    BY <2>1, <2>2, <2>3 DEF TreeShape, CascadeFrom
<1>14. ASSUME NEW i \in Items, NEW d \in Defaults, ResolveByDefault(i, d) PROVE TreeShape
  <2> DEFINE s == Defaulted(i, row[i], d)
  <2>1. s \in Row /\ s.status \in Settled
    BY <1>0, DefaultedType
  <2>2. row' = RunCascade([row EXCEPT ![i] = s]) /\ row[i].status = "awaiting_verify"
    BY <1>14 DEF ResolveByDefault, TypeOK
  <2> HIDE DEF s
  <2> QED
    BY <2>1, <2>2 DEF TreeShape, CascadeFrom
<1> QED
  BY <1>2, <1>3, <1>4, <1>5, <1>6, <1>7, <1>8, <1>9, <1>10, <1>11, <1>12, <1>13, <1>14
  DEF Next, WorkNext, Verdict, PlaneNext, vars

\* A child is filed under a filed parent.
ParentsFirst ==
  \A k \in Items : IsChild(k) /\ row[k].status # "unfiled" => Filed(Request[k].parent)

\* The plane files a vehicle under no parent (route_open_gates).
VehiclesStandAlone ==
  \A v \in Items : Request[v].verifies # NoItem => Request[v].parent = NoItem

\* What filing an item makes of the statuses.
LEMMA CreateRows ==
  ASSUME TypeOK, NEW i \in Items, Create(i)
  PROVE  /\ row[i].status = "unfiled" /\ row'[i].status = "pending"
         /\ \A j \in Items \ {i} : row'[j].status = row[j].status
         /\ IsChild(i) => Filed(Request[i].parent) /\ Request[i].parent # i
<1>1. /\ row[i].status = "unfiled" /\ EnforceDecomposition(i)
      /\ IsChild(i) => Filed(Request[i].parent) /\ Request[i].parent # i
  BY DEF Create, Filed, EnforceDecomposition
<1>2. FiledRow(i).status = "pending"
  BY DEF FiledRow, NewRow
<1>3. row'[i] = FiledRow(i)
  BY <1>1 DEF Create
<1>4. \A j \in Items \ {i} :
        row'[j] \in {row[j], [row[j] EXCEPT !.blocked_by = row[j].blocked_by \cup {i}]}
  BY DEF Create
<1>5. \A j \in Items : [row[j] EXCEPT !.blocked_by = row[j].blocked_by \cup {i}].status
                         = row[j].status
  BY DEF TypeOK, Row
<1> QED
  BY <1>1, <1>2, <1>3, <1>4, <1>5

\* Only filing changes what is filed.
LEMMA FiledKept ==
  ASSUME TypeOK, TreeShape, NEW j \in Items
  PROVE  \/ row'[j].status = "unfiled" <=> row[j].status = "unfiled"
         \/ Create(j)
<1>1. ASSUME NEW i \in Items, Create(i) PROVE Create(j) \/ row'[j].status = row[j].status
  BY <1>1, CreateRows
<1>2. ASSUME NEW i \in Items, NEW s \in Row, CascadeFrom(i, s)
      PROVE  row'[j].status = "unfiled" <=> row[j].status = "unfiled"
  <2> DEFINE rows == [row EXCEPT ![i] = s]
  <2>1. rows \in [Items -> Row] /\ rows[i] = s /\ \A k \in Items \ {i} : rows[k] = row[k]
    BY DEF TypeOK
  <2>2. s.status # "unfiled" /\ row[i].status # "unfiled" /\ row' = RunCascade(rows)
    BY <1>2 DEF CascadeFrom, Settled, Terminal
  <2> HIDE DEF rows
  <2>3. row'[j].status = "unfiled" <=> rows[j].status = "unfiled"
    BY <2>1, <2>2, CascadeRows
  <2> QED
    BY <2>1, <2>2, <2>3
<1>3. ASSUME NEW i \in Items, MovedAlone(i)
      PROVE  row'[j].status = "unfiled" <=> row[j].status = "unfiled"
  BY <1>3 DEF MovedAlone
<1> QED
  BY <1>1, <1>2, <1>3 DEF TreeShape

LEMMA ParentsStayFirst ==
  ASSUME TypeOK, TreeShape, ParentsFirst
  PROVE  ParentsFirst'
<1> SUFFICES ASSUME NEW k \in Items, IsChild(k), row'[k].status # "unfiled"
             PROVE  row'[Request[k].parent].status # "unfiled"
  BY DEF ParentsFirst, Filed
<1>1. PICK p \in Items : p = Request[k].parent
  BY ConstantsOK DEF IsChild, Requests
<1>2. row[p].status # "unfiled"
  BY <1>1, FiledKept, CreateRows DEF ParentsFirst, Filed
<1>3. ASSUME Create(p) PROVE FALSE
  BY <1>2, <1>3 DEF Create, Filed
<1> QED
  BY <1>1, <1>2, <1>3, FiledKept

\* A container closed by a cascade has its steps done.
LEMMA ClosedIsComplete ==
  ASSUME TypeOK, NEW i \in Items, NEW s \in Row, CascadeFrom(i, s),
         NEW c \in Items, row[c].status = "pending", row'[c].status = "done"
  PROVE  Complete(row', c)
<1> DEFINE rows == [row EXCEPT ![i] = s]
<1>1. rows \in [Items -> Row] /\ rows[i] = s /\ \A k \in Items \ {i} : rows[k] = row[k]
  BY DEF TypeOK
<1>2. row' = RunCascade(rows) /\ c # i
  BY DEF CascadeFrom
<1> HIDE DEF rows
<1>3. c \in FinishedContainers(rows)
  BY <1>1, <1>2, CascadeRows
<1>4. Kids(row', c) = Kids(rows, c) /\ Kids(rows, c) # {}
  <2>1. Kids(row', c) = Kids(rows, c)
    BY <1>1, <1>2, CascadeRows, KidsKept
  <2> QED
    BY <1>3, <2>1 DEF FinishedContainers, OpenContainers
<1>5. ASSUME NEW k \in Kids(rows, c) PROVE row'[k].status = "done"
  <2>1. k \in Items
    BY DEF Kids
  <2>2. rows[k].status = "done" \/ k \in FinishedContainers(rows)
    BY <1>3, FinishedIsSupported DEF StepIsOver
  <2> QED
    BY <1>1, <1>2, <2>1, <2>2, CascadeRows
<1> QED
  BY <1>4, <1>5 DEF Complete

\* A cascade leaves no container behind.
LEMMA CascadeIsThorough ==
  ASSUME TypeOK, NEW i \in Items, NEW s \in Row, CascadeFrom(i, s),
         NEW c \in OpenContainers(row'), Complete(row', c)
  PROVE  FALSE
<1> DEFINE rows == [row EXCEPT ![i] = s]
<1>1. rows \in [Items -> Row] /\ row' = RunCascade(rows)
  BY DEF TypeOK, CascadeFrom
<1> HIDE DEF rows
<1>2. c \in Items /\ Request[c].pinned /\ row'[c].status = "pending"
  BY DEF OpenContainers
<1>3. c \notin FinishedContainers(rows) /\ row'[c] = rows[c]
  BY <1>1, <1>2, CascadeRows
<1>4. Kids(row', c) = Kids(rows, c)
  BY <1>1, CascadeRows, KidsKept
<1>5. c \in OpenContainers(rows)
  BY <1>2, <1>3, <1>4 DEF OpenContainers, Complete
<1>6. ASSUME NEW k \in Kids(rows, c)
      PROVE  StepIsOver(rows, k) \/ k \in FinishedContainers(rows)
  <2>1. k \in Items /\ row'[k].status = "done"
    BY <1>4 DEF Kids, Complete
  <2> QED
    BY <1>1, <2>1, CascadeRows DEF StepIsOver
<1> QED
  BY <1>3, <1>5, <1>6, FinishedIsClosed

\* A write without a cascade finishes no container but one that was held.
LEMMA QuietLeavesNone ==
  ASSUME TypeOK, ParentsFirst, VehiclesStandAlone,
         \/ \A j \in Items : row'[j].status = row[j].status
         \/ \E i \in Items : Create(i) \/ MovedAlone(i),
         NEW c \in OpenContainers(row'), Complete(row', c)
  PROVE  row[c].status = "in_progress" \/ (c \in OpenContainers(row) /\ Complete(row, c))
<1>1. /\ c \in Items /\ Request[c].pinned /\ row'[c].status = "pending"
      /\ Kids(row', c) # {}
      /\ \A k \in Kids(row', c) : k \in Items /\ row'[k].status = "done"
  BY DEF OpenContainers, Complete, Kids
<1>2. ASSUME row[c].status = "pending", Kids(row', c) = Kids(row, c),
             \A k \in Kids(row', c) : row[k].status = "done"
      PROVE  c \in OpenContainers(row) /\ Complete(row, c)
  BY <1>1, <1>2 DEF OpenContainers, Complete
<1>3. CASE \A j \in Items : row'[j].status = row[j].status
  BY <1>1, <1>2, <1>3, KidsKept
<1>4. ASSUME NEW i \in Items, Create(i)
      PROVE  c \in OpenContainers(row) /\ Complete(row, c)
  <2>1. /\ row[i].status = "unfiled" /\ row'[i].status = "pending"
        /\ \A j \in Items \ {i} : row'[j].status = row[j].status
        /\ IsChild(i) => Request[i].parent # i
    BY <1>4, CreateRows
  <2>2. c # i
    <3> SUFFICES ASSUME c = i PROVE FALSE
      OBVIOUS
    <3>1. PICK k \in Items : IsChild(k) /\ Request[k].parent = i /\ row'[k].status # "unfiled"
      BY <1>1 DEF Kids
    <3>2. k # i
      BY <2>1, <3>1
    <3>3. row[k].status # "unfiled"
      BY <2>1, <3>1, <3>2
    <3> QED
      BY <2>1, <3>1, <3>3 DEF ParentsFirst, Filed
  <2>3. i \notin Kids(row', c)
    BY <1>1, <2>1
  <2>4. Kids(row', c) = Kids(row, c)
    BY <2>1, <2>3 DEF Kids
  <2>5. \A k \in Kids(row', c) : row[k].status = "done"
    BY <1>1, <2>1, <2>3
  <2> QED
    BY <1>1, <1>2, <2>1, <2>2, <2>4, <2>5
<1>5. ASSUME NEW i \in Items, MovedAlone(i)
      PROVE  row[c].status = "in_progress" \/ (c \in OpenContainers(row) /\ Complete(row, c))
  <2>1. Kids(row', c) = Kids(row, c)
    BY <1>5, KidsKept DEF MovedAlone
  <2>2. i \notin Kids(row', c)
    BY <1>1, <1>5 DEF MovedAlone, VehiclesStandAlone, Kids, IsChild
  <2>3. \A k \in Kids(row', c) : row[k].status = "done"
    BY <1>1, <1>5, <2>2 DEF MovedAlone
  <2>4. row[c].status \in {"pending", "in_progress"}
    BY <1>1, <1>5 DEF MovedAlone
  <2> QED
    BY <1>2, <2>1, <2>3, <2>4
<1> QED
  BY <1>3, <1>4, <1>5

\* A container closes with its last step and never before it, at every depth and
\* whatever reports, verdicts, defaults, filings and leases come between; none is
\* left behind that nobody held.
THEOREM ContainersCloseWithSteps ==
  ASSUME VehiclesStandAlone PROVE Spec => ContainersFollowSteps
<1> DEFINE Inv == TypeOK /\ HoldingInv /\ ParentsFirst
           Closing == \A i \in Items :
                        row[i].status = "pending" /\ row'[i].status = "done"
                        /\ Request[i].verifies = NoItem => Complete(row', i)
           Following == \A c \in OpenContainers(row') :
                          Complete(row', c) =>
                            row[c].status = "in_progress"
                            \/ (c \in OpenContainers(row) /\ Complete(row, c))
<1>1. Init => ParentsFirst
  BY DEF Init, NewRow, ParentsFirst
<1>2. Inv /\ [Next]_vars => ParentsFirst'
  BY NextTree, ParentsStayFirst
<1>3. Inv /\ [Next]_vars => [Closing /\ Following]_vars
  <2> SUFFICES ASSUME Inv, [Next]_vars PROVE Closing /\ Following
    OBVIOUS
  <2>1. TreeShape
    BY NextTree
  <2>2. Closing
    <3> SUFFICES ASSUME NEW c \in Items, row[c].status = "pending", row'[c].status = "done",
                        Request[c].verifies = NoItem
                 PROVE  Complete(row', c)
      OBVIOUS
    <3>1. ASSUME NEW i \in Items, Create(i) PROVE FALSE
      BY <3>1, CreateRows
    <3>2. ASSUME NEW i \in Items, MovedAlone(i) PROVE FALSE
      BY <3>2 DEF MovedAlone
    <3> QED
      BY <2>1, <3>1, <3>2, ClosedIsComplete DEF TreeShape
  <2>3. Following
    BY <2>1, CascadeIsThorough, QuietLeavesNone DEF TreeShape
  <2> QED
    BY <2>2, <2>3
<1>4. Spec => []Inv
  BY <1>1, <1>2, Holding, PTL DEF Spec
<1> QED
  BY <1>3, <1>4, PTL DEF Spec, ContainersFollowSteps

-----------------------------------------------------------------------------
(* The queue implements FencedWork.                                        *)

\* How the shapes of a row's step look to FencedWork.
LEMMA MovesMap ==
  ASSUME TypeOK, HoldingInv, NEW i \in Items, Moves(i, row'[i])
  PROVE  Fenced!Grant(i) \/ Fenced!End(i) \/ Fenced!Answer(i) \/ Fenced!Withdraw(i)
<1> USE DEF SameHolding, PhaseOf, Settled, Terminal
<1>1. CASE Granted(i, row'[i])
  BY <1>1 DEF Granted, Fenced!Grant
<1>2. CASE Ended(row[i], row'[i])
  BY <1>2 DEF Ended, Fenced!End, Fenced!Phases, TypeOK, Row
<1>3. CASE GotAnswer(row[i], row'[i])
  BY <1>3 DEF GotAnswer, Fenced!Answer, HoldingInv, LeaseIffInProgress
<1>4. CASE Withdrawn(row[i], row'[i])
  BY <1>4 DEF Withdrawn, Fenced!Withdraw
<1> QED
  BY <1>1, <1>2, <1>3, <1>4 DEF Moves

LEMMA RestMaps ==
  ASSUME HoldingInv, NEW j \in Items
  PROVE  /\ Quiet(row[j], row'[j]) => Fenced!Same(j)
         /\ Closes(row[j], row'[j]) => row[j].leased_by = NoAgent /\ Fenced!Withdraw(j)
BY DEF Quiet, Closes, Kept, SameHolding, PhaseOf, Fenced!Same, Fenced!Withdraw, HoldingInv,
       LeaseIffInProgress

LEMMA StepMaps == TypeOK /\ HoldingInv /\ [Next]_vars => [Fenced!Next]_(Fenced!vars)
<1> SUFFICES ASSUME TypeOK, HoldingInv, [Next]_vars
             PROVE  [Fenced!Next]_(Fenced!vars)
  OBVIOUS
<1>1. StepShape
  BY NextShape
<1>2. CASE \A j \in Items : Quiet(row[j], row'[j])
  <2>1. \A j \in Items : Fenced!Same(j)
    BY <1>2, RestMaps
  <2> QED
    BY <2>1 DEF Fenced!Same, Fenced!vars
<1>3. ASSUME NEW i \in Items, Moves(i, row'[i]),
             \A j \in Items \ {i} : Quiet(row[j], row'[j]) \/ Closes(row[j], row'[j])
      PROVE  Fenced!Next
  BY <1>3, MovesMap, RestMaps DEF Fenced!Next
<1> QED
  BY <1>1, <1>2, <1>3 DEF StepShape

LEMMA InitMaps == Init => Fenced!Init
BY DEF Init, NewRow, PhaseOf, Fenced!Init

\* The lease protocol does what FencedWork promises: one holder, a fence that
\* grows with every change of hands, and closed work that stays closed.
THEOREM ImplementsFencedWork == Spec => IsFencedWork
BY InitMaps, StepMaps, Holding, PTL DEF Spec, IsFencedWork, Fenced!Spec
=============================================================================
