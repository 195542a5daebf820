---------------------------- MODULE WorkQueueRows ----------------------------
(***************************************************************************)
(* What the operators of the work queue make of a row: each of them turns  *)
(* a row into a row, and the fields it sets.  A row has many fields and    *)
(* the provers take an update of several of them one at a time.            *)
(***************************************************************************)
EXTENDS WorkQueueProps, TLAPS

\* Closing a row leaves a row.
LEMMA ClosedType ==
  ASSUME NEW r \in Row
  PROVE  [r EXCEPT !.status = "done"] \in Row
BY DEF Row, Status, Settled, Terminal

\* The fields of a lease may be set to anything of their types.
LEMMA LeaseSetType ==
  ASSUME NEW r \in Row, NEW s \in Status, NEW a \in Agents \cup {NoAgent},
         NEW n \in Nat, NEW ttl \in Nat, NEW age \in Nat
  PROVE  [r EXCEPT !.status = s, !.leased_by = a, !.lease_attempt = n,
                   !.left = ttl, !.age = age] \in Row
<1> DEFINE r1 == [r EXCEPT !.status = s]
           r2 == [r1 EXCEPT !.leased_by = a]
           r3 == [r2 EXCEPT !.lease_attempt = n]
           r4 == [r3 EXCEPT !.left = ttl]
           r5 == [r4 EXCEPT !.age = age]
<1>1. r1 \in Row  BY DEF Row
<1>2. r2 \in Row  BY <1>1 DEF Row
<1>3. r3 \in Row  BY <1>2 DEF Row
<1>4. r4 \in Row  BY <1>3 DEF Row
<1>5. r5 \in Row  BY <1>4 DEF Row
<1> QED           BY <1>5

\* Remembering an entry keeps the list a list.
LEMMA RememberType ==
  ASSUME NEW S, NEW list \in Seq(S), NEW entry \in S, NEW keep \in Nat
  PROVE  Remember(list, entry, keep) \in Seq(S)
<1>1. Append(list, entry) \in Seq(S) /\ Append(list, entry) # <<>>
  OBVIOUS
<1>2. Tail(Append(list, entry)) \in Seq(S)
  BY <1>1
<1> QED
  BY <1>1, <1>2 DEF Remember

\* The row after a claim.
LEMMA ClaimedType ==
  ASSUME NEW r \in Row, NEW a \in Agents, NEW ttl \in TTLs
  PROVE  /\ Claimed(r, a, ttl) \in Row
         /\ Claimed(r, a, ttl).status = "in_progress"
         /\ Claimed(r, a, ttl).leased_by = a
         /\ Claimed(r, a, ttl).lease_attempt = r.lease_attempt + 1
<1> DEFINE claims == Remember(r.claims, [agent |-> a, attempt |-> r.lease_attempt + 1],
                              ClaimsKept)
           leased == [r EXCEPT !.status = "in_progress", !.leased_by = a,
                               !.lease_attempt = r.lease_attempt + 1,
                               !.left = ttl, !.age = 0]
           claimed == [leased EXCEPT !.claims = claims]
<1>1. r.lease_attempt + 1 \in Nat /\ r.claims \in Seq([agent : Agents, attempt : Nat])
  BY DEF Row
<1>2. claims \in Seq([agent : Agents, attempt : Nat])
  BY <1>1, RememberType, ConstantsOK
<1>3. ttl \in Nat
  BY ConstantsOK
<1>4. leased \in Row
  BY <1>1, <1>3, LeaseSetType DEF Status
<1>5. claimed \in Row
  BY <1>2, <1>4 DEF Row
<1>6. Claimed(r, a, ttl) = claimed
  BY DEF Claimed
<1>7. claimed.status = "in_progress" /\ claimed.leased_by = a
      /\ claimed.lease_attempt = r.lease_attempt + 1
  BY DEF Row
<1> QED
  BY <1>5, <1>6, <1>7

\* The row after the reaper took its lease away.
LEMMA LapsedType ==
  ASSUME NEW r \in Row
  PROVE  /\ Lapsed(r) \in Row
         /\ Lapsed(r).status = "pending"
         /\ Lapsed(r).leased_by = NoAgent
         /\ Lapsed(r).lease_attempt = r.lease_attempt + 1
<1> DEFINE lapsed == [r EXCEPT !.status = "pending", !.leased_by = NoAgent,
                               !.lease_attempt = r.lease_attempt + 1,
                               !.left = 0, !.age = 0]
<1>1. r.lease_attempt + 1 \in Nat
  BY DEF Row
<1>2. lapsed \in Row
  BY <1>1, LeaseSetType DEF Status
<1>3. Lapsed(r) = lapsed
  BY DEF Lapsed
<1>4. lapsed.status = "pending" /\ lapsed.leased_by = NoAgent
      /\ lapsed.lease_attempt = r.lease_attempt + 1
  BY DEF Row
<1> QED
  BY <1>2, <1>3, <1>4

\* The row after a report was let through.
LEMMA ReleasedType ==
  ASSUME NEW r \in Row, NEW by \in Agents, NEW n \in Nat
  PROVE  /\ Released(r, by, n) \in Row
         /\ Released(r, by, n).leased_by = NoAgent
         /\ Released(r, by, n).lease_attempt = r.lease_attempt + 1
         /\ Released(r, by, n).lease_report = [by |-> by, attempt |-> n]
<1> DEFINE r1 == [r EXCEPT !.lease_report = [by |-> by, attempt |-> n]]
           r2 == [r1 EXCEPT !.leased_by = NoAgent]
           r3 == [r2 EXCEPT !.lease_attempt = r.lease_attempt + 1]
           r4 == [r3 EXCEPT !.left = 0]
           r5 == [r4 EXCEPT !.age = 0]
<1>0. r.lease_attempt + 1 \in Nat
  BY DEF Row
<1>1. r1 \in Row  BY DEF Row
<1>2. r2 \in Row  BY <1>1 DEF Row
<1>3. r3 \in Row  BY <1>0, <1>2 DEF Row
<1>4. r4 \in Row  BY <1>3 DEF Row
<1>5. r5 \in Row  BY <1>4 DEF Row
<1>6. Released(r, by, n) = r5
  BY DEF Released, Row
<1>7. /\ r5.leased_by = NoAgent
      /\ r5.lease_attempt = r.lease_attempt + 1
      /\ r5.lease_report = [by |-> by, attempt |-> n]
  BY DEF Row
<1> QED
  BY <1>5, <1>6, <1>7

\* What an answer to its gate leaves of a row: who held it, under which fence,
\* and whose report it carries.
SameHolding(r, s) ==
  /\ s.leased_by = r.leased_by
  /\ s.lease_attempt = r.lease_attempt
  /\ s.lease_report = r.lease_report

\* The row after a failing answer.
LEMMA FailingType ==
  ASSUME NEW i \in Items, NEW r \in Row
  PROVE  /\ Failing(i, r) \in Row
         /\ SameHolding(r, Failing(i, r))
         /\ Failing(i, r).status = "verify_failed"
         /\ Failing(i, r).verify_failures = r.verify_failures + 1
         /\ Failing(i, r).retry = RetryDecision(r.verify_failures + 1)
         /\ Failing(i, r).rerun = r.rerun
<1> DEFINE r1 == [r EXCEPT !.status = "verify_failed"]
           r2 == [r1 EXCEPT !.verify_failures = r.verify_failures + 1]
           r3 == [r2 EXCEPT !.retry = RetryDecision(r.verify_failures + 1)]
           r4 == [r3 EXCEPT !.parked = Request[i].max_park]
<1>0. /\ r.verify_failures + 1 \in Nat
      /\ RetryDecision(r.verify_failures + 1) \in {"fix", "escalate", "stop"}
      /\ Request[i].max_park \in Nat
  BY ConstantsOK DEF Row, RetryDecision, Requests
<1>1. r1 \in Row  BY DEF Row, Status, Settled
<1>2. r2 \in Row  BY <1>0, <1>1 DEF Row
<1>3. r3 \in Row  BY <1>0, <1>2 DEF Row
<1>4. r4 \in Row  BY <1>0, <1>3 DEF Row
<1>5. Failing(i, r) = r4
  BY DEF Failing, Row
<1>6. /\ SameHolding(r, r4)
      /\ r4.status = "verify_failed"
      /\ r4.verify_failures = r.verify_failures + 1
      /\ r4.retry = RetryDecision(r.verify_failures + 1)
      /\ r4.rerun = r.rerun
  BY DEF Row, SameHolding
<1> QED
  BY <1>4, <1>5, <1>6

\* The status may be set to any other.
LEMMA StatusSetType ==
  ASSUME NEW r \in Row, NEW s \in Status
  PROVE  /\ [r EXCEPT !.status = s] \in Row
         /\ SameHolding(r, [r EXCEPT !.status = s])
         /\ [r EXCEPT !.status = s].status = s
BY DEF Row, SameHolding

\* Folding a rung in leaves a set of rungs.
LEMMA FoldRungType ==
  ASSUME NEW r \in Row, NEW stage \in Nat, NEW passed \in BOOLEAN
  PROVE  FoldRung(r, stage, passed)
           \in SUBSET [stage : Nat, passed : BOOLEAN, generation : Nat]
<1>1. /\ r.verify_failures \in Nat
      /\ r.stages \in SUBSET [stage : Nat, passed : BOOLEAN, generation : Nat]
  BY DEF Row
<1>2. [stage |-> stage, passed |-> passed, generation |-> r.verify_failures]
        \in [stage : Nat, passed : BOOLEAN, generation : Nat]
  BY <1>1
<1> QED
  BY <1>1, <1>2 DEF FoldRung

\* The row after evidence answered its gate: settled, but never abandoned.
LEMMA GradedType ==
  ASSUME NEW i \in Items, NEW r \in Row, NEW by \in Agents,
         NEW outcome \in Outcomes, NEW stage \in Nat
  PROVE  /\ Graded(i, r, by, outcome, stage) \in Row
         /\ SameHolding(r, Graded(i, r, by, outcome, stage))
         /\ Graded(i, r, by, outcome, stage).status \in Settled \ {"failed"}
<1> DEFINE staged == Request[i].rungs > 0
           stages == IF staged THEN FoldRung(r, stage, outcome = "pass") ELSE r.stages
           shown == [r EXCEPT !.attestation = [outcome |-> outcome, by |-> by]]
           r2 == [shown EXCEPT !.rerun = FALSE]
           settled == [r2 EXCEPT !.stages = stages]
<1>1. shown \in Row /\ SameHolding(r, shown)
  <2>1. [outcome |-> outcome, by |-> by] \in Evidence
    BY DEF Evidence
  <2> QED
    BY <2>1 DEF Row, SameHolding
<1>2. r2 \in Row /\ SameHolding(r, r2)
  BY <1>1 DEF Row, SameHolding
<1>3. stages \in SUBSET [stage : Nat, passed : BOOLEAN, generation : Nat]
  <2>1. r.stages \in SUBSET [stage : Nat, passed : BOOLEAN, generation : Nat]
    BY DEF Row
  <2> QED
    BY <2>1, FoldRungType
<1> HIDE DEF stages, r2
<1>4. settled \in Row /\ SameHolding(r, settled)
  BY <1>2, <1>3 DEF Row, SameHolding
<1> HIDE DEF shown, settled
<1>5. CASE outcome = "cannot_evaluate"
  <2> DEFINE s1 == [shown EXCEPT !.status = "verify_failed"]
             s2 == [s1 EXCEPT !.rerun = TRUE]
             s3 == [s2 EXCEPT !.retry = "re-run"]
             s4 == [s3 EXCEPT !.parked = Request[i].max_park]
  <2>0. Request[i].max_park \in Nat
    BY ConstantsOK DEF Requests
  <2>1. s1 \in Row  BY <1>1 DEF Row, Status, Settled
  <2>2. s2 \in Row  BY <2>1 DEF Row
  <2>3. s3 \in Row  BY <2>2 DEF Row
  <2>4. s4 \in Row  BY <2>0, <2>3 DEF Row
  <2>6. SameHolding(shown, s4) /\ s4.status = "verify_failed"
    BY <1>1 DEF Row, SameHolding
  <2>5. Graded(i, r, by, outcome, stage) = s4
    BY <1>5 DEF Graded, shown
  <2> QED
    BY <1>1, <2>4, <2>5, <2>6 DEF Settled, SameHolding
<1>6. CASE outcome = "pass"
  <2> DEFINE status == IF staged /\ ~Climbed(i, stages) THEN "awaiting_verify" ELSE "done"
             passed == [settled EXCEPT !.status = status]
  <2>1. status \in {"awaiting_verify", "done"}
    OBVIOUS
  <2> HIDE DEF status
  <2>2. passed \in Row /\ SameHolding(r, passed) /\ passed.status = status
    BY <1>4, <2>1, StatusSetType DEF SameHolding, Status, Settled, Terminal
  <2>3. Graded(i, r, by, outcome, stage) = passed
    BY <1>6 DEF Graded, status, settled, stages, r2, shown
  <2> QED
    BY <2>1, <2>2, <2>3 DEF Settled, Terminal
<1>7. CASE outcome = "fail"
  <2>1. Graded(i, r, by, outcome, stage) = Failing(i, settled)
    BY <1>7 DEF Graded, settled, stages, r2, shown
  <2> QED
    BY <1>4, <2>1, FailingType DEF SameHolding, Settled
<1> QED
  BY <1>5, <1>6, <1>7 DEF Outcomes

\* The row after a report of a DONE: it lands on an answer or awaits one.
LEMMA LandedType ==
  ASSUME NEW i \in Items, NEW r \in Row, NEW by \in Agents,
         NEW outcome \in Outcomes, NEW stage \in Nat
  PROVE  /\ Landed(i, r, by, outcome, stage) \in Row
         /\ SameHolding(r, Landed(i, r, by, outcome, stage))
         /\ Landed(i, r, by, outcome, stage).status \in Settled \ {"failed"}
<1>0. Request[i].max_park \in Nat /\ Gate(i) \in GateKinds
  BY ConstantsOK DEF Requests, Gate
<1>1. CASE Gate(i) = "none"
  <2> DEFINE done == [r EXCEPT !.status = "done"]
             bare == [done EXCEPT !.attestation = NoEvidence]
  <2>1. done \in Row /\ SameHolding(r, done) /\ done.status = "done"
    BY StatusSetType DEF Status, Settled, Terminal
  <2> HIDE DEF done
  <2>2. NoEvidence \in Evidence
    BY DEF NoEvidence, Evidence
  <2>3. bare \in Row /\ SameHolding(r, bare) /\ bare.status = "done"
    BY <2>1, <2>2 DEF Row, SameHolding
  <2>4. Landed(i, r, by, outcome, stage) = bare
    BY <1>1 DEF Landed, done
  <2> QED
    BY <2>3, <2>4 DEF Settled, Terminal
<1>2. CASE Gate(i) \in {"judged", "human"}
  <2> DEFINE waits == [r EXCEPT !.status = "awaiting_verify"]
             parks == [waits EXCEPT !.parked = Request[i].max_park]
  <2>1. waits \in Row /\ SameHolding(r, waits) /\ waits.status = "awaiting_verify"
    BY StatusSetType DEF Status, Settled
  <2> HIDE DEF waits
  <2>2. parks \in Row /\ SameHolding(r, parks) /\ parks.status = "awaiting_verify"
    BY <1>0, <2>1 DEF Row, SameHolding
  <2>3. Landed(i, r, by, outcome, stage) = parks
    BY <1>2 DEF Landed, waits
  <2> QED
    BY <2>2, <2>3 DEF Settled, Terminal
<1>3. CASE Gate(i) = "deterministic"
  <2> DEFINE graded == Graded(i, r, by, outcome, stage)
             parks == [graded EXCEPT !.parked = Request[i].max_park]
  <2>1. graded \in Row /\ SameHolding(r, graded) /\ graded.status \in Settled \ {"failed"}
    BY GradedType
  <2> HIDE DEF graded
  <2>2. /\ parks \in Row /\ SameHolding(r, parks)
        /\ parks.status \in Settled \ {"failed"}
    BY <1>0, <2>1 DEF Row, SameHolding
  <2>3. Landed(i, r, by, outcome, stage) \in {graded, parks}
    BY <1>3 DEF Landed, graded
  <2> QED
    BY <2>1, <2>2, <2>3
<1> QED
  BY <1>0, <1>1, <1>2, <1>3 DEF GateKinds

\* The row after a verdict.
LEMMA AttestedType ==
  ASSUME NEW i \in Items, NEW r \in Row, NEW by \in Agents,
         NEW outcome \in Outcomes, NEW stage \in Nat
  PROVE  /\ Attested(i, r, by, outcome, stage) \in Row
         /\ SameHolding(r, Attested(i, r, by, outcome, stage))
         /\ Attested(i, r, by, outcome, stage).status \in Settled \ {"failed"}
<1> DEFINE overturned == [r EXCEPT !.resolution = "none"]
           graded == Graded(i, overturned, by, outcome, stage)
           undecided == [graded EXCEPT !.retry = "none"]
<1>1. overturned \in Row /\ SameHolding(r, overturned)
  BY DEF Row, SameHolding
<1> HIDE DEF overturned
<1>2. /\ graded \in Row /\ SameHolding(r, graded)
      /\ graded.status \in Settled \ {"failed"}
  BY <1>1, GradedType DEF SameHolding
<1> HIDE DEF graded
<1>3. /\ undecided \in Row /\ SameHolding(r, undecided)
      /\ undecided.status \in Settled \ {"failed"}
  BY <1>2 DEF Row, SameHolding
<1>4. Attested(i, r, by, outcome, stage) \in {graded, undecided}
  BY DEF Attested, graded, overturned
<1> QED
  BY <1>2, <1>3, <1>4

\* The row after its gate's default was taken.
LEMMA DefaultedType ==
  ASSUME NEW i \in Items, NEW r \in Row, NEW default \in Defaults
  PROVE  /\ Defaulted(i, r, default) \in Row
         /\ SameHolding(r, Defaulted(i, r, default))
         /\ Defaulted(i, r, default).status \in Settled \ {"failed"}
<1> DEFINE resolved == [r EXCEPT !.resolution = default]
           done == [resolved EXCEPT !.status = "done"]
<1>1. resolved \in Row /\ SameHolding(r, resolved)
  BY DEF Row, SameHolding
<1> HIDE DEF resolved
<1>2. done \in Row /\ SameHolding(r, done) /\ done.status = "done"
  BY <1>1, StatusSetType DEF SameHolding, Status, Settled, Terminal
<1>3. /\ Failing(i, resolved) \in Row
      /\ SameHolding(r, Failing(i, resolved))
      /\ Failing(i, resolved).status = "verify_failed"
  BY <1>1, FailingType DEF SameHolding
<1>4. Defaulted(i, r, default) \in {Failing(i, resolved), done}
  BY DEF Defaulted, resolved
<1> QED
  BY <1>2, <1>3, <1>4 DEF Settled, Terminal

\* The row after it was retired.
LEMMA RetiredType ==
  ASSUME NEW r \in Row
  PROVE  /\ Retired(r) \in Row
         /\ Retired(r).status = "done"
         /\ Retired(r).leased_by = NoAgent
         /\ Retired(r).lease_attempt = r.lease_attempt
         /\ Retired(r).lease_report = r.lease_report
<1> DEFINE done == [r EXCEPT !.status = "done"]
           r2 == [done EXCEPT !.leased_by = NoAgent]
           r3 == [r2 EXCEPT !.left = 0]
           r4 == [r3 EXCEPT !.age = 0]
<1>1. done \in Row
  BY ClosedType
<1>2. r2 \in Row  BY <1>1 DEF Row
<1>3. r3 \in Row  BY <1>2 DEF Row
<1>4. r4 \in Row  BY <1>3 DEF Row
<1>5. /\ r4.status = "done" /\ r4.leased_by = NoAgent
      /\ r4.lease_attempt = r.lease_attempt
      /\ r4.lease_report = r.lease_report
  BY DEF Row
<1>6. Retired(r) = r4
  BY DEF Retired
<1> QED
  BY <1>4, <1>5, <1>6

\* The row a unit of time later.
LEMMA AgedType ==
  ASSUME NEW r \in Row
  PROVE  /\ Aged(r) \in Row
         /\ SameHolding(r, Aged(r))
         /\ Aged(r).status = r.status
<1> DEFINE age == IF r.leased_by # NoAgent /\ r.age < LeaseMaxAge THEN r.age + 1 ELSE r.age
           r1 == [r EXCEPT !.left = Down(r.left)]
           r2 == [r1 EXCEPT !.parked = Down(r.parked)]
           r3 == [r2 EXCEPT !.age = age]
<1>1. r.left \in Nat /\ r.parked \in Nat /\ r.age \in Nat
  BY DEF Row
<1>2. Down(r.left) \in Nat /\ Down(r.parked) \in Nat /\ age \in Nat
  BY <1>1 DEF Down
<1> HIDE DEF age
<1>3. r1 \in Row  BY <1>2 DEF Row
<1>4. r2 \in Row  BY <1>2, <1>3 DEF Row
<1>5. r3 \in Row  BY <1>2, <1>4 DEF Row
<1>6. SameHolding(r, r3) /\ r3.status = r.status
  BY DEF Row, SameHolding
<1>7. Aged(r) = r3
  BY DEF Aged, age
<1> QED
  BY <1>5, <1>6, <1>7

\* The row of an item just filed.
LEMMA FiledRowType ==
  ASSUME NEW i \in Items
  PROVE  /\ NewRow \in Row
         /\ FiledRow(i) \in Row
         /\ FiledRow(i).status = "pending"
         /\ FiledRow(i).leased_by = NoAgent
<1>1. NewRow \in Row /\ NewRow.leased_by = NoAgent
  <2>1. NoEvidence \in Evidence
    BY DEF NoEvidence, Evidence
  <2>2. <<>> \in Seq([agent : Agents, attempt : Nat])
    OBVIOUS
  <2> QED
    BY <2>1, <2>2 DEF NewRow, Row, Status, Defaults
<1> DEFINE pending == [NewRow EXCEPT !.status = "pending"]
           filed == [pending EXCEPT !.blocked_by = Request[i].blocked_by]
<1>2. /\ pending \in Row /\ SameHolding(NewRow, pending)
      /\ pending.status = "pending"
  BY <1>1, StatusSetType DEF Status
<1> HIDE DEF pending
<1>3. Request[i].blocked_by \in SUBSET Items
  BY ConstantsOK DEF Requests
<1>4. filed \in Row /\ filed.status = "pending" /\ filed.leased_by = NoAgent
  BY <1>1, <1>2, <1>3 DEF Row, SameHolding
<1>5. FiledRow(i) = filed
  BY DEF FiledRow, pending
<1> QED
  BY <1>1, <1>4, <1>5

\* The cascade closes pending rows and touches nothing else.
LEMMA CascadeType ==
  ASSUME NEW rows \in [Items -> Row]
  PROVE  /\ RunCascade(rows) \in [Items -> Row]
         /\ \A j \in Items :
              \/ RunCascade(rows)[j] = rows[j]
              \/ /\ rows[j].status = "pending"
                 /\ RunCascade(rows)[j] = [rows[j] EXCEPT !.status = "done"]
<1>1. \A j \in FinishedContainers(rows) : rows[j].status = "pending"
  BY DEF FinishedContainers, OpenContainers
<1>2. \A j \in Items : [rows[j] EXCEPT !.status = "done"] \in Row
  BY ClosedType
<1> QED
  BY <1>1, <1>2 DEF RunCascade
=============================================================================
