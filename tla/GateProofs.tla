----------------------------- MODULE GateProofs -----------------------------
(***************************************************************************)
(* Theorems about gates, and about the passes that keep them moving, for   *)
(* every value of the constants.                                           *)
(***************************************************************************)
EXTENDS WorkQueueProofs, GateRoutingProps

-----------------------------------------------------------------------------
(* What answers a gate.                                                    *)

\* A default stands only on a row it closed or failed; a re-run is offered only
\* by a check that could not evaluate, and not while its answer is awaited.
DefaultStands(i, r) ==
  /\ \/ r.resolution = "none"
     \/ r.status = "done" /\ r.resolution \in {"pass", "proceed_on_default"}
     \/ r.status = "verify_failed" /\ r.resolution = "fail" /\ ~r.rerun
  /\ r.rerun => Gate(i) = "deterministic" /\ r.status # "awaiting_verify"

\* The three promises about a gated row that evidence closed.
Proven(i, r) ==
  /\ r.attestation.outcome = "pass"
  /\ \A n \in 0..(Request[i].rungs - 1) :
       [stage |-> n, passed |-> TRUE, generation |-> r.verify_failures] \in r.stages
  /\ Gate(i) \in {"judged", "human"} =>
       /\ r.attestation.by # r.lease_report.by
       /\ Gate(i) = "judged" => Party[r.attestation.by] # Party[r.lease_report.by]

RowAnswered(i, r) ==
  /\ DefaultStands(i, r)
  /\ r.status = "done" /\ IsGated(i) /\ ~Request[i].pinned /\ ~ByDefault(r) => Proven(i, r)

GateInv == \A i \in Items : RowAnswered(i, row[i])

\* The fields that GateInv speaks of, the status apart.
SameRecord(r, s) ==
  /\ s.attestation = r.attestation /\ s.resolution = r.resolution
  /\ s.lease_report = r.lease_report /\ s.stages = r.stages
  /\ s.verify_failures = r.verify_failures /\ s.rerun = r.rerun

LEMMA GateInvSays == GateInv => GateAnswered /\ LadderClimbedAfresh /\ VerdictFromOutside
BY DEF GateInv, RowAnswered, DefaultStands, Proven, GateAnswered, LadderClimbedAfresh,
       VerdictFromOutside, ByDefault, IsGated

\* No default was taken, and a re-run is offered only where it may be.
LEMMA NoneStands ==
  ASSUME NEW i, NEW r, r.resolution = "none",
         r.rerun => Gate(i) = "deterministic",
         r.rerun => r.status # "awaiting_verify"
  PROVE  DefaultStands(i, r)
BY DEF DefaultStands

\* A row that goes on: nothing is asked of it but that no default was taken.
LEMMA OpenAnswered ==
  ASSUME NEW i \in Items, NEW r \in Row, NEW s \in Row, RowAnswered(i, r),
         r.status \in {"unfiled", "pending", "in_progress"} \/ RerunPending(r),
         s.status \in {"pending", "in_progress", "failed"},
         s.resolution = r.resolution, s.rerun = r.rerun
  PROVE  RowAnswered(i, s)
BY DEF RowAnswered, DefaultStands, RerunPending

\* Writes that leave the record and the status alone.
LEMMA SameAnswered ==
  ASSUME NEW i \in Items, NEW r \in Row, NEW s \in Row, RowAnswered(i, r),
         SameRecord(r, s), s.status = r.status
  PROVE  RowAnswered(i, s)
BY DEF RowAnswered, DefaultStands, Proven, SameRecord, ByDefault

\* A container the cascade closes is pinned, and no default was taken on it.
LEMMA ClosedAnswered ==
  ASSUME NEW i \in Items, NEW r \in Row, RowAnswered(i, r), r.status = "pending",
         Request[i].pinned
  PROVE  RowAnswered(i, [r EXCEPT !.status = "done"])
<1>1. /\ [r EXCEPT !.status = "done"].resolution = r.resolution
      /\ [r EXCEPT !.status = "done"].rerun = r.rerun
  BY DEF Row
<1> QED
  BY <1>1 DEF RowAnswered, DefaultStands

\* The rungs of a climbed ladder are of the present generation.
LEMMA FoldedAfresh ==
  ASSUME NEW i \in Items, NEW r \in Row, NEW stage \in Nat, NEW passed \in BOOLEAN,
         Climbed(i, FoldRung(r, stage, passed)), NEW n \in 0..(Request[i].rungs - 1)
  PROVE  [stage |-> n, passed |-> TRUE, generation |-> r.verify_failures]
           \in FoldRung(r, stage, passed)
<1>1. PICK s \in FoldRung(r, stage, passed) : s.stage = n /\ s.passed
  BY DEF Climbed
<1>2. s \in [stage : Nat, passed : BOOLEAN, generation : Nat]
  BY FoldRungType
<1>3. s.generation = r.verify_failures
  BY <1>1 DEF FoldRung
<1>4. s = [stage |-> n, passed |-> TRUE, generation |-> r.verify_failures]
  BY <1>1, <1>2, <1>3
<1> QED
  BY <1>1, <1>4

\* Evidence leaves defaults alone and counts failures; a pass closes or parks,
\* inconclusive evidence offers a re-run; what it closes was passed, rung by rung.
EvidenceTells(i, r, by, outcome, g) ==
  /\ g.resolution = r.resolution
  /\ g.verify_failures = IF outcome = "fail" THEN r.verify_failures + 1 ELSE r.verify_failures
  /\ outcome = "pass" => g.status \in {"awaiting_verify", "done"}
  /\ g.rerun => outcome = "cannot_evaluate" /\ g.status = "verify_failed"
  /\ g.status = "done" =>
       /\ g.attestation = [outcome |-> "pass", by |-> by]
       /\ \A n \in 0..(Request[i].rungs - 1) :
            [stage |-> n, passed |-> TRUE, generation |-> g.verify_failures] \in g.stages

LEMMA GradedRecord ==
  ASSUME NEW i \in Items, NEW r \in Row, NEW by \in Agents, NEW outcome \in Outcomes,
         NEW stage \in Nat
  PROVE  EvidenceTells(i, r, by, outcome, Graded(i, r, by, outcome, stage))
<1> DEFINE g == Graded(i, r, by, outcome, stage)
           staged == Request[i].rungs > 0
           stages == IF staged THEN FoldRung(r, stage, outcome = "pass") ELSE r.stages
           shown == [r EXCEPT !.attestation = [outcome |-> outcome, by |-> by]]
           settled == [shown EXCEPT !.rerun = FALSE, !.stages = stages]
<1>0. Request[i].rungs \in Nat
  BY ConstantsOK DEF Requests
<1>1. /\ shown \in Row /\ shown.resolution = r.resolution
      /\ shown.attestation = [outcome |-> outcome, by |-> by]
      /\ shown.verify_failures = r.verify_failures
  <2>1. [outcome |-> outcome, by |-> by] \in Evidence
    BY DEF Evidence
  <2> QED
    BY <2>1 DEF Row
<1>2. stages \in SUBSET [stage : Nat, passed : BOOLEAN, generation : Nat]
  <2>1. r.stages \in SUBSET [stage : Nat, passed : BOOLEAN, generation : Nat]
    BY DEF Row
  <2> QED
    BY <2>1, FoldRungType
<1>3. g = (CASE outcome = "cannot_evaluate" ->
             [shown EXCEPT !.status = "verify_failed", !.rerun = TRUE,
                           !.retry = "re-run", !.parked = Request[i].max_park]
        [] outcome = "pass" ->
             [settled EXCEPT !.status = IF staged /\ ~Climbed(i, stages)
                                          THEN "awaiting_verify" ELSE "done"]
        [] outcome = "fail" -> Failing(i, settled))
  BY DEF Graded
<1> HIDE DEF g, shown, stages
<1>4. /\ settled \in Row /\ settled.resolution = r.resolution /\ settled.rerun = FALSE
      /\ settled.attestation = [outcome |-> outcome, by |-> by]
      /\ settled.verify_failures = r.verify_failures /\ settled.stages = stages
  BY <1>1, <1>2 DEF Row
<1> HIDE DEF settled
<1>5. CASE outcome = "cannot_evaluate"
  <2>1. g = [shown EXCEPT !.status = "verify_failed", !.rerun = TRUE,
                           !.retry = "re-run", !.parked = Request[i].max_park]
    BY <1>3, <1>5
  <2>2. /\ g.resolution = r.resolution /\ g.rerun = TRUE /\ g.status = "verify_failed"
        /\ g.verify_failures = r.verify_failures
    BY <1>1, <2>1 DEF Row
  <2> QED
    BY <1>5, <2>2 DEF EvidenceTells, g
<1>6. CASE outcome = "pass"
  <2>1. g = [settled EXCEPT !.status = IF staged /\ ~Climbed(i, stages)
                                          THEN "awaiting_verify" ELSE "done"]
    BY <1>3, <1>6
  <2>2. /\ g.resolution = r.resolution /\ g.rerun = FALSE
        /\ g.attestation = [outcome |-> "pass", by |-> by]
        /\ g.verify_failures = r.verify_failures /\ g.stages = stages
        /\ g.status = IF staged /\ ~Climbed(i, stages) THEN "awaiting_verify" ELSE "done"
    BY <1>4, <1>6, <2>1 DEF Row
  <2>3. ASSUME g.status = "done", NEW n \in 0..(Request[i].rungs - 1)
        PROVE  [stage |-> n, passed |-> TRUE, generation |-> r.verify_failures] \in stages
    <3>1. staged /\ Climbed(i, stages)
      BY <1>0, <2>2, <2>3
    <3>2. stages = FoldRung(r, stage, TRUE)
      BY <1>6, <3>1 DEF stages
    <3> QED
      BY <3>1, <3>2, <2>3, FoldedAfresh
  <2> QED
    BY <1>6, <2>2, <2>3 DEF EvidenceTells, g
<1>7. CASE outcome = "fail"
  <2>1. g = Failing(i, settled)
    BY <1>3, <1>7
  <2>2. /\ g.status = "verify_failed" /\ g.rerun = FALSE
        /\ g.verify_failures = r.verify_failures + 1
    BY <1>4, <2>1, FailingType
  <2>3. g.resolution = r.resolution
    BY <1>4, <2>1 DEF Failing, Row
  <2> QED
    BY <1>7, <2>2, <2>3 DEF EvidenceTells, g
<1> QED
  BY <1>5, <1>6, <1>7 DEF Outcomes

\* A report lands: evidence closes a deterministic gate, any other gate waits.
LEMMA LandedAnswered ==
  ASSUME NEW i \in Items, NEW r \in Row, NEW by \in Agents, NEW outcome \in Outcomes,
         NEW stage \in Nat, RowAnswered(i, r), r.resolution = "none"
  PROVE  RowAnswered(i, Landed(i, r, by, outcome, stage))
<1> DEFINE s == Landed(i, r, by, outcome, stage)
<1>0. Gate(i) \in GateKinds
  BY ConstantsOK DEF Requests, Gate
<1>1. CASE Gate(i) = "none"
  <2>1. s = [r EXCEPT !.status = "done", !.attestation = NoEvidence]
    BY <1>1 DEF Landed
  <2>2. s.resolution = "none" /\ s.rerun = r.rerun
    BY <2>1 DEF Row
  <2> QED
    BY <1>1, <2>2 DEF RowAnswered, DefaultStands, IsGated
<1>2. CASE Gate(i) \in {"judged", "human"}
  <2>1. s = [r EXCEPT !.status = "awaiting_verify", !.parked = Request[i].max_park]
    BY <1>2 DEF Landed
  <2>2. s.resolution = "none" /\ s.rerun = r.rerun /\ s.status = "awaiting_verify"
    BY <2>1 DEF Row
  <2> QED
    BY <1>2, <2>2 DEF RowAnswered, DefaultStands
<1>3. CASE Gate(i) = "deterministic"
  <2> DEFINE g == Graded(i, r, by, outcome, stage)
  <2>1. /\ g \in Row
        /\ s = IF g.status = "awaiting_verify"
                 THEN [g EXCEPT !.parked = Request[i].max_park] ELSE g
    BY <1>3, GradedType DEF Landed
  <2>2. EvidenceTells(i, r, by, outcome, g)
    BY GradedRecord
  <2> HIDE DEF g, s
  <2>3. RowAnswered(i, g)
    BY <1>3, <2>2 DEF RowAnswered, DefaultStands, Proven, EvidenceTells
  <2>4. CASE s = [g EXCEPT !.parked = Request[i].max_park]
    <3>0. Request[i].max_park \in Nat
      BY ConstantsOK DEF Requests
    <3>1. s \in Row
      BY <2>1, <2>4, <3>0 DEF Row
    <3>2. SameRecord(g, s) /\ s.status = g.status
      BY <2>1, <2>4 DEF Row, SameRecord
    <3> QED
      BY <2>1, <2>3, <3>1, <3>2, SameAnswered DEF s
  <2> QED
    BY <2>1, <2>3, <2>4 DEF s
<1> QED
  BY <1>0, <1>1, <1>2, <1>3 DEF GateKinds

\* A verdict lands, from outside where the gate asks for it.
LEMMA AttestedAnswered ==
  ASSUME TypeOK, NEW i \in Items, NEW a \in Agents, NEW outcome \in Outcomes,
         NEW stage \in Stages, MayAttest(a, i), Showable(i, outcome, stage)
  PROVE  RowAnswered(i, Attested(i, row[i], a, outcome, stage))
<1> DEFINE r == row[i]
           o == [r EXCEPT !.resolution = "none"]
           g == Graded(i, o, a, outcome, stage)
           s == Attested(i, r, a, outcome, stage)
<1>0. stage \in Nat
  BY NumbersType
<1>1. r \in Row
  BY DEF TypeOK
<1> HIDE DEF r
<1>8. o \in Row /\ o.resolution = "none" /\ o.lease_report = r.lease_report
  BY <1>1 DEF Row
<1> HIDE DEF o
<1>2. /\ g \in Row /\ g.lease_report = o.lease_report
      /\ EvidenceTells(i, o, a, outcome, g)
  BY <1>0, <1>8, GradedType, GradedRecord DEF SameHolding
<1>3. s = IF outcome = "pass" THEN [g EXCEPT !.retry = "none"] ELSE g
  BY DEF Attested, o
<1> HIDE DEF g
<1>4. Gate(i) \in {"judged", "human"} =>
        /\ a # r.lease_report.by
        /\ Gate(i) = "judged" => Party[a] # Party[r.lease_report.by]
  BY DEF MayAttest, SameSide, r
<1>5. g.rerun => Gate(i) = "deterministic"
  BY <1>2 DEF Showable, EvidenceTells
<1>9. DefaultStands(i, g)
  <2>1. g.resolution = "none"
    BY <1>8, <1>2 DEF EvidenceTells
  <2>2. g.rerun => g.status = "verify_failed"
    BY <1>2 DEF EvidenceTells
  <2>3. g.rerun => g.status # "awaiting_verify"
    BY <2>2
  <2> QED
    BY <1>5, <2>1, <2>3, NoneStands
<1>10. g.status = "done" => Proven(i, g)
  BY <1>8, <1>2, <1>4 DEF Proven, EvidenceTells
<1>6. RowAnswered(i, g)
  BY <1>9, <1>10 DEF RowAnswered
<1>7. CASE s = [g EXCEPT !.retry = "none"]
  <2>1. s \in Row /\ SameRecord(g, s) /\ s.status = g.status
    BY <1>2, <1>7 DEF Row, SameRecord
  <2> HIDE DEF s
  <2> QED
    BY <1>2, <1>6, <2>1, SameAnswered DEF s, r
<1> QED
  BY <1>3, <1>6, <1>7 DEF r

\* A default proceeds, or fails the gate; only on a gate that waits.
LEMMA DefaultedAnswered ==
  ASSUME NEW i \in Items, NEW r \in Row, NEW d \in Defaults \ {"escalate"}, RowAnswered(i, r),
         r.status = "awaiting_verify"
  PROVE  RowAnswered(i, Defaulted(i, r, d))
<1> DEFINE resolved == [r EXCEPT !.resolution = d]
<1>1. resolved \in Row /\ resolved.resolution = d /\ resolved.rerun = r.rerun
  BY DEF Row
<1>2. Defaulted(i, r, d) = IF d = "fail" THEN Failing(i, resolved)
                                          ELSE [resolved EXCEPT !.status = "done"]
  BY DEF Defaulted
<1> HIDE DEF resolved
<1>3. ~r.rerun
  BY DEF RowAnswered, DefaultStands
<1>4. CASE d = "fail"
  <2> DEFINE f == Failing(i, resolved)
  <2>1. f.status = "verify_failed" /\ f.rerun = r.rerun
    BY <1>1, FailingType
  <2>2. f.resolution = d
    BY <1>1 DEF Failing, Row
  <2> HIDE DEF f
  <2>3. RowAnswered(i, f)
    BY <1>3, <1>4, <2>1, <2>2 DEF RowAnswered, DefaultStands
  <2> QED
    BY <1>2, <1>4, <2>3 DEF f
<1>5. CASE d # "fail"
  <2> DEFINE f == [resolved EXCEPT !.status = "done"]
  <2>1. f.status = "done" /\ f.rerun = r.rerun /\ f.resolution = d
    BY <1>1 DEF Row
  <2>2. d \in {"pass", "proceed_on_default"}
    BY <1>5 DEF Defaults
  <2> HIDE DEF f
  <2>3. RowAnswered(i, f)
    BY <1>3, <2>1, <2>2 DEF RowAnswered, DefaultStands, ByDefault
  <2> QED
    BY <1>2, <1>5, <2>3 DEF f
<1> QED
  BY <1>4, <1>5

-----------------------------------------------------------------------------
(* Steps.                                                                   *)

\* A write with its cascade: the item named gets its new row, some pinned
\* containers close, nothing else changes.
LEMMA CascadeAnswers ==
  ASSUME TypeOK, GateInv, NEW i \in Items, NEW s \in Row, s.status # "pending",
         RowAnswered(i, s), row' = RunCascade([row EXCEPT ![i] = s])
  PROVE  GateInv'
<1> DEFINE rows == [row EXCEPT ![i] = s]
<1>1. rows \in [Items -> Row] /\ rows[i] = s /\ \A j \in Items \ {i} : rows[j] = row[j]
  BY DEF TypeOK
<1> HIDE DEF rows
<1>2. ASSUME NEW j \in Items
      PROVE  \/ row'[j] = rows[j]
             \/ /\ rows[j].status = "pending" /\ Request[j].pinned
                /\ row'[j] = [rows[j] EXCEPT !.status = "done"]
  BY DEF RunCascade, FinishedContainers, OpenContainers, rows
<1>3. ASSUME NEW j \in Items PROVE RowAnswered(j, row'[j])
  <2>1. RowAnswered(j, rows[j]) /\ rows[j] \in Row
    BY <1>1 DEF GateInv
  <2> QED
    BY <1>2, <2>1, ClosedAnswered
<1> QED
  BY <1>3 DEF GateInv

\* One row rewritten.
LEMMA SoloAnswers ==
  ASSUME TypeOK, GateInv, NEW i \in Items, NEW s, RowAnswered(i, s),
         row' = [row EXCEPT ![i] = s]
  PROVE  GateInv'
BY DEF TypeOK, GateInv

\* Records left alone everywhere.
LEMMA QuietAnswers ==
  ASSUME TypeOK, TypeOK', GateInv,
         \A j \in Items : /\ SameRecord(row[j], row'[j])
                          /\ row'[j].status = row[j].status
  PROVE  GateInv'
<1>1. ASSUME NEW j \in Items PROVE RowAnswered(j, row'[j])
  BY SameAnswered DEF TypeOK, GateInv
<1> QED
  BY <1>1 DEF GateInv

LEMMA CreateAnswers ==
  ASSUME TypeOK, GateInv, NEW i \in Items, Create(i)
  PROVE  GateInv'
<1>1. ASSUME NEW j \in Items PROVE RowAnswered(j, row'[j])
  <2>1. RowAnswered(j, row[j]) /\ row[j] \in Row
    BY DEF GateInv, TypeOK
  <2>2. CASE row'[j] = FiledRow(j)
    <3>1. /\ FiledRow(j).status = "pending" /\ FiledRow(j).resolution = "none"
          /\ ~FiledRow(j).rerun
      BY DEF FiledRow, NewRow
    <3>2. DefaultStands(j, FiledRow(j))
      BY <3>1, NoneStands
    <3> QED
      BY <2>2, <3>1, <3>2 DEF RowAnswered
  <2>3. CASE row'[j] = [row[j] EXCEPT !.blocked_by = row[j].blocked_by \cup {i}]
    <3> DEFINE r == row[j]
    <3> HIDE DEF r
    <3>1. /\ SameRecord(r, [r EXCEPT !.blocked_by = r.blocked_by \cup {i}])
          /\ [r EXCEPT !.blocked_by = r.blocked_by \cup {i}].status = r.status
          /\ [r EXCEPT !.blocked_by = r.blocked_by \cup {i}] \in Row
      BY <2>1, WaitsType DEF SameRecord, Row, r
    <3> QED
      BY <2>1, <2>3, <3>1, SameAnswered DEF r
  <2>4. CASE row'[j] = row[j]
    BY <2>1, <2>4
  <2> QED
    BY <2>2, <2>3, <2>4 DEF Create
<1> QED
  BY <1>1 DEF GateInv

LEMMA ClaimAnswers ==
  ASSUME TypeOK, GateInv, NEW a \in Agents, NEW ttl \in TTLs, Claim(a, ttl)
  PROVE  GateInv'
<1> DEFINE i == seen[a].item
           s == Claimed(row[i], a, ttl)
<1>1. CASE i \in Items
  <2>1. row' = [row EXCEPT ![i] = s] /\ row[i] \in Row
    BY <1>1 DEF Claim, TypeOK
  <2>2. s \in Row /\ s.status = "in_progress"
    BY <2>1, ClaimedType
  <2>3. s.resolution = row[i].resolution /\ s.rerun = row[i].rerun
    BY <2>1 DEF Claimed, Row
  <2>4. RowAnswered(i, row[i])
    BY <1>1 DEF GateInv
  <2>5. row[i].status \in {"pending", "in_progress"} \/ RerunPending(row[i])
    BY DEF Claim, Claimable
  <2> HIDE DEF s
  <2>6. RowAnswered(i, s)
    BY <1>1, <2>1, <2>2, <2>3, <2>4, <2>5, OpenAnswered
  <2> QED
    BY <1>1, <2>1, <2>6, SoloAnswers
<1>2. CASE i \notin Items
  <2>1. row' = row
    BY <1>2 DEF Claim, TypeOK
  <2> QED
    BY <2>1 DEF GateInv
<1> QED
  BY <1>1, <1>2

LEMMA ReapAnswers ==
  ASSUME TypeOK, GateInv, NEW i \in Items, Reap(i)
  PROVE  GateInv'
<1> DEFINE s == Lapsed(row[i])
<1>1. /\ row' = [row EXCEPT ![i] = s] /\ row[i] \in Row /\ RowAnswered(i, row[i])
      /\ row[i].status = "in_progress"
  BY DEF Reap, TypeOK, GateInv
<1>2. s \in Row /\ s.status = "pending"
  BY <1>1, LapsedType
<1>3. s.resolution = row[i].resolution /\ s.rerun = row[i].rerun
  BY <1>1 DEF Lapsed, Row
<1> HIDE DEF s
<1>4. RowAnswered(i, s)
  BY <1>1, <1>2, <1>3, OpenAnswered
<1> QED
  BY <1>1, <1>4, SoloAnswers

LEMMA RetireAnswers ==
  ASSUME TypeOK, GateInv, NEW i \in Items, Retire(i)
  PROVE  GateInv'
<1> DEFINE s == Retired(row[i])
<1>1. /\ row' = [row EXCEPT ![i] = s] /\ row[i] \in Row /\ RowAnswered(i, row[i])
      /\ row[i].status \in {"pending", "in_progress"} /\ ~IsGated(i)
  BY DEF Retire, TypeOK, GateInv
<1>2. s.resolution = row[i].resolution /\ s.rerun = row[i].rerun /\ s.status = "done"
  BY <1>1 DEF Retired, Row
<1> HIDE DEF s
<1>3. RowAnswered(i, s)
  BY <1>1, <1>2 DEF RowAnswered, DefaultStands
<1> QED
  BY <1>1, <1>3, SoloAnswers

\* An accepted report is of a row on which no default was taken.
LEMMA ReleasedAnswers ==
  ASSUME TypeOK, HoldingInv, GateInv, NEW a \in Agents, NEW i \in Items, NEW n \in 1..MaxAttempt,
         Accepted(a, i, n)
  PROVE  LET r == Released(row[i], a, n)
         IN  r \in Row /\ RowAnswered(i, r) /\ r.resolution = "none" /\ r.status = "in_progress"
<1> DEFINE r == Released(row[i], a, n)
<1>1. r \in Row
  BY ReleasedType, NumbersType DEF TypeOK
<1>2. row[i].status = "in_progress"
  BY AcceptedHolds
<1>3. /\ r.resolution = row[i].resolution /\ r.rerun = row[i].rerun
      /\ r.status = row[i].status
  BY DEF TypeOK, Released, Row
<1>4. row[i].resolution = "none" /\ row[i].rerun => Gate(i) = "deterministic"
  BY <1>2 DEF GateInv, RowAnswered, DefaultStands
<1> HIDE DEF r
<1>5. RowAnswered(i, r) /\ r.resolution = "none" /\ r.status = "in_progress"
  BY <1>2, <1>3, <1>4 DEF RowAnswered, DefaultStands, GateInv
<1> QED
  BY <1>1, <1>5 DEF r

LEMMA ReportAnswers ==
  ASSUME TypeOK, HoldingInv, GateInv, NEW a \in Agents, NEW i \in Items, NEW n \in 1..MaxAttempt
  PROVE  /\ ReportFailed(a, i, n) => GateInv'
         /\ \A o \in Outcomes, g \in Stages : ReportDone(a, i, n, o, g) => GateInv'
<1> DEFINE r == Released(row[i], a, n)
<1>1. ASSUME ReportFailed(a, i, n) PROVE GateInv'
  <2> DEFINE s == [r EXCEPT !.status = "failed"]
  <2>1. r \in Row /\ RowAnswered(i, r) /\ r.status = "in_progress"
    BY <1>1, ReleasedAnswers DEF ReportFailed
  <2>2. row' = RunCascade([row EXCEPT ![i] = s])
    BY <1>1 DEF ReportFailed, TypeOK
  <2> HIDE DEF r
  <2>3. /\ s \in Row /\ s.status = "failed"
        /\ s.resolution = r.resolution /\ s.rerun = r.rerun
    BY <2>1, StatusSetType DEF Row, Status, Settled, Terminal
  <2> HIDE DEF s
  <2>4. RowAnswered(i, s)
    BY <2>1, <2>3, OpenAnswered
  <2> QED
    BY <2>2, <2>3, <2>4, CascadeAnswers
<1>2. ASSUME NEW o \in Outcomes, NEW g \in Stages, ReportDone(a, i, n, o, g) PROVE GateInv'
  <2> DEFINE s == Landed(i, r, a, o, g)
  <2>1. r \in Row /\ RowAnswered(i, r) /\ r.resolution = "none"
    BY <1>2, ReleasedAnswers DEF ReportDone
  <2>2. row' = RunCascade([row EXCEPT ![i] = s])
    BY <1>2 DEF ReportDone, TypeOK
  <2> HIDE DEF r
  <2>3. s \in Row /\ s.status \in Settled
    BY <2>1, LandedType, NumbersType
  <2>4. RowAnswered(i, s)
    BY <2>1, LandedAnswered, NumbersType
  <2> HIDE DEF s
  <2> QED
    BY <2>2, <2>3, <2>4, CascadeAnswers DEF Settled, Terminal
<1> QED
  BY <1>1, <1>2

LEMMA VerdictAnswers ==
  ASSUME TypeOK, GateInv, NEW a \in Agents, NEW i \in Items,
         NEW o \in Outcomes, NEW g \in Stages, Attest(a, i, o, g)
  PROVE  GateInv'
<1> DEFINE s == Attested(i, row[i], a, o, g)
<1>1. s \in Row /\ s.status \in Settled
  BY AttestedType, NumbersType DEF TypeOK
<1>2. row' = RunCascade([row EXCEPT ![i] = s])
  BY DEF Attest, TypeOK
<1>3. RowAnswered(i, s)
  BY AttestedAnswered DEF Attest
<1> HIDE DEF s
<1> QED
  BY <1>1, <1>2, <1>3, CascadeAnswers DEF Settled, Terminal

LEMMA DefaultAnswers ==
  ASSUME TypeOK, GateInv, NEW i \in Items, NEW d \in Defaults, ResolveByDefault(i, d)
  PROVE  GateInv'
<1> DEFINE s == Defaulted(i, row[i], d)
<1>1. s \in Row /\ s.status \in Settled
  BY DefaultedType DEF TypeOK
<1>2. row' = RunCascade([row EXCEPT ![i] = s])
  BY DEF ResolveByDefault, TypeOK
<1>3. RowAnswered(i, s)
  BY DefaultedAnswered DEF ResolveByDefault, TypeOK, GateInv
<1> HIDE DEF s
<1> QED
  BY <1>1, <1>2, <1>3, CascadeAnswers DEF Settled, Terminal

\* Renewals, adjudications and time do not touch a record.
LEMMA OtherAnswers ==
  ASSUME TypeOK, TypeOK', GateInv,
         \/ UNCHANGED row
         \/ \E a \in Agents, i \in Items :
              \/ Adjudicate(a, i)
              \/ \E n \in 1..MaxAttempt, ttl \in TTLs : Renew(a, i, n, ttl)
         \/ Tick
  PROVE  GateInv'
<1> DEFINE Alike(r, s) == SameRecord(r, s) /\ s.status = r.status
<1>1. \A j \in Items : row[j] \in Row /\ Alike(row[j], row[j])
  BY DEF TypeOK, SameRecord
<1>2. CASE UNCHANGED row
  BY <1>1, <1>2, QuietAnswers
<1>3. ASSUME NEW a \in Agents, NEW i \in Items, Adjudicate(a, i) PROVE GateInv'
  <2>1. ASSUME NEW r \in Row PROVE Alike(r, [r EXCEPT !.adjudication = a])
    BY DEF Row, SameRecord
  <2>2. row' = [row EXCEPT ![i] = [row[i] EXCEPT !.adjudication = a]]
    BY <1>3 DEF Adjudicate, TypeOK
  <2> HIDE DEF Alike
  <2>3. \A j \in Items : Alike(row[j], row'[j])
    BY <1>1, <2>1, <2>2 DEF TypeOK
  <2> QED
    BY <2>3, QuietAnswers DEF Alike
<1>4. ASSUME NEW a \in Agents, NEW i \in Items, NEW n, NEW ttl, Renew(a, i, n, ttl)
      PROVE  GateInv'
  <2>1. ASSUME NEW r \in Row, NEW left PROVE Alike(r, [r EXCEPT !.left = left])
    BY DEF Row, SameRecord
  <2>2. PICK left : row' = [row EXCEPT ![i] = [row[i] EXCEPT !.left = left]]
    BY <1>4 DEF Renew, TypeOK
  <2> HIDE DEF Alike
  <2>3. \A j \in Items : Alike(row[j], row'[j])
    BY <1>1, <2>1, <2>2 DEF TypeOK
  <2> QED
    BY <2>3, QuietAnswers DEF Alike
<1>5. CASE Tick
  <2>1. ASSUME NEW r \in Row PROVE Alike(r, Aged(r))
    BY DEF Row, SameRecord, Aged
  <2> HIDE DEF Alike
  <2>2. \A j \in Items : Alike(row[j], row'[j])
    BY <1>1, <1>5, <2>1 DEF Tick
  <2> QED
    BY <2>2, QuietAnswers DEF Alike
<1> QED
  BY <1>2, <1>3, <1>4, <1>5

LEMMA GateStep == TypeOK /\ HoldingInv /\ GateInv /\ [Next]_vars => GateInv'
<1> SUFFICES ASSUME TypeOK, HoldingInv, GateInv, [Next]_vars PROVE GateInv'
  OBVIOUS
<1>0. TypeOK'
  BY NextTypeOK
<1>1. CASE UNCHANGED row
  BY <1>0, <1>1, OtherAnswers
<1>2. CASE Tick
  BY <1>0, <1>2, OtherAnswers
<1>3. ASSUME NEW a \in Agents, NEW i \in Items, Adjudicate(a, i) PROVE GateInv'
  BY <1>0, <1>3, OtherAnswers
<1>4. ASSUME NEW a \in Agents, NEW i \in Items, NEW n \in 1..MaxAttempt, NEW ttl \in TTLs,
             Renew(a, i, n, ttl)
      PROVE  GateInv'
  BY <1>0, <1>4, OtherAnswers
<1>5. ASSUME NEW a \in Agents, NEW i \in Items, ClaimRead(a, i) \/ ClaimDropped(a)
      PROVE  GateInv'
  BY <1>1, <1>5 DEF ClaimRead, ClaimDropped
<1>6. ASSUME NEW a \in Agents, ClaimDropped(a) PROVE GateInv'
  BY <1>1, <1>6 DEF ClaimDropped
<1> QED
  BY <1>1, <1>2, <1>3, <1>4, <1>5, <1>6, CreateAnswers, ClaimAnswers, ReapAnswers, RetireAnswers,
     ReportAnswers, VerdictAnswers, DefaultAnswers
  DEF Next, WorkNext, Verdict, PlaneNext, vars

LEMMA InitAnswers == Init => GateInv
<1>1. NewRow.status = "unfiled" /\ NewRow.resolution = "none" /\ ~NewRow.rerun
  BY DEF NewRow
<1>2. ASSUME NEW i \in Items PROVE RowAnswered(i, NewRow)
  BY <1>1, NoneStands DEF RowAnswered
<1> QED
  BY <1>2 DEF Init, GateInv

LEMMA Gates == Spec => []GateInv
BY InitAnswers, GateStep, Holding, PTL DEF Spec

\* A gated item is done only on a passing verdict or on a default that
\* proceeds, whatever reports, verdicts, re-runs and defaults came in whatever
\* order (report_result, attest, resolve_by_default).
THEOREM GatesAreAnswered == Spec => []GateAnswered
BY Gates, GateInvSays, PTL

\* A staged gate closed by evidence was climbed whole since its last failing
\* answer, however many rungs it has.
THEOREM LaddersAreClimbedAfresh == Spec => []LadderClimbedAfresh
BY Gates, GateInvSays, PTL

\* The verdict that closed a judged or human gate came from outside.
THEOREM VerdictsComeFromOutside == Spec => []VerdictFromOutside
BY Gates, GateInvSays, PTL

-----------------------------------------------------------------------------
(* The passes.                                                              *)

Routed == {i \in Items : Gate(i) \in {"judged", "human"}}

\* The gate was owed an answer at this count, and nothing but an answer has
\* happened since.
Reached(i, n) ==
  \/ row[i].verify_failures > n
  \/ row[i].verify_failures = n /\ (Owed(i) \/ row[i].status \in Terminal)

\* It will never be owed one at this count again.
Past(i, n) == row[i].verify_failures > n \/ row[i].status \in Terminal

\* A vehicle is filed once its gate was owed an answer at its count.  What is
\* to be retired, or is closed, is of a gate that was answered or quarantined.
OfferKept(i, n, v) ==
  /\ Filed(v) \/ v \in beat.file => Reached(i, n)
  /\ v \in beat.retire => Filed(v)
  /\ Request[i].rungs = 0 =>
       /\ v \in beat.retire => marks[i].quarantined \/ Past(i, n)
       /\ Filed(v) => Live(v) \/ marks[i].quarantined \/ Past(i, n)

CountsBounded ==
  \A i \in Items :
    /\ row[i].verify_failures <= MaxFailures
    /\ row[i].status = "unfiled" => row[i].verify_failures = 0

RoutingInv ==
  /\ CountsBounded
  /\ \A i \in Routed, n \in 0..MaxFailures : OfferKept(i, n, Vehicle[i][n + 1])

-----------------------------------------------------------------------------
(* What a step of the queue does to the gates: one turn for every item.     *)

Still(r, s) ==
  s.status = r.status /\ s.verify_failures = r.verify_failures /\ s.retry = r.retry

\* In order: nothing; filed, if it is one of those that may be; closed with
\* its steps; handed out or back; reported, which a vehicle cannot be while
\* its gate waits; answered.
Turn(j, r, s, new) ==
  /\ s.verify_failures \in r.verify_failures..MaxFailures
  /\ \/ Still(r, s)
     \/ r.status = "unfiled" /\ s.status = "pending" /\ j \in new
     \/ r.status = "pending" /\ s.status = "done" /\ Request[j].pinned
     \/ /\ r.status \in {"pending", "in_progress"} \/ RerunPending(r)
        /\ s.status \in {"pending", "in_progress"}
     \/ r.status = "in_progress" /\ s.status # "unfiled" /\ ~VehicleBarred(j)
     \/ /\ r.status \in {"awaiting_verify", "verify_failed"}
        /\ s.status \in Settled
        /\ j \in Routed => \/ s.verify_failures > r.verify_failures
                          \/ s.status \in {"awaiting_verify", "done"}

Turns(new) == \A j \in Items : Turn(j, row[j], row'[j], new)

LEMMA StillTurns ==
  ASSUME NEW j \in Items, NEW r \in Row, NEW s, NEW new,
         r.verify_failures <= MaxFailures, Still(r, s)
  PROVE  Turn(j, r, s, new)
BY ConstantsOK DEF Turn, Still, Row

\* A write with its cascade.
LEMMA CascadeTurns ==
  ASSUME TypeOK, CountsBounded, NEW i \in Items, NEW s \in Row, s.status # "pending",
         NEW new, Turn(i, row[i], s, new), row' = RunCascade([row EXCEPT ![i] = s])
  PROVE  Turns(new)
<1> DEFINE rows == [row EXCEPT ![i] = s]
<1>1. rows \in [Items -> Row] /\ rows[i] = s /\ \A j \in Items \ {i} : rows[j] = row[j]
  BY DEF TypeOK
<1> HIDE DEF rows
<1>2. ASSUME NEW j \in Items
      PROVE  \/ row'[j] = rows[j]
             \/ /\ rows[j].status = "pending" /\ Request[j].pinned
                /\ row'[j] = [rows[j] EXCEPT !.status = "done"]
  BY DEF RunCascade, FinishedContainers, OpenContainers, rows
<1>3. ASSUME NEW j \in Items \ {i} PROVE Turn(j, row[j], row'[j], new)
  <2>1. rows[j] = row[j] /\ row[j] \in Row /\ row[j].verify_failures <= MaxFailures
    BY <1>1 DEF TypeOK, CountsBounded
  <2>2. CASE row'[j] = row[j]
    BY <2>1, <2>2, StillTurns DEF Still
  <2>3. CASE row[j].status = "pending" /\ Request[j].pinned
             /\ row'[j] = [row[j] EXCEPT !.status = "done"]
    <3> DEFINE r == row[j]
    <3> HIDE DEF r
    <3>1. r \in Row /\ row'[j] = [r EXCEPT !.status = "done"] /\ r.verify_failures <= MaxFailures
          /\ r.status = "pending"
      BY <2>1, <2>3 DEF r
    <3>2. row'[j].status = "done" /\ row'[j].verify_failures = r.verify_failures
      BY <3>1 DEF Row
    <3>3. row'[j].verify_failures \in r.verify_failures..MaxFailures
      <4>1. r.verify_failures \in Nat
        BY <3>1 DEF Row
      <4>2. MaxFailures \in Nat
        BY ConstantsOK
      <4> QED
        BY <3>1, <3>2, <4>1, <4>2
    <3> QED
      BY <2>3, <3>1, <3>2, <3>3 DEF Turn, r
  <2> QED
    BY <1>2, <2>1, <2>2, <2>3
<1>4. row'[i] = s
  BY <1>1, <1>2
<1> QED
  BY <1>3, <1>4 DEF Turns

\* One row rewritten.
LEMMA SoloTurns ==
  ASSUME TypeOK, CountsBounded, NEW i \in Items, NEW s, NEW new,
         Turn(i, row[i], s, new), row' = [row EXCEPT ![i] = s]
  PROVE  Turns(new)
<1>1. ASSUME NEW j \in Items \ {i} PROVE Turn(j, row[j], row'[j], new)
  BY StillTurns DEF TypeOK, CountsBounded, Still
<1>2. row'[i] = s
  BY DEF TypeOK
<1> QED
  BY <1>1, <1>2 DEF Turns

LEMMA QuietTurns ==
  ASSUME TypeOK, CountsBounded, NEW new, \A j \in Items : Still(row[j], row'[j])
  PROVE  Turns(new)
BY StillTurns DEF TypeOK, CountsBounded, Turns

LEMMA CreateTurns ==
  ASSUME TypeOK, HoldingInv, CountsBounded, NEW i \in Items, Create(i)
  PROVE  Turns({i})
<1>1. ASSUME NEW j \in Items PROVE Turn(j, row[j], row'[j], {i})
  <2>1. row[j] \in Row /\ row[j].verify_failures <= MaxFailures
    BY DEF TypeOK, CountsBounded
  <2>2. CASE j = i
    <3>1. row'[j] = FiledRow(i) /\ row[j].status = "unfiled"
      <4>1. row' = [k \in Items |->
                      CASE k = i -> FiledRow(i)
                        [] IsChild(i) /\ k = Request[i].parent ->
                              [row[k] EXCEPT !.blocked_by = row[k].blocked_by \cup {i}]
                        [] OTHER -> row[k]]
        BY DEF Create
      <4>2. ~(IsChild(i) /\ i = Request[i].parent)
        BY DEF Create, EnforceDecomposition
      <4>3. row'[i] = FiledRow(i)
        BY <4>1, <4>2
      <4> QED
        BY <2>2, <4>3 DEF Create, Filed
    <3>2. FiledRow(i).status = "pending" /\ FiledRow(i).verify_failures = 0
      BY DEF FiledRow, NewRow
    <3>3. row[j].verify_failures = 0 /\ 0 \in 0..MaxFailures
      BY <2>2, <3>1, ConstantsOK DEF CountsBounded
    <3> QED
      BY <2>2, <3>1, <3>2, <3>3 DEF Turn
  <2>3. CASE row'[j] = [row[j] EXCEPT !.blocked_by = row[j].blocked_by \cup {i}]
    <3> DEFINE r == row[j]
    <3> HIDE DEF r
    <3>1. Still(r, [r EXCEPT !.blocked_by = r.blocked_by \cup {i}])
      BY <2>1 DEF Still, Row, r
    <3> QED
      BY <2>1, <2>3, <3>1, StillTurns DEF r
  <2>4. CASE row'[j] = row[j]
    BY <2>1, <2>4, StillTurns DEF Still
  <2> QED
    BY <2>2, <2>3, <2>4 DEF Create
<1> QED
  BY <1>1 DEF Turns

LEMMA ClaimTurns ==
  ASSUME TypeOK, CountsBounded, NEW a \in Agents, NEW ttl \in TTLs, Claim(a, ttl), NEW new
  PROVE  Turns(new)
<1> DEFINE i == seen[a].item
           s == Claimed(row[i], a, ttl)
<1>1. CASE i \in Items
  <2>1. row' = [row EXCEPT ![i] = s] /\ row[i] \in Row
    BY <1>1 DEF Claim, TypeOK
  <2>2. s \in Row /\ s.status = "in_progress"
    BY <2>1, ClaimedType
  <2>3. s.verify_failures = row[i].verify_failures
    BY <2>1 DEF Claimed, Row
  <2>4. s.verify_failures \in row[i].verify_failures..MaxFailures
    BY <1>1, <2>1, <2>3, ConstantsOK DEF CountsBounded, Row
  <2>5. row[i].status \in {"pending", "in_progress"} \/ RerunPending(row[i])
    BY DEF Claim, Claimable
  <2> HIDE DEF s
  <2>6. Turn(i, row[i], s, new)
    BY <2>2, <2>4, <2>5 DEF Turn
  <2> QED
    BY <1>1, <2>1, <2>6, SoloTurns
<1>2. CASE i \notin Items
  <2>1. row' = row
    BY <1>2 DEF Claim, TypeOK
  <2> QED
    BY <2>1, QuietTurns DEF Still
<1> QED
  BY <1>1, <1>2

LEMMA ReapTurns ==
  ASSUME TypeOK, CountsBounded, NEW i \in Items, Reap(i), NEW new
  PROVE  Turns(new)
<1> DEFINE s == Lapsed(row[i])
<1>1. row' = [row EXCEPT ![i] = s] /\ row[i] \in Row /\ row[i].status = "in_progress"
  BY DEF Reap, TypeOK
<1>2. s.status = "pending"
  BY <1>1, LapsedType
<1>3. s.verify_failures = row[i].verify_failures
  BY <1>1 DEF Lapsed, Row
<1> HIDE DEF s
<1>4. s.verify_failures \in row[i].verify_failures..MaxFailures
  BY <1>1, <1>3, ConstantsOK DEF CountsBounded, Row
<1>5. Turn(i, row[i], s, new)
  BY <1>1, <1>2, <1>4 DEF Turn
<1> QED
  BY <1>1, <1>5, SoloTurns

\* Only evidence counts a failure.
LEMMA LandedCounts ==
  ASSUME NEW i \in Items, NEW r \in Row, NEW by \in Agents, NEW outcome \in Outcomes,
         NEW stage \in Nat
  PROVE  Landed(i, r, by, outcome, stage).verify_failures =
           IF Gate(i) = "deterministic" /\ outcome = "fail"
             THEN r.verify_failures + 1 ELSE r.verify_failures
<1> DEFINE s == Landed(i, r, by, outcome, stage)
<1>0. Gate(i) \in GateKinds
  BY ConstantsOK DEF Requests, Gate
<1>1. CASE Gate(i) = "none"
  BY <1>1 DEF Landed, Row
<1>2. CASE Gate(i) \in {"judged", "human"}
  BY <1>2 DEF Landed, Row
<1>3. CASE Gate(i) = "deterministic"
  <2> DEFINE g == Graded(i, r, by, outcome, stage)
  <2>1. g \in Row /\ EvidenceTells(i, r, by, outcome, g)
    BY GradedType, GradedRecord
  <2>2. s \in {g, [g EXCEPT !.parked = Request[i].max_park]}
    BY <1>3 DEF Landed
  <2> HIDE DEF g, s
  <2>3. s.verify_failures = g.verify_failures
    BY <2>1, <2>2 DEF Row
  <2> QED
    BY <1>3, <2>1, <2>3 DEF EvidenceTells, s
<1> QED
  BY <1>0, <1>1, <1>2, <1>3 DEF GateKinds

\* A report comes from the holder of work in progress, and on a vehicle only
\* once its gate no longer waits.
LEMMA ReportTurns ==
  ASSUME TypeOK, HoldingInv, CountsBounded, NEW a \in Agents, NEW i \in Items,
         NEW n \in 1..MaxAttempt, NEW new
  PROVE  /\ ReportFailed(a, i, n) => Turns(new)
         /\ \A o \in Outcomes, g \in Stages : ReportDone(a, i, n, o, g) => Turns(new)
<1> DEFINE r == Released(row[i], a, n)
<1>1. /\ r \in Row /\ r.verify_failures = row[i].verify_failures
      /\ row[i].verify_failures \in Nat /\ row[i].verify_failures <= MaxFailures
      /\ MaxFailures \in Nat
  <2>1. row[i] \in Row
    BY DEF TypeOK
  <2>2. r \in Row
    BY <2>1, ReleasedType, NumbersType
  <2>3. r.verify_failures = row[i].verify_failures
    BY <2>1 DEF Released, Row
  <2> QED
    BY <2>1, <2>2, <2>3, ConstantsOK DEF CountsBounded, Row
<1>2. Accepted(a, i, n) => row[i].status = "in_progress" /\ ~VehicleBarred(i)
  BY AcceptedHolds DEF Accepted
<1>3. ASSUME ReportFailed(a, i, n) PROVE Turns(new)
  <2> DEFINE s == [r EXCEPT !.status = "failed"]
  <2>1. row' = RunCascade([row EXCEPT ![i] = s])
    BY <1>3 DEF ReportFailed, TypeOK
  <2> HIDE DEF r
  <2>2. s \in Row /\ s.status = "failed" /\ s.verify_failures = r.verify_failures
    BY <1>1, StatusSetType DEF Row, Status, Settled, Terminal
  <2> HIDE DEF s
  <2>3. s.verify_failures \in row[i].verify_failures..MaxFailures
    BY <1>1, <2>2
  <2>4. Turn(i, row[i], s, new)
    BY <1>2, <1>3, <2>2, <2>3 DEF Turn, ReportFailed
  <2> QED
    BY <2>1, <2>2, <2>4, CascadeTurns
<1>4. ASSUME NEW o \in Outcomes, NEW g \in Stages, ReportDone(a, i, n, o, g) PROVE Turns(new)
  <2> DEFINE s == Landed(i, r, a, o, g)
  <2>1. row' = RunCascade([row EXCEPT ![i] = s])
    BY <1>4 DEF ReportDone, TypeOK
  <2>2. Gate(i) = "deterministic" /\ o = "fail" => row[i].verify_failures < MaxFailures
    BY <1>4 DEF ReportDone, Showable
  <2> HIDE DEF r
  <2>3. g \in Nat
    BY NumbersType
  <2>4. s \in Row /\ s.status \in Settled
    BY <1>1, <2>3, LandedType
  <2>5. s.verify_failures = IF Gate(i) = "deterministic" /\ o = "fail"
                              THEN r.verify_failures + 1 ELSE r.verify_failures
    BY <1>1, <2>3, LandedCounts
  <2> HIDE DEF s
  <2>6. s.verify_failures \in row[i].verify_failures..MaxFailures
    BY <1>1, <2>2, <2>5
  <2>7. Turn(i, row[i], s, new)
    BY <1>2, <1>4, <2>4, <2>6 DEF Turn, ReportDone, Settled, Terminal
  <2> QED
    BY <2>1, <2>4, <2>7, CascadeTurns DEF Settled, Terminal
<1> QED
  BY <1>3, <1>4

\* A verdict: another failure, or a rung passed, or the gate closed.  A gate
\* without a ladder is past its count, whatever the verdict.
LEMMA VerdictTurns ==
  ASSUME TypeOK, CountsBounded, NEW a \in Agents, NEW i \in Items, NEW o \in Outcomes,
         NEW g \in Stages, Attest(a, i, o, g), NEW new
  PROVE  /\ Turns(new)
         /\ i \in Routed /\ Request[i].rungs = 0 =>
              \A n \in Nat : Reached(i, n) => Past(i, n)'
<1> DEFINE r == [row[i] EXCEPT !.resolution = "none"]
           e == Graded(i, r, a, o, g)
           s == Attested(i, row[i], a, o, g)
<1>0. g \in Nat
  BY NumbersType
<1>1. /\ r \in Row /\ r.verify_failures = row[i].verify_failures
      /\ row[i].verify_failures \in Nat /\ row[i].verify_failures <= MaxFailures
      /\ MaxFailures \in Nat
  <2>1. row[i] \in Row
    BY DEF TypeOK
  <2>2. r \in Row /\ r.verify_failures = row[i].verify_failures
    BY <2>1 DEF Row
  <2>3. row[i].verify_failures \in Nat
    BY <2>1 DEF Row
  <2>4. row[i].verify_failures <= MaxFailures
    BY DEF CountsBounded
  <2>5. MaxFailures \in Nat
    BY ConstantsOK
  <2> QED
    BY <2>2, <2>3, <2>4, <2>5
<1>2. /\ row[i].status \in {"awaiting_verify", "verify_failed"}
      /\ o = "fail" => row[i].verify_failures < MaxFailures
      /\ o = "cannot_evaluate" => i \notin Routed
  BY DEF Attest, MayAttest, Showable, Routed
<1>3. row' = RunCascade([row EXCEPT ![i] = s])
  BY DEF Attest, TypeOK
<1>4. s \in Row /\ s.status \in Settled
  BY <1>0, AttestedType DEF TypeOK
<1>5. s \in {e, [e EXCEPT !.retry = "none"]}
  BY DEF Attested
<1> HIDE DEF r
<1>6. e \in Row /\ EvidenceTells(i, r, a, o, e)
  BY <1>0, <1>1, GradedType, GradedRecord
<1>10. Request[i].rungs = 0 /\ o = "pass" => e.status = "done"
  <2>1. ASSUME Request[i].rungs = 0, o = "pass" PROVE e.status = "done"
    <3> DEFINE settled == [[r EXCEPT !.attestation = [outcome |-> o, by |-> a]]
                              EXCEPT !.rerun = FALSE, !.stages = r.stages]
    <3>1. ~(Request[i].rungs > 0)
      BY <2>1
    <3>2. e = [settled EXCEPT !.status = "done"]
      BY <2>1, <3>1 DEF Graded
    <3>3. "status" \in DOMAIN settled
      BY <1>1 DEF Row
    <3> HIDE DEF settled
    <3> QED
      BY <3>2, <3>3
  <2> QED
    BY <2>1
<1> HIDE DEF e, s
<1>7. s.verify_failures = e.verify_failures /\ s.status = e.status
  BY <1>5, <1>6 DEF Row
<1>8. /\ s.verify_failures \in row[i].verify_failures..MaxFailures
      /\ i \in Routed => \/ (o = "fail" /\ s.verify_failures > row[i].verify_failures)
                        \/ (o = "pass" /\ s.status \in {"awaiting_verify", "done"})
  <2>1. s.verify_failures = IF o = "fail" THEN row[i].verify_failures + 1
                                          ELSE row[i].verify_failures
    BY <1>1, <1>6, <1>7 DEF EvidenceTells
  <2>2. o = "pass" => s.status \in {"awaiting_verify", "done"}
    BY <1>6, <1>7 DEF EvidenceTells
  <2>3. s.verify_failures \in row[i].verify_failures..MaxFailures
    BY <1>1, <1>2, <2>1
  <2>4. o = "fail" => s.verify_failures > row[i].verify_failures
    BY <1>1, <2>1
  <2> QED
    BY <1>2, <2>2, <2>3, <2>4 DEF Outcomes
<1>9. Turn(i, row[i], s, new)
  BY <1>2, <1>4, <1>8 DEF Turn
<1>11. row'[i] = s
  BY <1>3, <1>4 DEF RunCascade, FinishedContainers, OpenContainers, TypeOK, Settled, Terminal
<1>12. ASSUME i \in Routed, Request[i].rungs = 0, NEW n \in Nat, Reached(i, n)
       PROVE  Past(i, n)'
  <2>1. row[i].verify_failures >= n
    BY <1>1, <1>12 DEF Reached
  <2>2. s.status = "done" \/ s.verify_failures > n
    BY <1>1, <1>7, <1>8, <1>10, <1>12, <2>1
  <2> QED
    BY <1>11, <2>2 DEF Past, Terminal
<1> QED
  BY <1>3, <1>4, <1>9, <1>12, CascadeTurns DEF Settled, Terminal

LEMMA DefaultTurns ==
  ASSUME TypeOK, CountsBounded, NEW i \in Items, NEW d \in Defaults, ResolveByDefault(i, d),
         NEW new
  PROVE  Turns(new)
<1> DEFINE o == [row[i] EXCEPT !.resolution = d]
           s == Defaulted(i, row[i], d)
<1>1. /\ o \in Row /\ o.verify_failures = row[i].verify_failures
      /\ row[i].verify_failures \in Nat /\ row[i].verify_failures <= MaxFailures
      /\ MaxFailures \in Nat
  <2>1. row[i] \in Row
    BY DEF TypeOK
  <2>2. o \in Row /\ o.verify_failures = row[i].verify_failures
    BY <2>1 DEF Row
  <2>3. row[i].verify_failures \in Nat
    BY <2>1 DEF Row
  <2>4. row[i].verify_failures <= MaxFailures
    BY DEF CountsBounded
  <2>5. MaxFailures \in Nat
    BY ConstantsOK
  <2> QED
    BY <2>2, <2>3, <2>4, <2>5
<1>2. /\ row[i].status = "awaiting_verify"
      /\ d = "fail" => row[i].verify_failures < MaxFailures
      /\ row' = RunCascade([row EXCEPT ![i] = s])
  BY DEF ResolveByDefault, TypeOK
<1>3. s \in Row /\ s.status \in Settled
  BY DefaultedType DEF TypeOK
<1>4. s = IF d = "fail" THEN Failing(i, o) ELSE [o EXCEPT !.status = "done"]
  BY DEF Defaulted
<1> HIDE DEF o, s
<1>5. \/ d = "fail" /\ s.verify_failures = row[i].verify_failures + 1
      \/ s.status = "done" /\ s.verify_failures = row[i].verify_failures
  <2>1. CASE d = "fail"
    BY <1>1, <1>4, <2>1, FailingType
  <2>2. CASE d # "fail"
    BY <1>1, <1>4, <2>2 DEF Row
  <2> QED
    BY <2>1, <2>2
<1>6. /\ s.verify_failures \in row[i].verify_failures..MaxFailures
      /\ s.verify_failures > row[i].verify_failures \/ s.status = "done"
  BY <1>1, <1>2, <1>5
<1>7. Turn(i, row[i], s, new)
  BY <1>2, <1>3, <1>6 DEF Turn
<1> QED
  BY <1>2, <1>3, <1>7, CascadeTurns DEF Settled, Terminal

\* Renewals, adjudications and time turn nothing.
LEMMA OtherTurns ==
  ASSUME TypeOK, CountsBounded, NEW new,
         \/ UNCHANGED row
         \/ \E a \in Agents, i \in Items :
              \/ Adjudicate(a, i)
              \/ \E n \in 1..MaxAttempt, ttl \in TTLs : Renew(a, i, n, ttl)
         \/ Tick
  PROVE  Turns(new)
<1>1. \A j \in Items : row[j] \in Row /\ Still(row[j], row[j])
  BY DEF TypeOK, Still
<1>2. CASE UNCHANGED row
  BY <1>1, <1>2, QuietTurns
<1>3. ASSUME NEW a \in Agents, NEW i \in Items, Adjudicate(a, i) PROVE Turns(new)
  <2>1. ASSUME NEW r \in Row PROVE Still(r, [r EXCEPT !.adjudication = a])
    BY DEF Row, Still
  <2>2. row' = [row EXCEPT ![i] = [row[i] EXCEPT !.adjudication = a]]
    BY <1>3 DEF Adjudicate, TypeOK
  <2>3. \A j \in Items : Still(row[j], row'[j])
    BY <1>1, <2>1, <2>2 DEF TypeOK
  <2> QED
    BY <2>3, QuietTurns
<1>4. ASSUME NEW a \in Agents, NEW i \in Items, NEW n, NEW ttl, Renew(a, i, n, ttl)
      PROVE  Turns(new)
  <2>1. ASSUME NEW r \in Row, NEW left PROVE Still(r, [r EXCEPT !.left = left])
    BY DEF Row, Still
  <2>2. PICK left : row' = [row EXCEPT ![i] = [row[i] EXCEPT !.left = left]]
    BY <1>4 DEF Renew, TypeOK
  <2>3. \A j \in Items : Still(row[j], row'[j])
    BY <1>1, <2>1, <2>2 DEF TypeOK
  <2> QED
    BY <2>3, QuietTurns
<1>5. CASE Tick
  <2>1. ASSUME NEW r \in Row PROVE Still(r, Aged(r))
    BY DEF Row, Still, Aged
  <2>2. \A j \in Items : Still(row[j], row'[j])
    BY <1>1, <1>5, <2>1 DEF Tick
  <2> QED
    BY <2>2, QuietTurns
<1> QED
  BY <1>2, <1>3, <1>4, <1>5

\* What callers send files no vehicle.
LEMMA WorkTurns ==
  ASSUME TypeOK, HoldingInv, CountsBounded, WorkNext \/ \E i \in Items : Reap(i)
  PROVE  Turns(Items \ Vehicles)
<1>1. ASSUME NEW i \in Items, Request[i].verifies = NoItem, Create(i)
      PROVE  Turns(Items \ Vehicles)
  BY <1>1, CreateTurns DEF Turns, Turn, Vehicles
<1>2. ASSUME NEW a \in Agents, NEW i \in Items, ClaimRead(a, i) PROVE Turns(Items \ Vehicles)
  BY <1>2, OtherTurns DEF ClaimRead
<1>3. ASSUME NEW a \in Agents, ClaimDropped(a) PROVE Turns(Items \ Vehicles)
  BY <1>3, OtherTurns DEF ClaimDropped
<1>4. ASSUME NEW a \in Agents, NEW i \in Items, Adjudicate(a, i) PROVE Turns(Items \ Vehicles)
  BY <1>4, OtherTurns
<1>5. ASSUME NEW a \in Agents, NEW i \in Items, NEW n \in 1..MaxAttempt, NEW ttl \in TTLs,
             Renew(a, i, n, ttl)
      PROVE  Turns(Items \ Vehicles)
  BY <1>5, OtherTurns
<1> QED
  BY <1>1, <1>2, <1>3, <1>4, <1>5, ClaimTurns, ReapTurns, ReportTurns DEF WorkNext

-----------------------------------------------------------------------------
(* The routing spec is a queue, so what was proved of the queue holds of it. *)

\* Every step of the passes is a step of the queue, or leaves it alone.
LEMMA RoutingIsQueue == RoutingNext \/ UNCHANGED rvars => [Next]_vars
<1>1. ASSUME NEW v \in Vehicles, FileVehicle(v) \/ RetireVehicle(v) PROVE [Next]_vars
  BY <1>1 DEF FileVehicle, RetireVehicle, Vehicles, Next, PlaneNext, vars
<1>2. ASSUME NEW i \in Items, ResolveItem(i) PROVE [Next]_vars
  BY <1>2, ConstantsOK DEF ResolveItem, Requests, Next, PlaneNext, vars
<1>3. RouteScan \/ ParkScan \/ QuarantineScan \/ Crash => UNCHANGED vars
  BY DEF RouteScan, ParkScan, QuarantineScan, Crash, vars
<1>4. ASSUME NEW i \in Items, QuarantineItem(i) PROVE UNCHANGED vars
  BY <1>4 DEF QuarantineItem, vars
<1>5. ASSUME NEW i \in Items, Answered(i) PROVE Next
  BY <1>5 DEF Answered, Next
<1>6. QueueStep \/ Pass => Next
  BY DEF QueueStep, Pass, Next, PlaneNext
<1>7. UNCHANGED rvars => UNCHANGED vars
  BY DEF rvars, vars
<1> QED
  BY <1>1, <1>2, <1>3, <1>4, <1>5, <1>6, <1>7 DEF RoutingNext, BeatStep

\* The queue with its passes implements the queue: its theorems carry over.
THEOREM RoutingIsAQueue == RoutingSpec => Spec
<1>1. RoutingInit => Init
  BY DEF RoutingInit
<1> QED
  BY <1>1, RoutingIsQueue, PTL DEF RoutingSpec, Spec

LEMMA MarkTypes ==
  ASSUME NEW m \in Marks
  PROVE  /\ [m EXCEPT !.escalated = TRUE, !.grace = Grace] \in Marks
         /\ [m EXCEPT !.quarantined = TRUE] \in Marks
         /\ [m EXCEPT !.grace = Down(m.grace)] \in Marks
         /\ Unmarked \in Marks
<1>1. Grace \in 0..Grace /\ 0 \in 0..Grace /\ Down(m.grace) \in 0..Grace
  BY RoutingConstantsOK DEF Marks, Down
<1> QED
  BY <1>1 DEF Marks, Unmarked

\* The vehicles of a routed gate, one per count of failures.
LEMMA VehicleAt ==
  ASSUME NEW i \in Routed, NEW n \in 0..MaxFailures
  PROVE  /\ n + 1 \in DOMAIN Vehicle[i]
         /\ Vehicle[i][n + 1] \in Vehicles
         /\ Request[Vehicle[i][n + 1]].verifies = i
         /\ \A m \in 0..MaxFailures : Vehicle[i][m + 1] = Vehicle[i][n + 1] => m = n
<1>1. i \in Items /\ Vehicle[i] \in Seq(Vehicles) /\ Len(Vehicle[i]) > MaxFailures
  BY RoutingConstantsOK DEF Routed
<1>2. \A m \in 0..MaxFailures : m + 1 \in DOMAIN Vehicle[i]
  BY <1>1, ConstantsOK
<1>3. Vehicle[i][n + 1] \in Vehicles
  BY <1>1, <1>2
<1>4. \A m \in 0..MaxFailures : Vehicle[i][m + 1] = Vehicle[i][n + 1] => m + 1 = n + 1
  BY <1>1, <1>2, RoutingConstantsOK
<1>5. \A m \in 0..MaxFailures : m + 1 = n + 1 => m = n
  OBVIOUS
<1> QED
  BY <1>1, <1>2, <1>3, <1>4, <1>5, RoutingConstantsOK

LEMMA OwedVehicle ==
  ASSUME TypeOK, CountsBounded, NEW i \in Items, Owed(i)
  PROVE  i \in Routed /\ row[i].verify_failures \in 0..MaxFailures
         /\ CurrentVehicle(i) \in Vehicles
<1>1. i \in Routed /\ row[i].verify_failures \in 0..MaxFailures
  BY ConstantsOK DEF Owed, Routed, TypeOK, Row, CountsBounded
<1> QED
  BY <1>1, VehicleAt DEF CurrentVehicle

LEMMA RoutingStepType ==
  RoutingTypeOK /\ CountsBounded /\ (RoutingNext \/ UNCHANGED rvars) => RoutingTypeOK'
<1> DEFINE Beats == [next: Passes, file: SUBSET Vehicles, retire: SUBSET Vehicles,
                     resolve: SUBSET Items, quarantine: SUBSET Items]
<1> SUFFICES ASSUME RoutingTypeOK, CountsBounded, RoutingNext \/ UNCHANGED rvars
             PROVE  RoutingTypeOK'
  OBVIOUS
<1>1. TypeOK'
  BY RoutingIsQueue, NextTypeOK DEF RoutingTypeOK
<1>2. marks \in [Items -> Marks] /\ beat \in Beats
  BY DEF RoutingTypeOK
<1>3. ASSUME NEW pass \in Passes PROVE Before(pass) \in Beats
  BY DEF Before
<1>4. marks' \in [Items -> Marks]
  <2>1. ASSUME NEW i \in Items, ResolveItem(i) \/ QuarantineItem(i) \/ Answered(i)
        PROVE  marks' \in [Items -> Marks]
    <3>1. marks[i] \in Marks
      BY <1>2
    <3>2. marks' \in {marks, [marks EXCEPT ![i].escalated = TRUE, ![i].grace = Grace],
                      [marks EXCEPT ![i].quarantined = TRUE], [marks EXCEPT ![i] = Unmarked]}
      BY <2>1 DEF ResolveItem, QuarantineItem, Answered
    <3>3. [marks EXCEPT ![i].escalated = TRUE, ![i].grace = Grace]
            = [marks EXCEPT ![i] = [marks[i] EXCEPT !.escalated = TRUE, !.grace = Grace]]
      BY <1>2
    <3>4. [marks EXCEPT ![i].quarantined = TRUE]
            = [marks EXCEPT ![i] = [marks[i] EXCEPT !.quarantined = TRUE]]
      BY <1>2
    <3> QED
      BY <1>2, <3>1, <3>2, <3>3, <3>4, MarkTypes
  <2>2. CASE Pass
    BY <1>2, <2>2, MarkTypes DEF Pass
  <2>3. RouteScan \/ ParkScan \/ QuarantineScan \/ Crash \/ QueueStep \/ UNCHANGED rvars
          => marks' = marks
    BY DEF RouteScan, ParkScan, QuarantineScan, Crash, QueueStep, rvars
  <2>4. ASSUME NEW v \in Vehicles, FileVehicle(v) \/ RetireVehicle(v) PROVE marks' = marks
    BY <2>4 DEF FileVehicle, RetireVehicle
  <2> QED
    BY <1>2, <2>1, <2>2, <2>3, <2>4 DEF RoutingNext, BeatStep
<1>5. beat' \in Beats
  <2> DEFINE due == {v \in {CurrentVehicle(i) : i \in {j \in Items : Owed(j)}} : ~Filed(v)}
             moot == {v \in Vehicles : Live(v) /\ Moot(v)}
  <2>1. CASE RouteScan
    <3>1. due \in SUBSET Vehicles /\ moot \in SUBSET Vehicles
      BY OwedVehicle DEF RoutingTypeOK
    <3>2. beat' = [Before("park") EXCEPT !.file = due, !.retire = moot]
      BY <2>1 DEF RouteScan
    <3> HIDE DEF due, moot
    <3> QED
      BY <3>1, <3>2 DEF Before, Passes
  <2>2. CASE ParkScan \/ QuarantineScan \/ Crash
    BY <2>2 DEF ParkScan, QuarantineScan, Crash, Before, Passes
  <2>3. ASSUME NEW v \in Vehicles, FileVehicle(v) \/ RetireVehicle(v) PROVE beat' \in Beats
    <3>1. beat' \in {[beat EXCEPT !.file = beat.file \ {v}],
                     [beat EXCEPT !.retire = beat.retire \ {v}]}
      BY <2>3 DEF FileVehicle, RetireVehicle
    <3> QED
      BY <1>2, <3>1
  <2>4. ASSUME NEW i \in Items, ResolveItem(i) PROVE beat' \in Beats
    BY <1>2, <2>4 DEF ResolveItem
  <2>5. ASSUME NEW i \in Items, QuarantineItem(i) PROVE beat' \in Beats
    <3>1. beat' = [beat EXCEPT !.quarantine = beat.quarantine \ {i},
                     !.retire = {v \in Vehicles : Request[v].verifies = i /\ Live(v)}]
      BY <2>5 DEF QuarantineItem
    <3> QED
      BY <1>2, <3>1
  <2>6. ASSUME NEW i \in Items, Answered(i) PROVE beat' = beat
    BY <2>6 DEF Answered
  <2>7. QueueStep \/ Pass \/ UNCHANGED rvars => beat' = beat
    BY DEF QueueStep, Pass, rvars
  <2> QED
    BY <1>2, <2>1, <2>2, <2>3, <2>4, <2>5, <2>6, <2>7 DEF RoutingNext, BeatStep
<1> QED
  BY <1>1, <1>4, <1>5 DEF RoutingTypeOK

-----------------------------------------------------------------------------
(* Offers.                                                                  *)

\* A gate that was reached stays so, and one that is past its count as well.
LEMMA ReachedStays ==
  ASSUME TypeOK, GateInv, NEW new, Turns(new), NEW i \in Routed, NEW n \in Nat
  PROVE  /\ Reached(i, n) => Reached(i, n)'
         /\ Past(i, n) => Past(i, n)'
         /\ Filed(i) => Filed(i)'
<1> DEFINE r == row[i]
           s == row'[i]
<1>0. i \in Items /\ Gate(i) \in {"judged", "human"}
  BY DEF Routed
<1>1. /\ Turn(i, r, s, new) /\ r.verify_failures \in Nat /\ MaxFailures \in Nat
      /\ ~RerunPending(r)
  BY <1>0, ConstantsOK DEF Turns, TypeOK, Row, GateInv, RowAnswered, DefaultStands, RerunPending
<1>2. s.verify_failures \in Nat /\ s.verify_failures >= r.verify_failures
  BY <1>1 DEF Turn
<1>3. ASSUME r.status \in Terminal PROVE s.status \in Terminal
  BY <1>1, <1>3 DEF Turn, Still, Terminal
<1>4. ASSUME Owed(i), s.verify_failures = r.verify_failures
      PROVE  Owed(i)' \/ s.status \in Terminal
  <2>1. r.status \in {"awaiting_verify", "verify_failed"}
    BY <1>4 DEF Owed
  <2>2. Still(r, s) \/ s.status \in {"awaiting_verify", "done"}
    BY <1>1, <1>4, <2>1 DEF Turn
  <2> QED
    BY <1>0, <1>4, <2>2 DEF Owed, Still, Terminal, Gate
<1>5. Filed(i) => Filed(i)'
  BY <1>1 DEF Turn, Still, Filed, Settled, Terminal
<1> QED
  BY <1>1, <1>2, <1>3, <1>4, <1>5 DEF Reached, Past

\* A vehicle on offer stays on offer, or its gate is past its count.
LEMMA VehicleTurns ==
  ASSUME TypeOK, GateInv, CountsBounded, NEW new, Turns(new), NEW i \in Routed,
         NEW n \in 0..MaxFailures, NEW v, v = Vehicle[i][n + 1], Reached(i, n), Filed(v)
  PROVE  /\ Filed(v)'
         /\ Live(v) => Live(v)' \/ Past(i, n)
<1> DEFINE r == row[v]
           s == row'[v]
<1>1. /\ v \in Vehicles /\ v \in Items /\ Request[v].verifies = i /\ i \in Items
      /\ ~Request[v].pinned /\ v \notin Routed
  BY VehicleAt, RoutingConstantsOK DEF Vehicles, Routed, IsGated
<1>2. Turn(v, r, s, new)
  BY <1>1 DEF Turns
<1>3. Filed(v)'
  BY <1>2 DEF Turn, Still, Filed, Settled, Terminal
<1>4. ASSUME Live(v), ~(s.status \in {"pending", "in_progress"})
      PROVE  Past(i, n)
  <2>1. ~VehicleBarred(v)
    BY <1>1, <1>2, <1>4 DEF Turn, Live, Still
  <2>2. row[i].status \notin {"awaiting_verify", "verify_failed"}
    BY <1>1, <2>1, ConstantsOK DEF VehicleBarred
  <2> QED
    BY <2>2 DEF Reached, Past, Owed
<1> QED
  BY <1>3, <1>4 DEF Live

\* What the queue does, while the beat works its list off, keeps every offer.
LEMMA OfferStays ==
  ASSUME TypeOK, GateInv, CountsBounded, NEW new, Turns(new), new \cap Vehicles \subseteq beat.file,
         beat'.file \subseteq beat.file, beat'.retire \subseteq beat.retire,
         NEW i \in Routed, NEW n \in 0..MaxFailures, OfferKept(i, n, Vehicle[i][n + 1]),
         marks[i].quarantined /\ Reached(i, n) /\ Request[i].rungs = 0
           => marks'[i].quarantined \/ Past(i, n)'
  PROVE  OfferKept(i, n, Vehicle[i][n + 1])'
<1> DEFINE v == Vehicle[i][n + 1]
<1>0. v \in Vehicles /\ v \in Items
  BY VehicleAt DEF Vehicles
<1>1. n \in Nat
  BY ConstantsOK
<1>2. /\ Reached(i, n) => Reached(i, n)'
      /\ Past(i, n) => Past(i, n)'
  BY <1>1, ReachedStays
<1>3. ASSUME Filed(v)' PROVE Filed(v) \/ v \in beat.file
  <2>1. Turn(v, row[v], row'[v], new)
    BY <1>0 DEF Turns
  <2>2. row[v].status = "unfiled" => v \in new
    BY <1>3, <2>1 DEF Turn, Still, Filed, RerunPending
  <2> QED
    BY <1>0, <2>2 DEF Filed
<1>4. Filed(v) \/ v \in beat.file => Reached(i, n)
  BY DEF OfferKept
<1>5. ASSUME Filed(v) PROVE Filed(v)' /\ (Live(v) => Live(v)' \/ Past(i, n))
  BY <1>4, <1>5, VehicleTurns
<1>6. ASSUME Filed(v)', ~Filed(v) PROVE Live(v)'
  <2>1. Turn(v, row[v], row'[v], new)
    BY <1>0 DEF Turns
  <2> QED
    BY <1>6, <2>1 DEF Turn, Still, Filed, Live, RerunPending
<1> HIDE DEF v
<1>7. Reached(i, n)' \/ ~(Filed(v)' \/ v \in beat'.file)
  BY <1>2, <1>3, <1>4
<1>8. v \in beat'.retire => Filed(v)'
  BY <1>5 DEF OfferKept, v
<1>9. ASSUME Request[i].rungs = 0, v \in beat'.retire PROVE marks'[i].quarantined \/ Past(i, n)'
  <2>1. Filed(v) /\ (marks[i].quarantined \/ Past(i, n))
    BY <1>9 DEF OfferKept, v
  <2> QED
    BY <1>2, <1>4, <1>9, <2>1
<1>10. ASSUME Request[i].rungs = 0, Filed(v)' PROVE Live(v)' \/ marks'[i].quarantined \/ Past(i, n)'
  <2>1. CASE ~Filed(v)
    BY <1>6, <1>10, <2>1
  <2>2. CASE Filed(v)
    <3>1. Live(v) \/ marks[i].quarantined \/ Past(i, n)
      BY <1>10, <2>2 DEF OfferKept, v
    <3> QED
      BY <1>2, <1>4, <1>5, <1>10, <2>2, <3>1
  <2> QED
    BY <2>1, <2>2
<1> QED
  BY <1>7, <1>8, <1>9, <1>10 DEF OfferKept, v

\* A scan reads the queue and marks nothing.
LEMMA ScanKeepsOffers ==
  ASSUME TypeOK, GateInv, CountsBounded, UNCHANGED <<row, marks>>,
         beat'.file = {}, beat'.retire = {},
         NEW i \in Routed, NEW n \in 0..MaxFailures, OfferKept(i, n, Vehicle[i][n + 1])
  PROVE  OfferKept(i, n, Vehicle[i][n + 1])'
BY DEF OfferKept, Reached, Past, Owed, Filed, Live, Gate

\* The routing pass files what is owed, and retires what is moot.
LEMMA RouteScanKeepsOffers ==
  ASSUME TypeOK, GateInv, CountsBounded, RouteScan,
         NEW i \in Routed, NEW n \in 0..MaxFailures, OfferKept(i, n, Vehicle[i][n + 1])
  PROVE  OfferKept(i, n, Vehicle[i][n + 1])'
<1> DEFINE v == Vehicle[i][n + 1]
<1>0. /\ v \in Vehicles /\ Request[v].verifies = i /\ i \in Items
      /\ row[i].verify_failures \in 0..MaxFailures /\ n \in Nat
      /\ \A m \in 0..MaxFailures : Vehicle[i][m + 1] = v => m = n
  <2>1. i \in Items /\ n \in Nat
    BY ConstantsOK DEF Routed
  <2>2. row[i].verify_failures \in 0..MaxFailures
    BY <2>1, ConstantsOK DEF TypeOK, Row, CountsBounded
  <2> QED
    BY <2>1, <2>2, VehicleAt
<1>1. UNCHANGED <<row, marks>>
  BY DEF RouteScan
<1>2. ASSUME v \in beat'.file PROVE Reached(i, n)
  <2>1. PICK j \in Items : Owed(j) /\ v = CurrentVehicle(j)
    BY <1>2 DEF RouteScan, Before
  <2>2. j \in Routed /\ row[j].verify_failures \in 0..MaxFailures
    BY <2>1, OwedVehicle
  <2>3. Request[v].verifies = j
    BY <2>1, <2>2, VehicleAt DEF CurrentVehicle
  <2>4. row[i].verify_failures = n
    BY <1>0, <2>1, <2>3 DEF CurrentVehicle
  <2> QED
    BY <1>0, <2>1, <2>3, <2>4 DEF Reached
<1>3. ASSUME v \in beat'.retire PROVE Live(v) /\ Moot(v)
  BY <1>3 DEF RouteScan, Before
<1>4. Filed(v) => Reached(i, n)
  BY DEF OfferKept
<1>5. ASSUME Moot(v), Reached(i, n) PROVE Past(i, n)
  <2>1. CASE ~Owed(i)
    BY <1>5, <2>1 DEF Reached, Past
  <2>2. CASE Owed(i)
    <3>1. v # CurrentVehicle(i)
      BY <1>0, <1>5, <2>2 DEF Moot
    <3>2. row[i].verify_failures # n
      BY <3>1 DEF CurrentVehicle
    <3> QED
      BY <1>5, <3>2 DEF Reached, Past
  <2> QED
    BY <2>1, <2>2
<1>6. Live(v) => Filed(v)
  BY DEF Live, Filed
<1>7. Request[i].rungs = 0 /\ Filed(v) => Live(v) \/ marks[i].quarantined \/ Past(i, n)
  BY DEF OfferKept
<1>8. /\ Reached(i, n)' <=> Reached(i, n)
      /\ Past(i, n)' <=> Past(i, n)
      /\ Filed(v)' <=> Filed(v)
      /\ Live(v)' <=> Live(v)
      /\ marks'[i].quarantined = marks[i].quarantined
  BY <1>1 DEF Reached, Past, Owed, Filed, Live, Gate
<1> HIDE DEF v
<1>9. OfferKept(i, n, v)'
  BY <1>2, <1>3, <1>4, <1>5, <1>6, <1>7, <1>8 DEF OfferKept
<1> QED
  BY <1>9 DEF v

\* A vehicle goes because its gate was answered or put in quarantine.
LEMMA RetireKeepsOffers ==
  ASSUME TypeOK, GateInv, CountsBounded, NEW u \in Vehicles, Retire(u), u \in beat.retire,
         UNCHANGED marks, beat'.file = beat.file, beat'.retire = beat.retire \ {u},
         NEW i \in Routed, NEW n \in 0..MaxFailures, OfferKept(i, n, Vehicle[i][n + 1])
  PROVE  OfferKept(i, n, Vehicle[i][n + 1])'
<1> DEFINE v == Vehicle[i][n + 1]
<1>0. /\ v \in Vehicles /\ v \in Items /\ u \in Items /\ i \in Items /\ i # u
  BY VehicleAt, RoutingConstantsOK DEF Vehicles, Routed, IsGated
<1>1. /\ row' = [row EXCEPT ![u] = Retired(row[u])]
      /\ row \in [Items -> Row] /\ row[u].status \in {"pending", "in_progress"}
  BY DEF Retire, TypeOK
<1>2. row'[i] = row[i] /\ row'[u] = Retired(row[u]) /\ (v # u => row'[v] = row[v])
  BY <1>0, <1>1
<1>3. Retired(row[u]).status = "done"
  BY <1>0, <1>1, RetiredType
<1>4. Reached(i, n)' = Reached(i, n) /\ Past(i, n)' = Past(i, n)
  BY <1>2 DEF Reached, Past, Owed, Gate
<1>5. CASE v = u
  <2>1. Filed(v)' /\ Filed(v)
    BY <1>1, <1>2, <1>3, <1>5 DEF Filed
  <2>2. Reached(i, n) /\ (Request[i].rungs = 0 => marks[i].quarantined \/ Past(i, n))
    BY <1>5, <2>1 DEF OfferKept
  <2> HIDE DEF v
  <2>3. OfferKept(i, n, v)'
    BY <1>4, <2>1, <2>2 DEF OfferKept
  <2> QED
    BY <2>3 DEF v
<1>6. CASE v # u
  <2>1. Filed(v)' = Filed(v) /\ Live(v)' = Live(v)
    BY <1>2, <1>6 DEF Filed, Live
  <2>2. OfferKept(i, n, v)
    OBVIOUS
  <2> HIDE DEF v
  <2>3. OfferKept(i, n, v)'
    BY <1>4, <2>1, <2>2 DEF OfferKept
  <2> QED
    BY <2>3 DEF v
<1> QED
  BY <1>5, <1>6

\* A gate goes to quarantine with its vehicles.
LEMMA QuarantineKeepsOffers ==
  ASSUME TypeOK, RoutingTypeOK, GateInv, CountsBounded, NEW j \in Items, QuarantineItem(j),
         NEW i \in Routed, NEW n \in 0..MaxFailures, OfferKept(i, n, Vehicle[i][n + 1])
  PROVE  OfferKept(i, n, Vehicle[i][n + 1])'
<1> DEFINE v == Vehicle[i][n + 1]
<1>0. Request[v].verifies = i /\ i \in Items
  BY VehicleAt DEF Routed
<1>1. /\ row' = row /\ marks' = [marks EXCEPT ![j].quarantined = TRUE]
      /\ beat'.file = beat.file
      /\ beat'.retire = {u \in Vehicles : Request[u].verifies = j /\ Live(u)}
  BY DEF QuarantineItem, RoutingTypeOK
<1>2. /\ marks[i].quarantined => marks'[i].quarantined
      /\ i = j => marks'[i].quarantined
  BY <1>0, <1>1 DEF RoutingTypeOK, Marks
<1>3. v \in beat'.retire => i = j /\ Live(v)
  BY <1>0, <1>1
<1>4. Live(v) => Filed(v)
  BY DEF Live, Filed
<1>5. /\ Reached(i, n)' = Reached(i, n) /\ Past(i, n)' = Past(i, n)
      /\ Filed(v)' = Filed(v) /\ Live(v)' = Live(v)
  BY <1>1 DEF Reached, Past, Owed, Filed, Live, Gate
<1>6. OfferKept(i, n, v)
  OBVIOUS
<1> HIDE DEF v
<1>7. OfferKept(i, n, v)'
  BY <1>1, <1>2, <1>3, <1>4, <1>5, <1>6 DEF OfferKept
<1> QED
  BY <1>7 DEF v

LEMMA CountsTurn == ASSUME CountsBounded, NEW new, Turns(new) PROVE CountsBounded'
<1>1. ASSUME NEW j \in Items
      PROVE  /\ row'[j].verify_failures <= MaxFailures
             /\ row'[j].status = "unfiled" => row'[j].verify_failures = 0
  <2> DEFINE r == row[j]
             s == row'[j]
  <2>1. /\ Turn(j, r, s, new) /\ r.verify_failures <= MaxFailures
        /\ r.status = "unfiled" => r.verify_failures = 0
    BY DEF Turns, CountsBounded
  <2>2. s.verify_failures <= MaxFailures
    BY <2>1, ConstantsOK DEF Turn
  <2>3. s.status = "unfiled" => Still(r, s)
    BY <2>1 DEF Turn, Settled, Terminal
  <2> QED
    BY <2>1, <2>2, <2>3 DEF Still
<1> QED
  BY <1>1 DEF CountsBounded

\* The invariant of the passes over steps that turn the queue.
LEMMA RoutingStays ==
  ASSUME TypeOK, GateInv, RoutingInv, NEW new, Turns(new), new \cap Vehicles \subseteq beat.file,
         beat'.file \subseteq beat.file, beat'.retire \subseteq beat.retire,
         \A i \in Routed, n \in 0..MaxFailures :
           marks[i].quarantined /\ Reached(i, n) /\ Request[i].rungs = 0
             => marks'[i].quarantined \/ Past(i, n)'
  PROVE  RoutingInv'
<1>1. CountsBounded'
  BY CountsTurn DEF RoutingInv
<1>2. ASSUME NEW i \in Routed, NEW n \in 0..MaxFailures
      PROVE  OfferKept(i, n, Vehicle[i][n + 1])'
  BY OfferStays DEF RoutingInv
<1> QED
  BY <1>1, <1>2 DEF RoutingInv, Routed, Gate

\* A pass reads, and a crash forgets.
LEMMA ScansKeepRouting ==
  ASSUME TypeOK, GateInv, RoutingInv,
         RouteScan \/ ParkScan \/ QuarantineScan \/ Crash \/ UNCHANGED rvars
  PROVE  RoutingInv'
<1>1. UNCHANGED <<row, marks>>
  BY DEF RouteScan, ParkScan, QuarantineScan, Crash, rvars
<1>2. CountsBounded'
  BY <1>1 DEF CountsBounded, RoutingInv
<1>3. ASSUME NEW i \in Routed, NEW n \in 0..MaxFailures
      PROVE  OfferKept(i, n, Vehicle[i][n + 1])'
  <2>1. CountsBounded /\ OfferKept(i, n, Vehicle[i][n + 1])
    BY DEF RoutingInv
  <2>2. CASE RouteScan
    BY <2>1, <2>2, RouteScanKeepsOffers
  <2>3. CASE ParkScan \/ QuarantineScan \/ Crash
    <3>1. beat'.file = {} /\ beat'.retire = {}
      BY <2>3 DEF ParkScan, QuarantineScan, Crash, Before
    <3> QED
      BY <1>1, <2>1, <3>1, ScanKeepsOffers
  <2>4. CASE UNCHANGED rvars
    BY <2>1, <2>4 DEF OfferKept, Reached, Past, Owed, Filed, Live, Gate, rvars
  <2> QED
    BY <2>2, <2>3, <2>4
<1> QED
  BY <1>2, <1>3 DEF RoutingInv, Routed, Gate

LEMMA FileKeepsRouting ==
  ASSUME RoutingTypeOK, HoldingInv, GateInv, RoutingInv, NEW v \in Vehicles, FileVehicle(v)
  PROVE  RoutingInv'
<1>1. Turns({v})
  BY CreateTurns DEF FileVehicle, RoutingInv, RoutingTypeOK, Vehicles
<1>2. /\ v \in beat.file /\ beat'.file = beat.file \ {v} /\ beat'.retire = beat.retire
      /\ marks' = marks
  BY DEF FileVehicle, RoutingTypeOK
<1> QED
  BY <1>1, <1>2, RoutingStays DEF RoutingTypeOK

LEMMA RetireKeepsRouting ==
  ASSUME RoutingTypeOK, HoldingInv, GateInv, RoutingInv, NEW v \in Vehicles, RetireVehicle(v)
  PROVE  RoutingInv'
<1>1. /\ v \in beat.retire /\ beat'.file = beat.file /\ beat'.retire = beat.retire \ {v}
      /\ marks' = marks
  BY DEF RetireVehicle, RoutingTypeOK
<1>2. CASE Retire(v)
  <2>1. v \in Items /\ row' = [row EXCEPT ![v] = Retired(row[v])] /\ row \in [Items -> Row]
    BY <1>2 DEF Retire, Vehicles, RoutingTypeOK, TypeOK
  <2>2. /\ Retired(row[v]).status = "done"
        /\ Retired(row[v]).verify_failures = row[v].verify_failures
    BY <2>1 DEF Retired, Row
  <2>3. CountsBounded'
    BY <2>1, <2>2 DEF RoutingInv, CountsBounded
  <2>4. ASSUME NEW i \in Routed, NEW n \in 0..MaxFailures
        PROVE  OfferKept(i, n, Vehicle[i][n + 1])'
    BY <1>1, <1>2, RetireKeepsOffers DEF RoutingInv, RoutingTypeOK
  <2> QED
    BY <2>3, <2>4 DEF RoutingInv, Routed, Gate
<1>3. CASE UNCHANGED row
  <2>1. Turns({})
    BY <1>3, OtherTurns DEF RoutingInv, RoutingTypeOK
  <2> QED
    BY <1>1, <2>1, RoutingStays DEF RoutingTypeOK
<1> QED
  BY <1>2, <1>3 DEF RetireVehicle

LEMMA ResolveKeepsRouting ==
  ASSUME RoutingTypeOK, HoldingInv, GateInv, RoutingInv, NEW i \in Items, ResolveItem(i)
  PROVE  RoutingInv'
<1>1. beat'.file = beat.file /\ beat'.retire = beat.retire
  BY DEF ResolveItem, RoutingTypeOK
<1>2. \A j \in Items : marks'[j].quarantined = marks[j].quarantined
  <2>1. CASE marks' = [marks EXCEPT ![i].escalated = TRUE, ![i].grace = Grace]
    BY <2>1 DEF RoutingTypeOK, Marks
  <2> QED
    BY <2>1 DEF ResolveItem
<1>3. Turns({})
  <2>1. CASE UNCHANGED row
    BY <2>1, OtherTurns DEF RoutingInv, RoutingTypeOK
  <2>2. CASE ResolveByDefault(i, Request[i].on_timeout)
    <3>1. Request[i].on_timeout \in Defaults
      BY ConstantsOK DEF Requests
    <3> QED
      BY <2>2, <3>1, DefaultTurns DEF RoutingInv, RoutingTypeOK
  <2> QED
    BY <2>1, <2>2 DEF ResolveItem
<1> QED
  BY <1>1, <1>2, <1>3, RoutingStays DEF RoutingTypeOK, Routed

LEMMA QuarantineKeepsRouting ==
  ASSUME RoutingTypeOK, GateInv, RoutingInv, NEW i \in Items, QuarantineItem(i)
  PROVE  RoutingInv'
<1>1. CountsBounded'
  BY DEF QuarantineItem, RoutingInv, CountsBounded
<1>2. ASSUME NEW j \in Routed, NEW n \in 0..MaxFailures
      PROVE  OfferKept(j, n, Vehicle[j][n + 1])'
  BY QuarantineKeepsOffers DEF RoutingInv, RoutingTypeOK
<1> QED
  BY <1>1, <1>2 DEF RoutingInv, Routed, Gate

\* A verdict lifts the quarantine of a gate that is then past its count, if it
\* has no ladder.
LEMMA AnswerKeepsRouting ==
  ASSUME RoutingTypeOK, HoldingInv, GateInv, RoutingInv, NEW i \in Items, Answered(i)
  PROVE  RoutingInv'
<1>1. PICK a \in Agents, o \in Outcomes, g \in Stages : Attest(a, i, o, g)
  BY DEF Answered, Verdict
<1>2. /\ Turns({})
      /\ i \in Routed /\ Request[i].rungs = 0 => \A n \in Nat : Reached(i, n) => Past(i, n)'
  BY <1>1, VerdictTurns DEF RoutingInv, RoutingTypeOK
<1>3. beat' = beat /\ \A j \in Items \ {i} : marks'[j] = marks[j]
  BY DEF Answered, RoutingTypeOK
<1>4. ASSUME NEW j \in Routed, NEW n \in 0..MaxFailures,
             marks[j].quarantined, Reached(j, n), Request[j].rungs = 0
      PROVE  marks'[j].quarantined \/ Past(j, n)'
  <2>1. n \in Nat
    BY ConstantsOK
  <2> QED
    BY <1>2, <1>3, <1>4, <2>1 DEF Routed
<1> QED
  BY <1>2, <1>3, <1>4, RoutingStays DEF RoutingTypeOK

LEMMA QueueKeepsRouting ==
  ASSUME RoutingTypeOK, HoldingInv, GateInv, RoutingInv, QueueStep \/ Pass
  PROVE  RoutingInv'
<1>1. beat' = beat
  BY DEF QueueStep, Pass
<1>2. \A j \in Items : marks'[j].quarantined = marks[j].quarantined
  BY DEF QueueStep, Pass, RoutingTypeOK, Marks
<1>3. Turns(Items \ Vehicles)
  <2>1. CASE QueueStep
    BY <2>1, WorkTurns DEF QueueStep, RoutingInv, RoutingTypeOK
  <2>2. CASE Pass
    BY <2>2, OtherTurns DEF Pass, RoutingInv, RoutingTypeOK
  <2> QED
    BY <2>1, <2>2
<1> QED
  BY <1>1, <1>2, <1>3, RoutingStays DEF RoutingTypeOK, Routed

LEMMA RoutingStep ==
  RoutingTypeOK /\ HoldingInv /\ GateInv /\ RoutingInv /\ [RoutingNext]_rvars => RoutingInv'
BY ScansKeepRouting, FileKeepsRouting, RetireKeepsRouting, ResolveKeepsRouting,
   QuarantineKeepsRouting, AnswerKeepsRouting, QueueKeepsRouting
DEF RoutingNext, BeatStep, RoutingTypeOK

LEMMA RoutingStart == RoutingInit => RoutingTypeOK /\ RoutingInv
<1> SUFFICES ASSUME RoutingInit PROVE RoutingTypeOK /\ RoutingInv
  OBVIOUS
<1>1. TypeOK /\ row = [i \in Items |-> NewRow] /\ marks = [i \in Items |-> Unmarked]
      /\ beat = Before("route")
  BY InitTypeOK DEF RoutingInit, Init
<1>2. Unmarked \in Marks
  BY RoutingConstantsOK DEF Unmarked, Marks
<1>3. beat \in [next: Passes, file: SUBSET Vehicles, retire: SUBSET Vehicles,
                resolve: SUBSET Items, quarantine: SUBSET Items]
  BY <1>1 DEF Before, Passes
<1>4. NewRow.status = "unfiled" /\ NewRow.verify_failures = 0
  BY DEF NewRow
<1>5. CountsBounded
  BY <1>1, <1>4, ConstantsOK DEF CountsBounded
<1>6. ASSUME NEW i \in Routed, NEW n \in 0..MaxFailures
      PROVE  OfferKept(i, n, Vehicle[i][n + 1])
  <2>1. Vehicle[i][n + 1] \in Items
    BY VehicleAt DEF Vehicles
  <2> QED
    BY <1>1, <1>4, <2>1 DEF OfferKept, Filed, Before
<1> QED
  BY <1>1, <1>2, <1>3, <1>5, <1>6 DEF RoutingTypeOK, RoutingInv

LEMMA Routing == RoutingSpec => [](RoutingTypeOK /\ RoutingInv)
<1>1. RoutingTypeOK /\ RoutingInv /\ [RoutingNext]_rvars => RoutingTypeOK'
  BY RoutingStepType DEF RoutingInv
<1> QED
  BY <1>1, RoutingIsAQueue, Holding, Gates, RoutingStart, RoutingStep, PTL DEF RoutingSpec

\* The passes' notes are of the items and vehicles they decided on, whatever
\* the queue did since (pulse.py, verifiers.py).
THEOREM RoutingTypeCorrect == RoutingSpec => []RoutingTypeOK
BY Routing, PTL

\* The offer of a gate without a ladder stands until it is answered or put in
\* quarantine, through crashes of the beat, stale scans, reports and defaults.
THEOREM OffersStand == RoutingSpec => []OfferStands
<1>1. ASSUME RoutingTypeOK, RoutingInv, NEW i \in Items, Owed(i), Request[i].rungs = 0,
             Filed(CurrentVehicle(i)), ~marks[i].quarantined
      PROVE  Live(CurrentVehicle(i))
  <2> DEFINE n == row[i].verify_failures
  <2>1. i \in Routed /\ n \in 0..MaxFailures
    BY <1>1, OwedVehicle DEF RoutingTypeOK, RoutingInv
  <2>2. OfferKept(i, n, CurrentVehicle(i))
    BY <1>1, <2>1 DEF RoutingInv, CurrentVehicle
  <2>3. ~Past(i, n)
    <3>1. n \in Nat /\ ~(row[i].verify_failures > n)
      BY <2>1, ConstantsOK
    <3>2. row[i].status \notin Terminal
      BY <1>1 DEF Owed, Terminal
    <3> QED
      BY <3>1, <3>2 DEF Past
  <2> QED
    BY <1>1, <2>2, <2>3 DEF OfferKept
<1>2. RoutingTypeOK /\ RoutingInv => OfferStands
  BY <1>1 DEF OfferStands
<1> QED
  BY <1>2, Routing, PTL
=============================================================================
