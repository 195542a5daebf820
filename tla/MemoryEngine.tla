---------------------------- MODULE MemoryEngine ----------------------------
(***************************************************************************)
(* Usefulness and decay (src/agentco/memory_engine.py): what a run's       *)
(* trace, the owner's rating and a revival do to an item's state.  The     *)
(* engine's numbers are configuration; here they are naturals and the      *)
(* decay exponent is 1.  The counters the engine keeps and never reads are *)
(* left out.                                                               *)
(***************************************************************************)
EXTENDS Integers, FiniteSetsExt, SequencesExt

CONSTANTS AgeScale, ColdThreshold, InitialStrength, SuccessGain, RatingGain,
          RatingDownDivisor, ReviveStrength, ProbationSuccesses, ReplayBatch

\* Params.__post_init__
ASSUME ParamsAssumption ==
  /\ {ColdThreshold, SuccessGain, RatingGain} \subseteq Nat
  /\ {AgeScale, RatingDownDivisor, ProbationSuccesses, ReplayBatch} \subseteq Nat \ {0}
  /\ ColdThreshold < InitialStrength /\ ColdThreshold < ReviveStrength

Outcomes == {"success", "failure", "unverified"}

\* initial
Initial(pinned) ==
  [strength |-> InitialStrength, age |-> 0, cold |-> FALSE, probation |-> 0,
   reconsolidate |-> FALSE, pinned |-> pinned]

\* activation: the power law, compared with cold_threshold or with another's.
AtOrBelow(s, threshold) == s.strength * AgeScale <= threshold * (AgeScale + s.age)
Weaker(s, t) == s.strength * (AgeScale + t.age) < t.strength * (AgeScale + s.age)

\* _settle: only a revival warms an item.
Settle(s) ==
  IF ~s.pinned /\ ~s.cold /\ AtOrBelow(s, ColdThreshold)
  THEN [s EXCEPT !.cold = TRUE, !.probation = 0] ELSE s

\* apply_trace, for one item it names.
Succeeded(s) ==
  [s EXCEPT !.strength = @ + SuccessGain, !.age = 0, !.probation = IF @ > 0 THEN @ - 1 ELSE 0]
Failed(s) ==
  IF s.probation > 0 THEN [s EXCEPT !.cold = TRUE, !.probation = 0] ELSE [s EXCEPT !.age = 0]
Exposed(s) == [s EXCEPT !.age = @ + 1]
Traced(s, invoked, outcome) ==
  IF s.pinned \/ s.cold THEN s
  ELSE Settle(IF ~invoked THEN Exposed(s)
              ELSE CASE outcome = "success" -> Succeeded(s)
                     [] outcome = "failure" -> Failed(s)
                     [] OTHER -> s)

\* rate: the strong event; a down-rating never deletes.
Rated(s, up) ==
  IF s.pinned THEN s
  ELSE IF up THEN Settle([s EXCEPT !.strength = @ + RatingGain, !.age = 0])
  ELSE Settle([s EXCEPT !.strength = @ \div RatingDownDivisor, !.reconsolidate = TRUE])

\* revive: on probation, and flagged to be looked at again.
Revived(s) ==
  IF ~s.cold THEN s
  ELSE [s EXCEPT !.cold = FALSE, !.strength = ReviveStrength, !.age = 0,
                 !.probation = ProbationSuccesses, !.reconsolidate = TRUE]

\* reconsolidated
Rechecked(s) == [s EXCEPT !.reconsolidate = FALSE]

\* replay_candidates: the weakest cold ones first.
ReplayCandidates(states) ==
  LET cold == {i \in DOMAIN states : states[i].cold /\ ~states[i].pinned}
      first(i, j) == Weaker(states[i], states[j]) \/ (~Weaker(states[j], states[i]) /\ i < j)
      ranked == SetToSortSeq(cold, first) IN
  SubSeq(ranked, 1, Min({ReplayBatch, Len(ranked)}))
=============================================================================
