------------------------------ MODULE CallLog ------------------------------
(***************************************************************************)
(* The log of calls (src/agentco/metrics.py): the service writes a row for *)
(* every request it has answered, and `agentco prune` sums the old ones up *)
(* per day and deletes them.  A call's row is stamped and inserted well    *)
(* within the window of days that a prune keeps.                           *)
(***************************************************************************)
EXTENDS Integers, FiniteSets

CONSTANTS Calls,      \* the requests
          Publishing, \* those of PUBLISHING_VERBS
          Summers,    \* the prunes that may run
          MaxQuits    \* bound on prunes that die

ASSUME CallLogAssumption == Publishing \subseteq Calls /\ MaxQuits \in Nat

VARIABLES logged,  \* the rows of calls
          old,     \* the requests older than the window
          daily,   \* [Calls -> Nat]: how often calls_daily counts each
          made,    \* the requests that were recorded
          missed,  \* those that were answered and were not
          summer,  \* what each prune has in hand
          coread,  \* the rows that two prunes had read at once
          quits

callVars == <<logged, old, daily, made, missed, summer, coread, quits>>

NoSums == [at |-> "idle", before |-> {}, rows |-> {}]
Came(c) == c \in made \cup missed

\* _handle, accepted, refused or failed: one row.
RecordCall(c) ==
  /\ ~Came(c)
  /\ logged' = logged \cup {c} /\ made' = made \cup {c}
  /\ UNCHANGED <<old, daily, missed, summer, coread, quits>>

\* A body too large is refused before the call is timed; and a row that cannot
\* be written is given up.
CallUnrecorded(c) ==
  /\ ~Came(c) /\ missed' = missed \cup {c}
  /\ UNCHANGED <<logged, old, daily, made, summer, coread, quits>>

\* A request falls out of the window.
DayPasses(c) ==
  /\ Came(c) /\ c \notin old /\ old' = old \cup {c}
  /\ UNCHANGED <<logged, daily, made, missed, summer, coread, quits>>

\* The cutoff, and the sums.  On SQLite no transaction is open yet; on Postgres
\* one is, and its SELECT takes no lock.
SumUp(p) ==
  /\ summer[p].at = "idle"
  /\ summer' = [summer EXCEPT ![p] =
                  [at |-> "summed", before |-> old, rows |-> (logged \cap old) \ Publishing]]
  /\ UNCHANGED <<logged, old, daily, made, missed, coread, quits>>

\* What the DELETE takes.  Mutant: what is old by now.
DoomedNow(p) == old \ Publishing
Doomed(p)    == summer[p].before \ Publishing

\* The sums added to the days' rows, the old rows deleted, and the COMMIT: a
\* transaction that another such waits for.
SumWrite(p) ==
  /\ summer[p].at = "summed"
  /\ daily' = [c \in Calls |-> IF c \in summer[p].rows THEN daily[c] + 1 ELSE daily[c]]
  /\ logged' = logged \ Doomed(p)
  /\ coread' = coread \cup UNION {summer[p].rows \cap summer[q].rows : q \in Summers \ {p}}
  /\ summer' = [summer EXCEPT ![p] = NoSums]
  /\ UNCHANGED <<old, made, missed, quits>>

SumDies(p) ==
  /\ summer[p].at = "summed" /\ quits < MaxQuits /\ quits' = quits + 1
  /\ summer' = [summer EXCEPT ![p] = NoSums]
  /\ UNCHANGED <<logged, old, daily, made, missed, coread>>

CallInit ==
  /\ logged = {} /\ old = {} /\ daily = [c \in Calls |-> 0]
  /\ made = {} /\ missed = {} /\ coread = {} /\ quits = 0
  /\ summer = [p \in Summers |-> NoSums]

CallNext ==
  \/ \E c \in Calls : RecordCall(c) \/ CallUnrecorded(c) \/ DayPasses(c)
  \/ \E p \in Summers : SumUp(p) \/ SumWrite(p) \/ SumDies(p)
=============================================================================
