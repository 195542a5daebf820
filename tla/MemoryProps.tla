---------------------------- MODULE MemoryProps ----------------------------
(***************************************************************************)
(* What shared memory promises: a history one can trust after any crash,   *)
(* and one credit per trace.                                               *)
(***************************************************************************)
EXTENDS Memory

Mine(i) == Held(i) /\ items[i].authority = Self

Whole(i) == Mine(i) => /\ DOMAIN History(i) = 1..items[i].version
                       /\ History(i)[items[i].version] = items[i]

\* The history of an item this hub is the authority for names every version it
\* had, once, and ends in the item as it is, also between the audit row and the
\* item and after a writer died there; and what it has once said of a version
\* it keeps saying, whatever is written, retried or abandoned later
\* (MemoryStore._record, _audits).
HistoryStands ==
  [][\A i \in Ids :
       /\ Whole(i)'
       /\ Mine(i) => \A v \in DOMAIN History(i) :
                       v \in DOMAIN History(i)' /\ History(i)'[v] = History(i)[v]]_<<items, audit>>

\* A trace is credited once, however often it is delivered; it takes a death
\* between the states and the credits, or two deliveries beside one another
\* naming different items, to credit it again (record_trace).
CreditedOnce == \A t \in Traces : credited[t] <= 1 + faults
=============================================================================
