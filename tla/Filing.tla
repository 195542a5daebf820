------------------------------- MODULE Filing -------------------------------
(***************************************************************************)
(* Filing one run of a procedure (SopLibrary.run and _file,                *)
(* src/agentco/sop.py): the run's own item, then every step in order, each *)
(* a write of its own to the work queue, with the steps of a nested        *)
(* procedure after the step that uses it.  Agents take and finish what is  *)
(* already filed meanwhile, and the queue closes a container whose filed   *)
(* steps are all done (finished_containers, src/agentco/work.py).          *)
(***************************************************************************)
EXTENDS Integers, FiniteSets

CONSTANTS Nodes,    \* the steps, numbered in the order they are filed
          Run,      \* the run's own item
          ParentOf, \* [Nodes -> Nodes \cup {Run}]
          After,    \* [Nodes -> SUBSET Nodes]: the steps of its level it follows
          Blockers  \* what the whole run waits for

ASSUME FilingAssumption ==
  /\ Nodes \subseteq Nat /\ Run \notin Nodes /\ Blockers \cap (Nodes \cup {Run}) = {}
  /\ ParentOf \in [Nodes -> Nodes \cup {Run}] /\ After \in [Nodes -> SUBSET Nodes]
  /\ \A n \in Nodes : /\ ParentOf[n] \in Nodes => ParentOf[n] < n
                      /\ \A m \in After[n] : m < n /\ ParentOf[m] = ParentOf[n]

VARIABLES item,  \* [status, blocked_by] of each filed item
          left,  \* the steps still to file
          filer  \* where the call that files is, or how it ended

filingVars == <<item, left, filer>>

Tree == Nodes \cup {Run}
Unfiled == [status |-> "unfiled", blocked_by |-> {}]
Filed(i) == item[i].status # "unfiled"
Kids(its, p) == {n \in Nodes : ParentOf[n] = p /\ its[n].status # "unfiled"}
\* Mutant: a nested procedure starts on its own.
InheritedByTop(n) ==
  IF After[n] # {} THEN After[n] ELSE IF ParentOf[n] = Run THEN Blockers ELSE {}

\* What a step waits for: the steps it is after; a root of its level waits for
\* what the step above it waits for, and at the top for the run's blockers.
Inherited[n \in Nodes] ==
  IF After[n] # {} THEN After[n]
  ELSE IF ParentOf[n] = Run THEN Blockers ELSE Inherited[ParentOf[n]]
OwnBlockers(n) == Inherited[n]

\* _run_blockers and _plan: an unknown blocker, an input or a role left open, a
\* step bound to who judges it, procedures nested too deep or in themselves.
\* All is resolved first: nothing is filed.
PlanRefused ==
  /\ filer = "starting" /\ filer' = "refused" /\ UNCHANGED <<item, left>>

FileRun ==
  /\ filer = "starting" /\ filer' = "filing"
  /\ item' = [item EXCEPT ![Run].status = "pending"]
  /\ UNCHANGED left

IsNext(n) == filer = "filing" /\ n \in left /\ \A m \in left : n <= m

\* create(): the child and its parent's blocked_by in one write.
FileStep(n) ==
  /\ IsNext(n) /\ item[ParentOf[n]].status # "done"
  /\ item' = [item EXCEPT ![n] = [status |-> "pending", blocked_by |-> OwnBlockers(n)],
                          ![ParentOf[n]].blocked_by = @ \cup {n}]
  /\ left' = left \ {n}
  /\ filer' = IF left = {n} THEN "filed" ELSE filer

\* A closed goal cannot grow: run() raises with part of the run filed.
FileRefused(n) ==
  /\ IsNext(n) /\ item[ParentOf[n]].status = "done"
  /\ filer' = "refused" /\ UNCHANGED <<item, left>>

FilerDies == filer = "filing" /\ filer' = "dead" /\ UNCHANGED <<item, left>>

Take(i) ==
  /\ item[i].status = "pending"
  /\ \A b \in item[i].blocked_by : item[b].status = "done"
  /\ item' = [item EXCEPT ![i].status = "in_progress"] /\ UNCHANGED <<left, filer>>

\* A lease ran out, or the work failed.
GiveUp(i) ==
  /\ item[i].status = "in_progress"
  /\ \E s \in {"pending", "failed"} : item' = [item EXCEPT ![i].status = s]
  /\ UNCHANGED <<left, filer>>

\* The containers nobody holds whose filed steps are all done, bottom-up.
Closes(its) == {c \in Tree : /\ its[c].status = "pending" /\ Kids(its, c) # {}
                             /\ \A k \in Kids(its, c) : its[k].status = "done"}
Shut(its) == [i \in DOMAIN its |-> IF i \in Closes(its) THEN [its[i] EXCEPT !.status = "done"] ELSE its[i]]
Cascade(its) == Shut(Shut(Shut(its)))

Finish(i) ==
  /\ item[i].status = "in_progress"
  /\ item' = Cascade([item EXCEPT ![i].status = "done"]) /\ UNCHANGED <<left, filer>>

FilingInit ==
  /\ item = [i \in Tree \cup Blockers |->
       IF i \in Blockers THEN [status |-> "pending", blocked_by |-> {}] ELSE Unfiled]
  /\ left = Nodes /\ filer = "starting"

FilingNext ==
  \/ PlanRefused \/ FileRun \/ FilerDies
  \/ \E n \in Nodes : FileStep(n) \/ FileRefused(n)
  \/ \E i \in Tree \cup Blockers : Take(i) \/ GiveUp(i) \/ Finish(i)
=============================================================================
