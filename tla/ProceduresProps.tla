-------------------------- MODULE ProceduresProps ---------------------------
(***************************************************************************)
(* What the procedure library, its chains and its runs promise.            *)
(***************************************************************************)
EXTENDS Procedures

\* A version, once written, says what it said and stays: a pin to it resolves
\* to that text for ever (sop.py: "the record is kept forever").
VersionsStand ==
  [][\A v \in DOMAIN versions :
       v \in DOMAIN versions' /\ versions'[v].entries = versions[v].entries]_proceduresVars

\* What a chain's manifest pins, and what a run of the chain was filed at, is
\* still held at the digest it was pinned or filed with, and has not become a
\* draft again, whatever lines were damaged and whoever authored meanwhile.
PinsStand ==
  /\ \A m \in manifests : \A a \in DOMAIN m :
       LET v == <<a, m[a].version>>
       IN  /\ v \in DOMAIN versions
           /\ versions[v].entries = m[a].digest /\ versions[v].status # "draft"
  /\ ran # NoRun => /\ <<ran.asop, ran.version>> \in DOMAIN versions
                    /\ versions[<<ran.asop, ran.version>>].entries = ran.says

\* A chain moves along one path: each adoption starts at the manifest the one
\* before it led to, and the chain runs under the last, though two people read
\* the impact of a move at once.
ChainsNeverFork ==
  /\ \A i \in 2..Len(adoptions) : adoptions[i].from = adoptions[i - 1].to
  /\ adoptions # <<>> => current = adoptions[Len(adoptions)].to

\* What a person took out of the procedure does not come back into the version
\* people follow by an agent's doing, not by a draft and not by going back to
\* a version from before.
Followed == UNION {versions[<<Taught, n>>].entries : n \in Active(versions, Taught)}
PersonsWordStands ==
  [][\A e \in Followed' \ Followed :
       (torn = {} /\ Followed # {} /\ e \in Dismissed(versions, Taught))
         => \E n \in Active(versions', Taught) : versions'[<<Taught, n>>].chosen]_proceduresVars

\* An adjudication that counts as consumed is in the version its mark names;
\* one that counts as dismissed had by then been taken out by a person.
MarksAreTrue ==
  \A l \in Lessons :
    /\ lesson[l].state = "consumed" => l \in versions[<<Taught, lesson[l].in>>].entries
    /\ lesson[l].state = "dismissed" /\ tears = 0 =>
         l \in Dismissed([v \in {<<Taught, n>> : n \in 1..lesson[l].in} |-> versions[v]], Taught)

\* No adjudication jams the loop: a pending one is consumed in the end, unless
\* the step it was learned at is gone, some step holds all the mistakes it
\* may, a line of the library cannot be read, or the numbers of this instance
\* are used up.
Stuck(l) ==
  \/ torn # {}
  \/ LET n == Latest(versions, Taught)
         e == versions[<<Taught, n>>].entries
     IN  \/ n = MaxVersion[Taught]
         \/ StepOf[l] \notin e
         \/ \E s \in Steps : Cardinality(Mistakes(e, s)) = MaxMistakes
LoopNeverJams == \A l \in Lessons : []<>(lesson[l] # Pending \/ Stuck(l))

\* A step starts only when the steps it is after are done, at its own level
\* and at every level above, and what the whole run waits for too.
Above[n \in Nodes] == IF ParentOf[n] = Run THEN {n} ELSE {n} \cup Above[ParentOf[n]]
Started(i) == item[i].status \in {"in_progress", "done", "failed"}
StepsKeepOrder ==
  \A n \in Nodes : Started(n) =>
    \A b \in Blockers \cup UNION {After[m] : m \in Above[n]} : item[b].status = "done"
=============================================================================
