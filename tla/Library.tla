------------------------------ MODULE Library ------------------------------
(***************************************************************************)
(* The procedure library (src/agentco/sop.py, and SqlSopLibrary in         *)
(* src/agentco/sqlstore.py): versions that are drafted, activated and      *)
(* withdrawn but never edited, and the pass that drafts the next version   *)
(* from what the adjudicated steps taught.                                 *)
(*                                                                         *)
(* An authoring call reads every version, decides and writes every version *)
(* back under one lock.  On a file or SQLite the lock comes first.  On     *)
(* Postgres the read itself waits for the other author's rows, and those   *)
(* rows are deleted and written anew by the time it goes on: what it then  *)
(* sees is an empty table (Ask, overtaken).                                *)
(***************************************************************************)
EXTENDS Integers, FiniteSets

CONSTANTS Asops,       \* the procedures' ids
          Taught,      \* the one the runs of this instance follow
          Steps, Lessons,
          StepOf,      \* [Lessons -> Steps]: the step each was learned at
          Good,        \* the lessons of a good divergence: proposals
          Writers, Persons, Passes, \* who writes, who is human, who runs the pass
          Bodies,      \* what a procedure somebody writes may say
          MaxMistakes, \* MAX_COMMON_MISTAKES, per step
          MaxVersion, MaxTears, MaxDeaths \* bounds

ASSUME LibraryAssumption ==
  /\ Taught \in Asops /\ StepOf \in [Lessons -> Steps] /\ Good \subseteq Lessons
  /\ Passes \subseteq Writers
  /\ Bodies \subseteq SUBSET (Steps \cup Lessons)
  /\ MaxMistakes \in Nat \ {0} /\ MaxVersion \in [Asops -> Nat \ {0}]

VARIABLES versions,  \* the store: a version for each procedure and number
          torn,      \* the stored versions that cannot be read
          minted,    \* every id create() has handed out
          backend,
          asked,     \* Postgres: authors whose read was sent
          overtaken, \* those another author's commit came before
          cleared,   \* promotions that found their type of task uncovered
          lesson,    \* the adjudications: pending, or consumed by a version
          pass,      \* what each pass has in hand
          deaths, tears

libraryVars ==
  <<versions, torn, minted, backend, asked, overtaken, cleared, lesson, pass, deaths, tears>>

Entries == Steps \cup Lessons
Draft(w, entries) ==
  [status |-> "draft", human |-> w \in Persons, entries |-> entries, chosen |-> FALSE]
NoPass  == [stage |-> "idle"]
Unjudged == [state |-> "none"]
Pending  == [state |-> "pending"]

-----------------------------------------------------------------------------
(* Reading.                                                                 *)

Readable(vs) == [v \in DOMAIN vs \ torn |-> vs[v]]
\* What an author's locked read returns.
View(w)  == IF w \in overtaken THEN <<>> ELSE Readable(versions)
Quarantined(w) == IF w \in overtaken THEN {} ELSE torn
Numbers(view, a) == {n \in 1..MaxVersion[a] : <<a, n>> \in DOMAIN view}
Newest(ns)       == CHOOSE n \in ns : \A m \in ns : m <= n
Latest(view, a)  == Newest(Numbers(view, a))
Active(view, a)  == {n \in Numbers(view, a) : view[<<a, n>>].status = "active"}
Baseline(view, a) ==
  LET ns == Active(view, a)
  IN  IF ns = {} THEN Latest(view, a) ELSE CHOOSE n \in ns : \A m \in ns : n <= m
\* list_active(): read outside the lock.
AnyActive == \E a \in Asops : Active(Readable(versions), a) # {}

\* validate_asop: a procedure has a step, a lesson sits in a step of it, and
\* no step holds more than its share of mistakes.
Mistakes(entries, s) == {l \in (entries \cap Lessons) \ Good : StepOf[l] = s}
Valid(entries) ==
  /\ entries \cap Steps # {}
  /\ \A l \in entries \cap Lessons : StepOf[l] \in entries
  /\ \A s \in Steps : Cardinality(Mistakes(entries, s)) <= MaxMistakes

-----------------------------------------------------------------------------
(* The revision policy (asop.revision): no agent undoes a person's move.    *)

\* The entries whose last move by a person took them out of the procedure, or
\* put them in.
Before(view, a, n) == view[<<a, Newest({m \in Numbers(view, a) : m < n})>>].entries
ByPerson(view, a) == {n \in Numbers(view, a) : view[<<a, n>>].human /\ \E m \in Numbers(view, a) : m < n}
TookOut(view, a, n) == Before(view, a, n) \ view[<<a, n>>].entries
PutIn(view, a, n)   == view[<<a, n>>].entries \ Before(view, a, n)
Dismissed(view, a) ==
  UNION {{e \in TookOut(view, a, n) : \A m \in ByPerson(view, a) : m > n => e \notin PutIn(view, a, m)} :
           n \in ByPerson(view, a)}
Insisted(view, a) ==
  UNION {{e \in PutIn(view, a, n) : \A m \in ByPerson(view, a) : m > n => e \notin TookOut(view, a, m)} :
           n \in ByPerson(view, a)}

\* Mutant: nothing is compared.
PolicedNever(w, view, a, base, new) == TRUE
Policed(w, view, a, base, new) ==
  w \notin Persons => /\ (new \ base) \cap Dismissed(view, a) = {}
                      /\ (base \ new) \cap Insisted(view, a) = {}

-----------------------------------------------------------------------------
(* Writing.                                                                 *)

\* The read of a transaction that has to wait its turn.
Ask(w) ==
  /\ backend = "postgres" /\ w \notin asked
  /\ asked' = asked \cup {w}
  /\ UNCHANGED <<versions, torn, minted, backend, overtaken, cleared, lesson, pass, deaths, tears>>

With(view, t, record) == [v \in DOMAIN view \cup {t} |-> IF v = t THEN record ELSE view[v]]

\* The whole table is replaced by what was read and changed, unreadable lines
\* carried along.
WriteAll(w, new) ==
  /\ versions' = [v \in DOMAIN new \cup Quarantined(w) |->
                    IF v \in DOMAIN new THEN new[v] ELSE versions[v]]
  /\ torn' = Quarantined(w)
  /\ asked' = asked \ {w}
  /\ overtaken' = (overtaken \cup asked) \ {w}

\* A call that is refused, or whose caller dies, writes nothing.
Refused(w) ==
  /\ w \in asked
  /\ asked' = asked \ {w} /\ overtaken' = overtaken \ {w}
  /\ UNCHANGED <<versions, torn, minted, backend, cleared, lesson, pass, deaths, tears>>

NewProcedure(w, a, entries) ==
  /\ a \notin minted /\ Valid(entries)
  /\ minted' = minted \cup {a}
  /\ WriteAll(w, With(View(w), <<a, 1>>, Draft(w, entries)))
  /\ UNCHANGED <<backend, lesson, pass, deaths, tears>>

Create(w, a, entries) == NewProcedure(w, a, entries) /\ UNCHANGED cleared

\* A person opens a procedure from a run that worked, unless one already
\* covers its type of task; that is read before the lock.
PromoteLook(w) ==
  /\ w \in Persons \ cleared /\ Asops \ minted # {}
  /\ ~AnyActive
  /\ cleared' = cleared \cup {w}
  /\ UNCHANGED <<versions, torn, minted, backend, asked, overtaken, lesson, pass, deaths, tears>>
Promote(w, a, entries) ==
  /\ w \in cleared
  /\ cleared' = cleared \ {w}
  /\ NewProcedure(w, a, entries)

\* Mutant: a number nobody can read is taken for free.
ClearHistoryUnasked(w) == TRUE
ClearHistory(w) == Quarantined(w) = {}

\* What revise() does under the lock.
Revised(w, a, entries) ==
  LET view == View(w)
      n    == Latest(view, a)
  IN  /\ Numbers(view, a) # {} /\ n < MaxVersion[a]
      /\ ClearHistory(w)
      /\ Policed(w, view, a, view[<<a, n>>].entries, entries)
      /\ WriteAll(w, With(view, <<a, n + 1>>, Draft(w, entries)))

Revise(w, a, entries) ==
  /\ Valid(entries)
  /\ Revised(w, a, entries)
  /\ UNCHANGED <<minted, backend, cleared, lesson, pass, deaths, tears>>

\* One version is followed; whichever was is superseded.  The first of them
\* is measured against the latest.  (chosen remembers whose doing it was.)
Activate(w, a, n) ==
  LET view == View(w)
      t    == <<a, n>>
  IN  /\ t \in DOMAIN view /\ view[t].status # "retired"
      /\ Policed(w, view, a, view[<<a, Baseline(view, a)>>].entries, view[t].entries)
      /\ WriteAll(w, [v \in DOMAIN view |->
           IF v = t THEN [view[v] EXCEPT !.status = "active", !.chosen = w \in Persons]
           ELSE IF v[1] = a /\ view[v].status = "active"
                  THEN [view[v] EXCEPT !.status = "superseded"] ELSE view[v]])
      /\ UNCHANGED <<minted, backend, cleared, lesson, pass, deaths, tears>>

Retire(w, a) ==
  LET view == View(w)
  IN  /\ w \in Persons
      /\ \E n \in Active(view, a) :
           WriteAll(w, [view EXCEPT ![<<a, n>>].status = "retired"])
      /\ UNCHANGED <<minted, backend, cleared, lesson, pass, deaths, tears>>

\* A line is damaged, or written by a newer release; and is put right.
Tear(v) ==
  /\ tears < MaxTears /\ v \in DOMAIN versions \ torn
  /\ tears' = tears + 1 /\ torn' = torn \cup {v}
  /\ UNCHANGED <<versions, minted, backend, asked, overtaken, cleared, lesson, pass, deaths>>
Repair(v) ==
  /\ v \in torn /\ torn' = torn \ {v}
  /\ UNCHANGED <<versions, minted, backend, asked, overtaken, cleared, lesson, pass, deaths, tears>>

-----------------------------------------------------------------------------
(* The pass.                                                                *)

\* A step of a run is adjudicated.
Adjudicate(l) ==
  /\ lesson[l] = Unjudged
  /\ lesson' = [lesson EXCEPT ![l] = Pending]
  /\ UNCHANGED <<versions, torn, minted, backend, asked, overtaken, cleared, pass, deaths, tears>>

OnlyPass(p, next) ==
  /\ pass' = [pass EXCEPT ![p] = next]
  /\ UNCHANGED <<versions, torn, minted, backend, asked, overtaken, cleared, lesson, deaths, tears>>

Look(p) ==
  LET pending == {l \in Lessons : lesson[l] = Pending}
  IN  /\ pass[p] = NoPass
      /\ Numbers(Readable(versions), Taught) # {} /\ pending # {}
      /\ OnlyPass(p, [stage |-> "planning", pending |-> pending])

\* Mutant: what a person dismissed is proposed again.
KnownDismissed(view) == {}
KnownDismissals(view) == Dismissed(view, Taught)

\* Mutant: a lesson there is no room for counts as consumed.
MarkedAll(here, taken) == here
Marked(here, taken) == taken

\* What the pass makes of the pending lessons and the latest version, neither
\* of them read under the lock: the ones a person dismissed, the ones already
\* there and the ones there is room for are consumed, the rest stay pending.
\* With nothing to draft, one that has no room fails the pass.
Plan(p) ==
  LET view  == Readable(versions)
      n     == Latest(view, Taught)
      base  == view[<<Taught, n>>].entries
      here  == {l \in pass[p].pending : StepOf[l] \in base}
      gone  == here \cap KnownDismissals(view)
      there == (here \cap base) \ gone
      rest  == here \ (gone \cup there)
  IN  /\ pass[p].stage = "planning" /\ Numbers(view, Taught) # {}
      /\ \E room \in SUBSET (rest \ Good) :
           LET new   == base \cup (rest \cap Good) \cup room
               taken == gone \cup there \cup (rest \cap Good) \cup room
           IN  /\ \A s \in Steps : Cardinality(Mistakes(new, s)) <= MaxMistakes
               /\ \A l \in (rest \ Good) \ room :
                    Cardinality(Mistakes(new, StepOf[l])) = MaxMistakes
               /\ OnlyPass(p,
                    IF new # base
                      THEN [stage |-> "drafting", entries |-> new, todo |-> Marked(here, taken), gone |-> gone]
                    ELSE IF Marked(here, taken) # {} /\ (taken = here \/ gone # {})
                      THEN [stage |-> "marking", version |-> n, todo |-> Marked(here, taken), gone |-> gone]
                    ELSE NoPass)

PlanFails(p) ==
  /\ pass[p].stage = "planning" /\ Numbers(Readable(versions), Taught) = {}
  /\ OnlyPass(p, NoPass)

DraftNext(p) ==
  LET view == View(p)
  IN  /\ pass[p].stage = "drafting"
      /\ Revised(p, Taught, pass[p].entries)
      /\ pass' = [pass EXCEPT ![p] = [stage |-> "marking", version |-> Latest(view, Taught) + 1,
                                      todo |-> @.todo, gone |-> @.gone]]
      /\ UNCHANGED <<minted, backend, cleared, lesson, deaths, tears>>

\* revise() said no: the whole pass fails and marks nothing.
DraftRefused(p) ==
  LET view == View(p)
      n    == Latest(view, Taught)
  IN  /\ pass[p].stage = "drafting"
      /\ \/ Numbers(view, Taught) = {}
         \/ Numbers(view, Taught) # {} /\ n = MaxVersion[Taught]
         \/ ~ClearHistory(p)
         \/ /\ Numbers(view, Taught) # {}
            /\ ~Policed(p, view, Taught, view[<<Taught, n>>].entries, pass[p].entries)
      /\ asked' = asked \ {p} /\ overtaken' = overtaken \ {p}
      /\ pass' = [pass EXCEPT ![p] = NoPass]
      /\ UNCHANGED <<versions, torn, minted, backend, cleared, lesson, deaths, tears>>

\* One annotation: a write of the work queue's, on its own.
Mark(p, l) ==
  LET todo == pass[p].todo \ {l}
  IN  /\ pass[p].stage = "marking" /\ l \in pass[p].todo
      /\ lesson' = [lesson EXCEPT ![l] =
           [state |-> IF l \in pass[p].gone THEN "dismissed" ELSE "consumed", in |-> pass[p].version]]
      /\ pass' = [pass EXCEPT ![p] = IF todo = {} THEN NoPass ELSE [@ EXCEPT !.todo = todo]]
      /\ UNCHANGED <<versions, torn, minted, backend, asked, overtaken, cleared, deaths, tears>>

PassDies(p) ==
  /\ deaths < MaxDeaths /\ pass[p] # NoPass
  /\ deaths' = deaths + 1
  /\ pass' = [pass EXCEPT ![p] = NoPass]
  /\ asked' = asked \ {p} /\ overtaken' = overtaken \ {p}
  /\ UNCHANGED <<versions, torn, minted, backend, cleared, lesson, tears>>

PassStep(p) ==
  Look(p) \/ Plan(p) \/ PlanFails(p) \/ DraftNext(p) \/ DraftRefused(p) \/ \E l \in Lessons : Mark(p, l)

-----------------------------------------------------------------------------
\* A library that holds the procedure its runs follow, active.
LibraryInit ==
  /\ versions = [v \in {<<Taught, 1>>} |->
       [status |-> "active", human |-> TRUE, entries |-> Steps, chosen |-> TRUE]]
  /\ torn = {} /\ minted = {Taught}
  /\ asked = {} /\ overtaken = {} /\ cleared = {}
  /\ lesson = [l \in Lessons |-> Unjudged]
  /\ pass = [p \in Passes |-> NoPass]
  /\ deaths = 0 /\ tears = 0

Reviser(w) ==
  \/ Ask(w) \/ Refused(w)
  \/ \E a \in Asops, e \in Bodies : Revise(w, a, e)

Author(w) ==
  \/ Reviser(w) \/ PromoteLook(w)
  \/ \E a \in Asops :
       \/ \E e \in Bodies : Create(w, a, e) \/ Promote(w, a, e)
       \/ \E n \in 1..MaxVersion[a] : Activate(w, a, n)
       \/ Retire(w, a)

PassNext == \E p \in Passes : PassStep(p) \/ PassDies(p)

Damage == \E v \in DOMAIN versions : Tear(v) \/ Repair(v)
=============================================================================
