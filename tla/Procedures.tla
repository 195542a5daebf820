----------------------------- MODULE Procedures -----------------------------
(***************************************************************************)
(* Procedures and their runs.  The library is what the pass drafts into    *)
(* and what chains pin; filing a run reads it once, before the first       *)
(* write, and then belongs to the work queue.  A behaviour here exercises  *)
(* the library alone, with the pass or with a chain, or one filing.        *)
(***************************************************************************)
EXTENDS Chains, Filing

CONSTANTS Parts, Backends,
          Authored, Pinned \* bounds: sets of versions there may be, and those beside a chain

VARIABLE part

AllParts == {"authoring", "learning", "chains", "filing"}

ASSUME PartsAssumption == Parts \subseteq AllParts /\ DOMAIN Backends = AllParts

proceduresVars == <<part, libraryVars, chainVars, filingVars>>

ProceduresInit ==
  /\ part \in Parts
  /\ backend \in Backends[part]
  /\ LibraryInit /\ ChainInit /\ FilingInit

Authoring(A) == part = "authoring" /\ A /\ UNCHANGED <<part, chainVars, filingVars>>
Learning(A)  == part = "learning" /\ A /\ UNCHANGED <<part, chainVars, filingVars>>
Chaining(A)  == part = "chains" /\ A /\ UNCHANGED <<part, filingVars>>

\* The pass reads no status: it learns beside the revisions of others alone.
\* Damage is studied where pins may suffer from it, without promotions: what
\* they open is no version of a chain.
ProceduresNext ==
  \/ Authoring(\E w \in Writers : Author(w) /\ \E vs \in Authored : DOMAIN versions' \subseteq vs)
  \/ Learning(PassNext \/ \E w \in Writers \ Passes : Reviser(w))
  \/ Learning(\E l \in Lessons : Adjudicate(l))
  \/ Chaining(Damage /\ UNCHANGED chainVars)
  \/ Chaining(/\ UNCHANGED <<chainVars, cleared>>
              /\ \E w \in Writers : Author(w) /\ DOMAIN versions' \subseteq Pinned)
  \/ Chaining(ChainNext /\ UNCHANGED libraryVars)
  \/ part = "filing" /\ FilingNext /\ UNCHANGED <<part, libraryVars, chainVars>>

ProceduresSpec == ProceduresInit /\ [][ProceduresNext]_proceduresVars

\* A pass is run again and again by whoever schedules it, and goes on unless
\* it dies.
FairProceduresSpec ==
  /\ ProceduresSpec
  /\ \A p \in Passes : WF_proceduresVars(Learning(PassStep(p)))
=============================================================================
