------------------------------ MODULE Registry ------------------------------
(***************************************************************************)
(* The registry database (src/agentco/db.py): its tables share a file and  *)
(* no step of one reads a row of another, but for the feed that everyone   *)
(* may append to.  A behaviour here exercises one of them (part) while the *)
(* others rest in their first state.                                       *)
(***************************************************************************)
EXTENDS Writeback, Following, Snapshots, ScopeLeases, Answers, WorkTable, CallLog

CONSTANTS Parts,   \* those of this instance
          Backends \* what AGENTCO_DB may name

VARIABLE part

FeedParts  == {"feed", "writeback", "following"}
TableParts == {"schema", "work"}
AllParts   == FeedParts \cup TableParts \cup {"snapshots", "leases", "answers", "calls"}

ASSUME PartsAssumption ==
  Parts \subseteq AllParts /\ Backends \subseteq {"sqlite", "postgres"}

feeders == <<feedVars, backVars, followVars>>
tables  == <<engine, schemaVars, workVars>>

\* A database that has no part in the behaviour is new, and on SQLite.
RegistryInit ==
  /\ part \in Parts
  /\ FeedInit /\ BackInit /\ FollowInit /\ SnapInit /\ LeaseInit /\ AnswerInit
  /\ SchemaInit /\ WorkInit /\ CallInit
  /\ IF part \in {"feed", "writeback"} THEN backend \in Backends ELSE backend = "sqlite"
  /\ part \notin TableParts => engine = "sqlite"
  /\ part # "schema" => schema = {}

FeedPart(A)   == part = "feed" /\ A
                 /\ UNCHANGED <<part, backVars, followVars, snapVars, leaseVars, answerVars, callVars, tables>>
BackPart(A)   == part = "writeback" /\ A
                 /\ UNCHANGED <<part, followVars, snapVars, leaseVars, answerVars, callVars, tables>>
FollowPart(A) == part = "following" /\ A
                 /\ UNCHANGED <<part, backVars, snapVars, leaseVars, answerVars, callVars, tables>>
SnapPart(A)   == part = "snapshots" /\ A
                 /\ UNCHANGED <<part, feeders, leaseVars, answerVars, callVars, tables>>
LeasePart     == part = "leases" /\ LeaseNext
                 /\ UNCHANGED <<part, feeders, snapVars, answerVars, callVars, tables>>
AnswerPart    == part = "answers" /\ AnswerNext
                 /\ UNCHANGED <<part, feeders, snapVars, leaseVars, callVars, tables>>
SchemaPart    == part = "schema" /\ SchemaNext
                 /\ UNCHANGED <<part, feeders, snapVars, leaseVars, answerVars, callVars, workVars>>
WorkPart(A)   == part = "work" /\ A
                 /\ UNCHANGED <<part, feeders, snapVars, leaseVars, answerVars, callVars, schemaVars>>
CallPart      == part = "calls" /\ CallNext
                 /\ UNCHANGED <<part, feeders, snapVars, leaseVars, answerVars, tables>>

RegistryNext ==
  \/ FeedPart(FeedNext) \/ BackPart(BackNext) \/ FollowPart(FollowNext) \/ SnapPart(SnapNext)
  \/ LeasePart \/ AnswerPart \/ SchemaPart \/ WorkPart(WorkNext) \/ CallPart

registryVars == <<part, feeders, snapVars, leaseVars, answerVars, callVars, tables>>

RegistrySpec == RegistryInit /\ [][RegistryNext]_registryVars
=============================================================================
