------------------------------- MODULE Schema -------------------------------
(***************************************************************************)
(* Opening the database (src/agentco/db.py, sqlstore.py) brings its schema *)
(* up to date (migrations.py): each migration in one transaction with the  *)
(* row of the ledger that records it.  Every service, agent and job opens  *)
(* the database for itself, of its own release, whenever it starts.        *)
(***************************************************************************)
EXTENDS Integers, FiniteSetsExt, TLC

CONSTANTS Openers,   \* the processes that open the database
          Newest,    \* how many migrations there are
          Columns,   \* those that add a column: what a second run of them refuses
          Upgrade,   \* the one that copies the legacy procedures
          Knows,     \* [Openers -> 1..Newest]: the newest migration each has
          Legacy,    \* the procedures of the old record
          Unreadable, \* those this release cannot read
          MaxKills   \* bound on processes that die or are started again

ASSUME SchemaAssumption ==
  /\ Newest \in Nat \ {0} /\ Columns \subseteq 2..Newest /\ Upgrade \in 1..Newest
  /\ Knows \in [Openers -> 1..Newest] /\ Unreadable \subseteq Legacy /\ MaxKills \in Nat

VARIABLES engine,  \* "sqlite" or "postgres", by AGENTCO_DB
          ledger,  \* schema_migrations
          schema,  \* the migrations whose tables and columns are there
          copied,  \* the legacy procedures the asops table holds
          opener,  \* how far each process has come
          kills

schemaVars == <<ledger, schema, copied, opener, kills>>

Closed == [at |-> "closed", done |-> {}, newly |-> {}]
Migrating(s) == opener[s].at \in {"begun", "checked", "applied", "entered"}
Pending(s)   == (1..Knows[s]) \ opener[s].done
Now(s)       == Min(Pending(s))
Moves(s, at) == opener' = [opener EXCEPT ![s].at = at]
SchemaRest   == UNCHANGED <<engine, ledger, schema, copied, kills>>

\* The first read of the ledger: a hint, taken under no lock.
LookAtLedger(s) ==
  /\ opener[s].at = "closed"
  /\ opener' = [opener EXCEPT ![s] = [at |-> "ready", done |-> ledger, newly |-> {}]]
  /\ SchemaRest

\* BEGIN IMMEDIATE shuts others out on SQLite; on Postgres it is a plain BEGIN.
BeginMigration(s) ==
  /\ opener[s].at = "ready" /\ Pending(s) # {}
  /\ engine = "sqlite" => \A o \in Openers : ~Migrating(o)
  /\ Moves(s, "begun") /\ SchemaRest

\* The ledger is asked again inside the transaction.  Mutant: it is not.
AppliedHint(s) == FALSE
Applied(s)     == Now(s) \in ledger

CheckLedger(s) ==
  /\ opener[s].at = "begun"
  /\ opener' = IF Applied(s) THEN [opener EXCEPT ![s].at = "ready", ![s].done = @ \cup {Now(s)}]
               ELSE [opener EXCEPT ![s].at = "checked"]
  /\ SchemaRest

\* The statements.  They wait for whoever is creating the same tables; to add a
\* column that is there is an error, to create a table that is there is none.
ApplyStatements(s) ==
  /\ opener[s].at = "checked"
  /\ \A o \in Openers \ {s} : opener[o].at \in {"applied", "entered"} => Now(o) # Now(s)
  /\ Moves(s, IF Now(s) \in Columns \cap schema THEN "failed" ELSE "applied")
  /\ SchemaRest

\* The ledger's row, whose version is its key.
EnterLedger(s) ==
  /\ opener[s].at = "applied"
  /\ Moves(s, IF Now(s) \in ledger THEN "failed" ELSE "entered")
  /\ SchemaRest

\* COMMIT: statements, copied procedures and ledger row at once.
CommitMigration(s) ==
  /\ opener[s].at = "entered"
  /\ ledger' = ledger \cup {Now(s)} /\ schema' = schema \cup {Now(s)}
  /\ copied' = IF Now(s) = Upgrade THEN copied \cup (Legacy \ Unreadable) ELSE copied
  /\ opener' = [opener EXCEPT ![s] = [at |-> "ready", done |-> @.done \cup {Now(s)},
                                      newly |-> @.newly \cup {Now(s)}]]
  /\ UNCHANGED <<engine, kills>>

Opened(s) ==
  /\ opener[s].at = "ready" /\ Pending(s) = {}
  /\ Moves(s, "open") /\ SchemaRest

\* The process dies, or is started again; an open transaction is rolled back.
Restart(s) ==
  /\ opener[s].at # "closed" /\ kills < MaxKills
  /\ kills' = kills + 1
  /\ opener' = [opener EXCEPT ![s] = Closed]
  /\ UNCHANGED <<engine, ledger, schema, copied>>

\* A new database, or one from before there was a ledger.
SchemaInit ==
  /\ engine \in {"sqlite", "postgres"}
  /\ ledger = {} /\ schema \in {{}, {1}} /\ copied = {}
  /\ opener = [s \in Openers |-> Closed] /\ kills = 0

OpenStep(s) ==
  \/ LookAtLedger(s) \/ BeginMigration(s) \/ CheckLedger(s) \/ ApplyStatements(s)
  \/ EnterLedger(s) \/ CommitMigration(s) \/ Opened(s)

SchemaNext == \E s \in Openers : OpenStep(s) \/ Restart(s)
=============================================================================
