----------------------------- MODULE WorkTable -----------------------------
(***************************************************************************)
(* The work queue's rows in a SQL database (SqlQueue in                    *)
(* src/agentco/sqlstore.py, over pgadapter.py): what WorkQueue takes in one *)
(* step, statement by statement.  On SQLite BEGIN IMMEDIATE shuts every    *)
(* other writer out.  On Postgres a statement sees what is committed when  *)
(* it runs and what its own transaction wrote (READ COMMITTED), a row that *)
(* a transaction wrote or locked is its own until it ends, and an UPDATE   *)
(* of another's row waits.  The engine is the one that Schema opened.      *)
(***************************************************************************)
EXTENDS Schema

CONSTANTS Items,       \* the items
          ItemParent, \* [Items -> Items \cup {NoParent}]: metadata.parent
          NoParent,
          Runs,       \* the run containers among them
          Standing,   \* the items already filed
          Hands,      \* the connections that may have a transaction open
          MaxLosses   \* bound on connections lost

ASSUME WorkTableAssumption ==
  /\ ItemParent \in [Items -> Items \cup {NoParent}] /\ NoParent \notin Items
  /\ Runs \cup Standing \subseteq Items /\ MaxLosses \in Nat
  /\ \A r \in Standing : ItemParent[r] \in Standing \cup {NoParent} \* what create() left

VARIABLES stored,  \* the committed rows
          trans,   \* the transaction each connection has open
          crossed, \* the rows written while another transaction held a reading of them
          losses

workVars == <<stored, trans, crossed, losses>>

NoTrans == [at |-> "none"]
Unwritten == [r \in {} |-> NoTrans] \* no row yet
\* stamp stands for lease_attempt and updated_at, which every write moves.
Filed(waits) == [status |-> "open", waits |-> waits, stamp |-> 0]
\* What a statement of the connection sees.
Over(new, old) ==
  [r \in DOMAIN new \cup DOMAIN old |-> IF r \in DOMAIN new THEN new[r] ELSE old[r]]
Sees(h)  == Over(trans[h].wrote, stored)
Busy(h)  == trans[h].at \notin {"none", "swept", "failed"}
Unlocked(h, r) == \A g \in Hands \ {h} : Busy(g) => r \notin trans[g].locked

\* _begin, BEGIN IMMEDIATE: a write transaction is alone on SQLite.
Alone(h)    == engine = "sqlite" => \A g \in Hands \ {h} : ~Busy(g)
MayBegin(h) == trans[h] = NoTrans /\ Alone(h)

Kids(rows, p) == {r \in DOMAIN rows : ItemParent[r] = p}
IsDone(rows, r) == rows[r].status = "done"

\* finished_containers: the open runs whose steps are all done, or runs that it
\* closes itself, to the (least) fixed point.  Mutant: only those whose blockers are gone.
FinishedUnheld(rows) ==
  {c \in Runs \cap DOMAIN rows :
     /\ ~IsDone(rows, c) /\ Kids(rows, c) # {} /\ rows[c].waits = {}
     /\ \A k \in Kids(rows, c) : IsDone(rows, k)}
FinishedRuns(rows) ==
  LET Closable(shut) ==
        {c \in Runs \cap DOMAIN rows :
           /\ ~IsDone(rows, c) /\ Kids(rows, c) # {}
           /\ \A k \in Kids(rows, c) : IsDone(rows, k) \/ k \in shut}
  IN  {c \in Runs \cap DOMAIN rows :
         ~IsDone(rows, c) /\ \A shut \in SUBSET Runs : Closable(shut) \subseteq shut => c \in shut}

Only(h, next) == trans' = [trans EXCEPT ![h] = next]
Done(row) == [row EXCEPT !.status = "done", !.stamp = @ + 1]
Failed    == [at |-> "failed"]

-----------------------------------------------------------------------------
(* _mutate: SELECT ... FOR UPDATE, the change, a compare-and-swap UPDATE,   *)
(* and the cascade.                                                         *)

\* FOR UPDATE.  Mutant: the row is read without it.
LockedNever(r) == {}
LockedFirst(r) == {r}

MutateRead(h, r, why) ==
  /\ r \in DOMAIN stored /\ Alone(h) /\ Unlocked(h, r)
  /\ Only(h, [at |-> "chosen", why |-> why, row |-> r, seen |-> stored[r],
              locked |-> LockedFirst(r), wrote |-> Unwritten])
  /\ UNCHANGED <<engine, stored, crossed, losses>>

\* A report or a verdict that lands on an open item; or a write that leaves it
\* open, here only the first of its row.
Finish(h, r) == MayBegin(h) /\ ~IsDone(stored, r) /\ MutateRead(h, r, "finish")
Touch(h, r)  == MayBegin(h) /\ stored[r].stamp = 0 /\ MutateRead(h, r, "touch")

\* The UPDATE, conditioned on the stamp that was read.  No row matched: raise.
MutateWrite(h) ==
  LET t == trans[h] IN
  /\ t.at = "chosen" /\ Unlocked(h, t.row)
  /\ Only(h, IF stored[t.row].stamp # t.seen.stamp THEN Failed
             ELSE [t EXCEPT !.at = IF t.why = "finish" THEN "cascading" ELSE "writing",
                            !.locked = @ \cup {t.row},
                            !.wrote = [r \in {t.row} |->
                                         IF t.why = "touch" THEN [t.seen EXCEPT !.stamp = @ + 1]
                                         ELSE Done(t.seen)]])
  /\ UNCHANGED <<engine, stored, crossed, losses>>

\* Every row, then each container it finishes: read without a lock ...
CascadeRead(h) ==
  LET t == trans[h] IN
  /\ t.at = "cascading"
  /\ Only(h, [at |-> "closing", todo |-> FinishedRuns(Sees(h)), locked |-> t.locked, wrote |-> t.wrote])
  /\ UNCHANGED <<engine, stored, crossed, losses>>

CloseRead(h) ==
  LET t == trans[h] IN
  /\ t.at = "closing"
  /\ \E c \in t.todo :
       Only(h, [at |-> "overwriting", row |-> c, seen |-> Sees(h)[c], todo |-> t.todo \ {c},
                locked |-> t.locked, wrote |-> t.wrote])
  /\ UNCHANGED <<engine, stored, crossed, losses>>

\* ... and written whole, whatever became of it meanwhile.
CloseWrite(h) ==
  LET t == trans[h] IN
  /\ t.at = "overwriting" /\ Unlocked(h, t.row)
  /\ Only(h, [at |-> "closing", todo |-> t.todo, locked |-> t.locked \cup {t.row},
              wrote |-> Over([r \in {t.row} |-> Done(t.seen)], t.wrote)])
  /\ UNCHANGED <<engine, stored, crossed, losses>>

\* close_finished_runs: the table is read under no lock, and each run it finds
\* finished is closed by a write of its own.
SweepRead(h) ==
  /\ trans[h] = NoTrans
  /\ \E c \in FinishedRuns(stored) :
       Only(h, [at |-> "swept", row |-> c, wrote |-> Unwritten])
  /\ UNCHANGED <<engine, stored, crossed, losses>>

SweepClose(h) == trans[h].at = "swept" /\ MutateRead(h, trans[h].row, "close")

-----------------------------------------------------------------------------
Creating == {"new", "placed", "joined", "filed"}

(* create: the duplicate check, the place in the tree, the parent, the row. *)

\* The advisory lock on the natural key, held to the end of the transaction.
KeyTaken(h, r) == \E g \in Hands \ {h} : trans[g].at \in Creating /\ trans[g].row = r

\* The key is locked and looked up; an item that is there is returned.
CreateLook(h, r) ==
  /\ MayBegin(h) /\ ~KeyTaken(h, r) /\ r \notin DOMAIN stored
  /\ Only(h, [at |-> "new", row |-> r, locked |-> {}, wrote |-> Unwritten])
  /\ UNCHANGED <<engine, stored, crossed, losses>>

\* enforce_decomposition: a parent that is there and not done; then its row
\* once more, for its blockers.
CreatePlace(h) ==
  LET t == trans[h]
      p == ItemParent[t.row] IN
  /\ t.at = "new"
  /\ Only(h, IF p = NoParent THEN [t EXCEPT !.at = "joined"]
             ELSE IF p \notin DOMAIN stored \/ IsDone(stored, p) THEN NoTrans
             ELSE [at |-> "placed", row |-> t.row, waits |-> stored[p].waits,
                   locked |-> {}, wrote |-> Unwritten])
  /\ UNCHANGED <<engine, stored, crossed, losses>>

\* The parent's blockers as they were read, and this one.  Mutant: only this one.
JustThis(waits, r) == {r}
Joined(waits, r)   == waits \cup {r}
CreateBlock(h) ==
  LET t == trans[h]
      p == ItemParent[t.row] IN
  /\ t.at = "placed" /\ Unlocked(h, p)
  /\ Only(h, [at |-> "joined", row |-> t.row, locked |-> {p},
              wrote |-> [r \in {p} |-> [stored[p] EXCEPT !.waits = Joined(t.waits, t.row),
                                                          !.stamp = @ + 1]]])
  /\ UNCHANGED <<engine, stored, crossed, losses>>

\* The INSERT waits for another of the same key, and fails on one committed.
CreateInsert(h) ==
  LET t == trans[h] IN
  /\ t.at = "joined" /\ Unlocked(h, t.row)
  /\ Only(h, IF t.row \in DOMAIN stored THEN Failed
             ELSE [t EXCEPT !.at = "filed", !.locked = @ \cup {t.row},
                            !.wrote = Over([r \in {t.row} |-> Filed({})], @)])
  /\ UNCHANGED <<engine, stored, crossed, losses>>

-----------------------------------------------------------------------------
\* What an open transaction has read without a lock and is about to write.
InHand(g) ==
  CASE trans[g].at = "placed"      -> {ItemParent[trans[g].row]}
    [] trans[g].at = "overwriting" -> {trans[g].row}
    [] OTHER -> {}

CommitWork(h) ==
  /\ \/ trans[h].at \in {"writing", "filed"}
     \/ trans[h].at = "closing" /\ trans[h].todo = {}
  /\ stored' = Sees(h)
  /\ crossed' = crossed \cup (DOMAIN trans[h].wrote \cap UNION {InHand(g) : g \in Hands \ {h}})
  /\ Only(h, NoTrans)
  /\ UNCHANGED <<engine, losses>>

\* The connection is lost: ROLLBACK.
Broken(h) ==
  /\ trans[h].at \notin {"none", "failed"} /\ losses < MaxLosses
  /\ losses' = losses + 1
  /\ Only(h, NoTrans)
  /\ UNCHANGED <<engine, stored, crossed>>

WorkInit ==
  /\ stored = [r \in Standing |-> Filed({k \in Standing : ItemParent[k] = r})]
  /\ trans = [h \in Hands |-> NoTrans]
  /\ crossed = {} /\ losses = 0

Statement(h) ==
  \/ MutateWrite(h) \/ CascadeRead(h) \/ CloseRead(h) \/ CloseWrite(h) \/ SweepClose(h)
  \/ CreatePlace(h) \/ CreateBlock(h) \/ CreateInsert(h) \/ CommitWork(h)

Start(h) ==
  \/ SweepRead(h)
  \/ \E r \in Items : CreateLook(h, r)
  \/ \E r \in DOMAIN stored \ Runs : Finish(h, r) \/ Touch(h, r)

WorkNext == \E h \in Hands : Statement(h) \/ Start(h) \/ Broken(h)
=============================================================================
