----------------------------- MODULE EventFeed -----------------------------
(***************************************************************************)
(* The hub's change feed (src/agentco/events.py): one table of events under *)
(* an increasing sequence number, the readers that follow it by a cursor,   *)
(* and the prune that deletes its oldest rows and records a retention      *)
(* floor.  Every statement of the program is a step of its own: SQLite     *)
(* gives a number and commits in one step, Postgres gives the number first *)
(* and commits later.                                                      *)
(***************************************************************************)
EXTENDS Integers, FiniteSetsExt, SequencesExt

CONSTANTS Readers,   \* the subscribers that follow the feed
          Pruners,   \* the processes that may prune: the pulse, an operator
          Events,    \* the events that may be appended: kind, occurred_at, actor
          Walled,    \* kinds filtered by clearance (WALLED_KINDS)
          Scoped,    \* kinds a declared child reads only as their sender
          Children,  \* the readers that are declared federated children
          Cleared,   \* the readers whose clearance opens a walled event
          Windows,   \* the times a prune may be asked to keep from (before)
          Transport, \* the readers that hold a transport credential
          KeyKinds,  \* the kinds such a credential reads (HUMAN_KEY_KINDS)
          PageSize,  \* limit
          MaxSeq     \* bound on the sequence numbers of an instance

ASSUME FeedAssumption ==
  /\ \A e \in Events : e.at \in Nat
  /\ Children \cup Cleared \cup Transport \subseteq Readers
  /\ PageSize \in Nat \ {0} /\ MaxSeq \in Nat

VARIABLES backend,  \* "sqlite" or "postgres", by AGENTCO_DB
          feed,     \* the rows of the table: seq -> event
          open,     \* rows inserted and not committed (Postgres)
          written,  \* every number that was ever committed
          issued,   \* the last sequence number given out, never given again
          floor,    \* the oldest number the feed still holds (meta)
          pruning,  \* what each pruner has read so far
          cursor,   \* the cursor each reader holds: the next page is after it
          begun,    \* where the reader's unbroken reading began
          reading,  \* the page each reader is being served, if any
          served,   \* the rows each reader was given, or were filtered from it
          overtaken \* rows a reader lost to a step between its own two, or that
                    \* went under a floor that a second prune has lowered since

table    == <<feed, open, written, issued>>
retained == <<floor, pruning>>
readers  == <<cursor, begun, reading, served, overtaken>>
feedVars == <<backend, table, retained, readers>>

Seqs     == 1..MaxSeq
NoCursor == 0 - 1
NoRead   == 0 - 1

-----------------------------------------------------------------------------
(* Writing.  A commit that a reader has already passed is lost to it.       *)

Passed(r, s) == s <= cursor[r]

\* The rows with one more.
WithRow(s, e) == [n \in DOMAIN feed \cup {s} |-> IF n = s THEN e ELSE feed[n]]

\* events.append, events.insert with its caller's commit: number and row at
\* once under SQLite's single writer.
AppendEvent(e) ==
  /\ backend = "sqlite" /\ issued < MaxSeq
  /\ issued' = issued + 1
  /\ feed' = WithRow(issued + 1, e)
  /\ written' = written \cup {issued + 1}
  /\ UNCHANGED <<backend, open, retained, readers>>

\* On Postgres the identity column gives the number when the row is inserted.
Insert(e) ==
  /\ backend = "postgres" /\ issued < MaxSeq
  /\ issued' = issued + 1
  /\ open' = open \cup {[seq |-> issued + 1, event |-> e]}
  /\ UNCHANGED <<backend, feed, written, retained, readers>>

Commit(o) ==
  /\ open' = open \ {o}
  /\ feed' = WithRow(o.seq, o.event)
  /\ written' = written \cup {o.seq}
  /\ overtaken' = [r \in Readers |-> overtaken[r] \cup (IF Passed(r, o.seq) THEN {o.seq} ELSE {})]
  /\ UNCHANGED <<backend, issued, retained, cursor, begun, reading, served>>

Rollback(o) ==
  /\ open' = open \ {o}
  /\ UNCHANGED <<backend, feed, written, issued, retained, readers>>

-----------------------------------------------------------------------------
(* Pruning: three reads, then one transaction that writes the floor and     *)
(* deletes below it.                                                        *)

NotPruning == [at |-> "idle", before |-> 0, kept |-> {}, floor |-> 0]

\* SELECT MIN(seq) WHERE occurred_at >= before: none, or one number.
PruneLook(p, before) ==
  LET inside == {s \in DOMAIN feed : feed[s].at >= before} IN
  /\ pruning[p].at = "idle"
  /\ pruning' = [pruning EXCEPT ![p] =
       [at |-> "looked", before |-> before, floor |-> 0,
        kept |-> IF inside = {} THEN {} ELSE {Min(inside)}]]
  /\ UNCHANGED <<backend, table, floor, readers>>

\* The newest row and the old floor; the new floor never goes below the old.
PruneDecide(p) ==
  LET newest == DOMAIN feed
      first  == IF pruning[p].kept # {} THEN Min(pruning[p].kept)
                ELSE IF newest = {} THEN floor ELSE Max(newest) + 1
      new    == Max({first, floor}) IN
  /\ pruning[p].at = "looked"
  /\ pruning' = [pruning EXCEPT ![p] =
       IF new > floor THEN [@ EXCEPT !.at = "decided", !.floor = new] ELSE NotPruning]
  /\ UNCHANGED <<backend, table, floor, readers>>

\* The rows a reader between its floor check and its page now never sees.
Lost(r, n) ==
  IF reading[r] = NoRead THEN {} ELSE {s \in DOMAIN feed : s > reading[r] /\ s < n}

\* What a prune leaves: the rows at or above its floor.
Kept(n) == {s \in DOMAIN feed : s >= n}

\* The floor was decided before another prune wrote a higher one: rows that are
\* gone are at or above it, and no cursor is refused for them.
Untold(n) == {s \in written \ DOMAIN feed : s >= n}

PruneWrite(p) ==
  LET n == pruning[p].floor IN
  /\ pruning[p].at = "decided"
  /\ floor' = n
  /\ feed' = [s \in Kept(n) |-> feed[s]]
  /\ pruning' = [pruning EXCEPT ![p] = NotPruning]
  /\ overtaken' = [r \in Readers |-> overtaken[r] \cup Lost(r, n) \cup Untold(n)]
  /\ UNCHANGED <<backend, open, written, issued, cursor, begun, reading, served>>

-----------------------------------------------------------------------------
(* Reading.                                                                 *)

\* A cursor whose next row may be gone.  Mutant: the row just below the floor
\* is forgotten.
ExpiredLate(since) == since < floor - 2
Expired(since) == since < floor - 1

\* Where a read begins: the cursor, or the floor when there is none.
StartOf(since) == IF since = NoCursor THEN floor - 1 ELSE since

\* read(): the cursor is checked against the floor.  Without one the reading
\* begins anew at the floor.
ReadStart(r) ==
  /\ reading[r] = NoRead
  /\ cursor[r] # NoCursor => ~Expired(cursor[r])
  /\ reading' = [reading EXCEPT ![r] = StartOf(cursor[r])]
  /\ begun' = [begun EXCEPT ![r] = IF cursor[r] = NoCursor THEN StartOf(NoCursor) ELSE @]
  /\ UNCHANGED <<backend, table, retained, cursor, served, overtaken>>

\* cursor_expired: refused, and told to re-read the stores and resume at the
\* floor.
ReadRefused(r) ==
  /\ reading[r] = NoRead /\ cursor[r] # NoCursor /\ Expired(cursor[r])
  /\ cursor' = [cursor EXCEPT ![r] = floor - 1]
  /\ begun' = [begun EXCEPT ![r] = floor - 1]
  /\ UNCHANGED <<backend, table, retained, reading, served, overtaken>>

\* The rows of one page: the first PageSize above start.
Page(start) ==
  LET above == {s \in DOMAIN feed : s > start} IN
  {s \in above : Cardinality({t \in above : t < s}) < PageSize}

\* Whether a reader is shown a row of the page it scanned: _visible, _own and
\* only_kinds.
Visible(r, e) ==
  /\ e.kind \in Walled => r \in Cleared
  /\ (e.kind \in Scoped /\ r \in Children) => e.by = r
  /\ r \in Transport => e.kind \in KeyKinds

\* nextCursor: the last row scanned, shown or not, or the reader's own cursor
\* echoed back.  Mutant: the last row shown.
NextCursorShown(r, start) == Max({start} \cup {s \in Page(start) : Visible(r, feed[s])})
NextCursor(r, start) == Max({start} \cup Page(start))

ReadPage(r) ==
  /\ reading[r] # NoRead
  /\ cursor' = [cursor EXCEPT ![r] = NextCursor(r, reading[r])]
  /\ served' = [served EXCEPT ![r] = @ \cup Page(reading[r])]
  /\ reading' = [reading EXCEPT ![r] = NoRead]
  /\ UNCHANGED <<backend, table, retained, begun, overtaken>>

-----------------------------------------------------------------------------
FeedInit ==
  /\ backend \in {"sqlite", "postgres"}
  /\ feed = <<>> /\ open = {} /\ written = {} /\ issued = 0
  /\ floor = 1 /\ pruning = [p \in Pruners |-> NotPruning]
  /\ cursor = [r \in Readers |-> NoCursor]
  /\ begun = [r \in Readers |-> 0]
  /\ reading = [r \in Readers |-> NoRead]
  /\ served = [r \in Readers |-> {}]
  /\ overtaken = [r \in Readers |-> {}]

Write == \/ \E e \in Events : AppendEvent(e) \/ Insert(e)
         \/ \E o \in open : Commit(o) \/ Rollback(o)
Prune == \E p \in Pruners :
           (\E b \in Windows : PruneLook(p, b)) \/ PruneDecide(p) \/ PruneWrite(p)
Poll(r) == ReadStart(r) \/ ReadRefused(r) \/ ReadPage(r)

FeedNext == Write \/ Prune \/ \E r \in Readers : Poll(r)
=============================================================================
