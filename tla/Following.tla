----------------------------- MODULE Following -----------------------------
(***************************************************************************)
(* How a harness keeps its procedures up to date: the library announces    *)
(* every change on the feed after the change has landed (sop.py), and the   *)
(* sync that runs at a session's start (src/agentco/sync.py) follows the    *)
(* feed by a cursor of its own, fetches what the feed names, and saves the  *)
(* cursor last.                                                             *)
(***************************************************************************)
EXTENDS EventFeed

CONSTANTS Procs,     \* the procedures
          Syncs,     \* the syncs that may run over one cache
          MaxEdits,  \* bound on the changes to the library
          MaxDeaths  \* bound on the syncs that die

ASSUME FollowAssumption == MaxEdits \in Nat /\ MaxDeaths \in Nat

VARIABLES active,  \* the edit that made the active version of each, or none
          edits,   \* the changes to the library so far
          saying,  \* announcements under way
          said,    \* the last edit of each that was announced
          cache,   \* the harness's copies, by the edit
          mark,    \* its saved cursor
          sync,    \* what each sync has in hand
          unsaid,  \* the procedures one announcement of which failed
          spoiled, \* those the harness lost sight of in another way
          deaths

followVars == <<active, edits, saying, said, cache, mark, sync, unsaid, spoiled, deaths>>
library    == <<active, edits, saying>>

NotActive == 0
Resting   == [at |-> "idle", alone |-> TRUE]

-----------------------------------------------------------------------------
(* The library.  The announcement is a call of its own.                      *)

\* A change to p that leaves the version of the edit now active.
EditLibrary(p, kind, now) ==
  /\ edits < MaxEdits
  /\ edits' = edits + 1
  /\ active' = [active EXCEPT ![p] = now]
  /\ saying' = saying \cup {[kind |-> kind, asop |-> p, edit |-> edits + 1]}
  /\ UNCHANGED <<feedVars, said, cache, mark, sync, unsaid, spoiled, deaths>>

\* create, propose; activate; retire.
Drafted(p)   == EditLibrary(p, "AsopVersioned", active[p])
Activated(p) == EditLibrary(p, "AsopActivated", edits + 1)
Retired(p)   == active[p] # NotActive /\ EditLibrary(p, "AsopRetired", NotActive)

\* _announced: the row, or nothing when it fails.  Two may cross.
AnnounceEdit(n) ==
  /\ AppendEvent([kind |-> n.kind, asop |-> n.asop, at |-> issued + 1, by |-> "hub", origin |-> FALSE])
  /\ saying' = saying \ {n}
  /\ said' = [said EXCEPT ![n.asop] = Max({@, n.edit})]
  /\ spoiled' = spoiled \cup (IF n.edit < said[n.asop] THEN {n.asop} ELSE {})
  /\ UNCHANGED <<active, edits, cache, mark, sync, unsaid, deaths>>

AnnounceFails(n) ==
  /\ saying' = saying \ {n} /\ unsaid' = unsaid \cup {n.asop}
  /\ UNCHANGED <<feedVars, active, edits, said, cache, mark, sync, spoiled, deaths>>

\* A prune may take rows the harness has not read.
FeedPrune ==
  /\ Prune
  /\ spoiled' = spoiled \cup {feed[s].asop : s \in {n \in DOMAIN feed \ DOMAIN feed' : n > mark}}
  /\ UNCHANGED <<library, said, cache, mark, sync, unsaid, deaths>>

-----------------------------------------------------------------------------
(* One pass (Sync.once): nothing keeps two apart.                            *)

SyncLeaves == UNCHANGED <<feedVars, library, said, unsaid>>

\* The page after the saved cursor.  An expired cursor raises, now and ever.
SyncRead(y) ==
  LET start == StartOf(mark)
      busy  == {z \in Syncs : sync[z].at # "idle"} IN
  /\ sync[y].at = "idle" /\ (mark # NoCursor => ~Expired(mark))
  /\ sync' = [z \in Syncs |->
       IF z = y THEN [at |-> "applying", alone |-> busy = {}, next |-> NextCursor(y, start),
                      todo |-> [s \in Page(start) |-> feed[s]], got |-> NotActive]
       ELSE IF z \in busy THEN [sync[z] EXCEPT !.alone = FALSE] ELSE sync[z]]
  /\ SyncLeaves /\ UNCHANGED <<cache, mark, spoiled, deaths>>

\* The first row of the page still in hand, and the pass without it.
Row(y)     == sync[y].todo[Min(DOMAIN sync[y].todo)]
Past(y)    == [sync[y] EXCEPT !.at = "applying", !.got = NotActive,
                               !.todo = [s \in DOMAIN @ \ {Min(DOMAIN @)} |-> @[s]]]
SyncMoves(y, next) == sync' = [sync EXCEPT ![y] = next]
RowsLeft(y) == sync[y].at = "applying" /\ DOMAIN sync[y].todo # {}

\* A copy written or dropped; with another pass beside it may be the older one.
Cached(y, now) ==
  /\ cache' = [cache EXCEPT ![Row(y).asop] = now]
  /\ spoiled' = spoiled \cup (IF sync[y].alone THEN {} ELSE {Row(y).asop})
  /\ SyncMoves(y, Past(y))
  /\ SyncLeaves /\ UNCHANGED <<mark, deaths>>

SyncDrop(y) == RowsLeft(y) /\ Row(y).kind = "AsopRetired" /\ Cached(y, NotActive)

\* The active version is fetched; with none the copy stays.
SyncFetch(y) ==
  LET now == active[Row(y).asop] IN
  /\ RowsLeft(y) /\ Row(y).kind # "AsopRetired"
  /\ SyncMoves(y, IF now = NotActive THEN Past(y)
                   ELSE [sync[y] EXCEPT !.at = "putting", !.got = now])
  /\ SyncLeaves /\ UNCHANGED <<cache, mark, spoiled, deaths>>

SyncPut(y) == sync[y].at = "putting" /\ Cached(y, sync[y].got)

\* The fetch fails: the copy stays, and the pass goes on past the row.
SyncSkip(y) ==
  /\ RowsLeft(y) /\ Row(y).kind # "AsopRetired"
  /\ spoiled' = spoiled \cup {Row(y).asop}
  /\ SyncMoves(y, Past(y))
  /\ SyncLeaves /\ UNCHANGED <<cache, mark, deaths>>

\* The cursor is saved last.  Mutant: whatever happened to the page.
PageAnyhow(y) == TRUE
PageDone(y)   == DOMAIN sync[y].todo = {}

SyncSave(y) ==
  /\ sync[y].at = "applying" /\ PageDone(y)
  /\ mark' = sync[y].next
  /\ SyncMoves(y, Resting)
  /\ SyncLeaves /\ UNCHANGED <<cache, spoiled, deaths>>

SyncDies(y) ==
  /\ sync[y].at # "idle" /\ deaths < MaxDeaths
  /\ deaths' = deaths + 1
  /\ SyncMoves(y, Resting)
  /\ SyncLeaves /\ UNCHANGED <<cache, mark, spoiled>>

-----------------------------------------------------------------------------
FollowInit ==
  /\ active = [p \in Procs |-> NotActive] /\ edits = 0 /\ saying = {}
  /\ said = active /\ cache = active /\ mark = NoCursor
  /\ sync = [y \in Syncs |-> Resting]
  /\ unsaid = {} /\ spoiled = {} /\ deaths = 0

SyncStep(y) ==
  SyncRead(y) \/ SyncDrop(y) \/ SyncFetch(y) \/ SyncPut(y) \/ SyncSkip(y) \/ SyncSave(y)

FollowNext ==
  \/ \E p \in Procs : Drafted(p) \/ Activated(p) \/ Retired(p)
  \/ \E n \in saying : AnnounceEdit(n) \/ AnnounceFails(n)
  \/ FeedPrune
  \/ \E y \in Syncs : SyncStep(y) \/ SyncDies(y)
=============================================================================
