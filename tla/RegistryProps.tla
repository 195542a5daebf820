---------------------------- MODULE RegistryProps ----------------------------
(***************************************************************************)
(* What must hold of the registry database's tables: the feed and those   *)
(* who read it, the snapshots, the scope leases, the signed answers, the   *)
(* schema, the work table and the log of calls.                             *)
(* A liveness property speaks of the behaviours that exercise its part.    *)
(***************************************************************************)
EXTENDS Registry

(* The feed. *)

\* A reader that was not refused has been given every row between where it
\* began and its cursor, but for those that a step between its own two took
\* away, or put there on Postgres: a floor, never a silent gap (events.read,
\* prune).
NoSilentGap ==
  \A r \in Readers : cursor[r] # NoCursor =>
    written \cap ((begun[r] + 1)..cursor[r]) \subseteq served[r] \cup overtaken[r]

\* A reader that keeps polling is shown every row it may see, however many
\* rows it may not see stand before it: nextCursor moves past those too
\* (events.read).
FollowersCatchUp ==
  \A r \in Readers, s \in Seqs :
    (part = "feed" /\ s \in DOMAIN feed /\ Visible(r, feed[s])) ~>
      (s \in served[r] \cup overtaken[r] \/ s \notin DOMAIN feed \/ (cursor[r] # NoCursor /\ s <= begun[r]))

(* The write-back. *)

\* The cursor file never passes a row whose notice was neither posted nor
\* dead-lettered, whatever failed or died (writeback.run).
HandledBeforePassed ==
  \A s \in DOMAIN feed : s <= file /\ Addressed(feed[s]) => Handled(s) \/ s \in late

\* The page after the cursor is full of rows the write-back is not shown.
Walls == \E from \in {StartOf(file)} :
  Cardinality(Page(from)) = PageSize /\ \A s \in Page(from) : feed[s].kind \in Walled

\* Every addressed row is handled in the end, unless it is pruned, its cursor
\* expires or a page of walled rows stands before it.
OriginsAreTold ==
  \A s \in Seqs :
    (part = "writeback" /\ s \in DOMAIN feed /\ Addressed(feed[s])) ~>
      (Handled(s) \/ s \notin DOMAIN feed \/ s \in late \/ Expired(file) \/ Walls)

(* The snapshots. *)

\* A movement is announced, and a digest that names it posted, once; again
\* only after a crash, a lost answer or a pass beside another.  Nothing is
\* marked delivered before it was announced, nor, by a job that posts, before
\* its digest was (divergence.deliver, cmd_digest's order).
MovementSaidOnce ==
  \A n \in Snaps :
    /\ told[n] <= 1 + trouble /\ posted[n] <= 1 + trouble
    /\ snap[n].state # "none" /\ snap[n].delivered
         => told[n] > 0 /\ (Posting = Jobs => posted[n] > 0)

\* A movement from the version a snapshot recorded is announced in the end, so
\* long as every artifact that may be followed can be read and it does not
\* move back (check_all, deliver).
MovementIsSaid ==
  \A n \in Snaps : Moved(n) ~>
    \/ told[n] > 0 \/ ~Moved(n)
    \/ \E a \in Artifacts : reach[a] # "read" /\ a \notin Refused

(* The scope leases. *)

\* A path of the scope's directory tree that lies under both prefixes.
Shared(a, b) == \E p \in {a, b} : IsPrefix(a, p) /\ IsPrefix(b, p)

\* Of two live leases of different holders that share a directory one claim
\* was answered with the other, unless its answer is under way or was lost,
\* or each was inserted before the other could be read (leases.claim).
OverlapIsTold ==
  \A m, n \in Leases :
    (/\ m # n /\ IsLive(m) /\ IsLive(n) /\ lease[m].holder # lease[n].holder
     /\ lease[m].scope.repo = lease[n].scope.repo
     /\ \E p \in lease[m].scope.prefixes, q \in lease[n].scope.prefixes : Shared(p, q))
    => \/ {m, n} \in beside
       \/ \E t \in {<<m, n>>, <<n, m>>} :
            answered[t[1]] = {} \/ \E hits \in answered[t[1]] : t[2] \in hits

(* The signed answers. *)

Landings(n) == Cardinality({e \in Envelopes : NonceOf[e] = n /\ landed[e] > 0})

\* An answer takes effect at most once, however often it is carried, across
\* crashes, and after its nonce row is collected (envelope.submit, attest).  An
\* applied row's answer landed; one that was refused, held or superseded did
\* not, unless a call died, two ran at once (envelope._settle), or its row was
\* collected while its issued_at was still fresh (MAX_FUTURE_S).
AnswersStand ==
  /\ \A e \in Envelopes : landed[e] <= 1 /\ Landings(NonceOf[e]) <= 1
  /\ \A n \in Nonces :
       /\ row[n].status = "applied" => Landings(n) = 1
       /\ row[n].status \in {"refused", "held", "expired"} /\ cuts = 0 /\ n \notin forgot
            => Landings(n) = 0

(* The harness's procedures. *)

CaughtUp == ~Expired(mark) /\ Page(StartOf(mark)) = {}
Settled(p) == /\ \A y \in Syncs : sync[y].at = "idle"
              /\ \A n \in saying : n.asop # p

\* A harness that has read the feed to its end holds the active version of
\* every procedure and no other, though a sync died half way - unless an
\* announcement was lost or crossed another, a fetch failed, a prune took a
\* row first or two syncs ran at once (Sync.once, save_cursor).
CacheIsFollowed ==
  CaughtUp => \A p \in Procs :
    Settled(p) /\ p \notin unsaid \cup spoiled => cache[p] = active[p]

\* A missed announcement costs a cycle: with the harness polling for ever its
\* copy is put right, or another change comes.  This is what _announced says
\* (src/agentco/sop.py:380-384), and the code does not keep it.
MissIsClosed ==
  \A p \in Procs :
    (p \in unsaid /\ cache[p] # active[p]) ~>
      (cache[p] = active[p] \/ p \in spoiled \/ \E n \in saying : n.asop = p)

(* The schema. *)

\* What the ledger names is there, whole and in order, and nothing else is but
\* the tables of a database older than the ledger; the legacy procedures are
\* there once their migration is.  An open database has every migration its
\* release knows, each was applied by one process, and on SQLite nobody's
\* start fails for another's (migrations.apply).
SchemaIsWhole ==
  /\ ledger \subseteq schema /\ schema \ ledger \subseteq {1}
  /\ \A v \in ledger : 1..v \subseteq ledger
  /\ copied = IF Upgrade \in ledger THEN Legacy \ Unreadable ELSE {}
  /\ \A s \in Openers :
       /\ opener[s].at = "open" => 1..Knows[s] \subseteq ledger
       /\ \A o \in Openers \ {s} : opener[s].newly \cap opener[o].newly = {}
       /\ engine = "sqlite" => opener[s].at # "failed"

(* The work table. *)

\* No write of a row is refused for another's: FOR UPDATE, the advisory lock on
\* the natural key and BEGIN IMMEDIATE keep them apart, the compare-and-swap
\* is never what stops one (_mutate, create).
NoneFailsTheRace == \A h \in Hands : trans[h].at # "failed"

\* An open parent waits for each of its open children; on Postgres, unless a
\* write of the parent read it beside another's (create's read of blocked_by,
\* the cascade's read of a container).
ChildrenHoldTheirParent ==
  \A r \in DOMAIN stored :
    LET p == ItemParent[r] IN
    p # NoParent /\ ~IsDone(stored, r) /\ ~IsDone(stored, p)
      => r \in stored[p].waits \/ (engine = "postgres" /\ p \in crossed)

\* A run whose steps are all done is closed, or given another step: by the write
\* that finished the last of them, or, where two finished at once on Postgres,
\* by the next beat (SqlQueue._mutate, close_finished_runs).
RunsClose ==
  \A c \in Runs :
    LET complete == /\ c \in DOMAIN stored /\ Kids(stored, c) # {}
                    /\ \A k \in Kids(stored, c) : IsDone(stored, k)
    IN  (part = "work" /\ complete) ~> (IsDone(stored, c) \/ ~complete)

(* The log of calls. *)

\* A recorded call is a row or is counted in its day, not both, through deaths
\* and calls that go on coming, and a publishing call is a row for ever; a
\* prune run beside another is all that counts one twice
\* (roll_up_and_prune_calls).
CallsAreKept ==
  \A c \in made :
    /\ c \in logged <=> daily[c] = 0
    /\ c \in Publishing => c \in logged
    /\ daily[c] <= 1 \/ c \in coread

-----------------------------------------------------------------------------
(* A subscriber polls; a scheduler runs the write-back, the digest and the  *)
(* pulse; a harness starts sessions; and a transaction that has begun goes   *)
(* on: for ever.                                                            *)

FairRegistrySpec ==
  /\ RegistrySpec
  /\ \A r \in Readers : WF_registryVars(FeedPart(Poll(r)))
  /\ \A w \in Passes : WF_registryVars(BackPart(BackStep(w)))
  /\ \A j \in Jobs : WF_registryVars(SnapPart(JobStep(j)))
  /\ \A j \in Jobs \ Looking : SF_registryVars(SnapPart(JobStart(j)))
  /\ \A y \in Syncs : WF_registryVars(FollowPart(SyncStep(y)))
  /\ \A h \in Hands : WF_registryVars(WorkPart(Statement(h))) /\ SF_registryVars(WorkPart(SweepRead(h)))
=============================================================================
