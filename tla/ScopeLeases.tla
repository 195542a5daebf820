---------------------------- MODULE ScopeLeases ----------------------------
(***************************************************************************)
(* Scope claims (src/agentco/leases.py).  A claim reads the live leases of *)
(* its repository, works out whom it collides with, and only then inserts  *)
(* its own; the event of the claim, and for each conflict an event and a   *)
(* row of conflict_actions, follow in transactions of their own.  Nothing  *)
(* is refused for a conflict: what matters is that somebody is told.       *)
(***************************************************************************)
EXTENDS Scopes, FiniteSetsExt

CONSTANTS Actors,  \* the identities that claim
          Repos,
          Requests, \* the path sets a claim may name, as they are sent
          Leases   \* the leases an instance may open

\* A canonical path is made of the segments of the one that was sent.
ASSUME LeaseAssumption ==
  \A raws \in Requests : \A raw \in raws : Segments(raw) \in Seq(ToSet(raw))

VARIABLES lease,     \* the leases table
          call,      \* each actor's request under way
          fired,     \* the conflict_actions rows: <<lease, with>>, and if acted on
          feedRows,  \* the scope events on the feed
          answered,  \* the conflicts each claim's response reported
          beside     \* pairs of claims of which neither could read the other

leaseVars == <<lease, call, fired, feedRows, answered, beside>>

NoLease == [state |-> "none"]
Idle    == [at |-> "idle"]

\* live_leases: expiry is judged when the table is read, by no sweeper.
InTable(n)       == lease[n].state # "none"
IsLive(n)        == lease[n].state = "live"
LiveLeases(repo) == {lease[n] : n \in {m \in Leases : IsLive(m) /\ lease[m].scope.repo = repo}}

Claiming(n) == \E a \in Actors : call[a].at # "idle" /\ call[a].uid = n

-----------------------------------------------------------------------------
\* claim(): the scope and the holder are checked, the live leases are read.
\* A holder other than the caller is kept, and marked attested.
ClaimRead(a, n, holder, repo, raws) ==
  LET scope == [repo |-> repo, prefixes |-> Parsed(raws)]
      hits  == {l.uid : l \in FindConflicts(scope, holder, LiveLeases(repo))} IN
  /\ call[a] = Idle /\ ~InTable(n) /\ ~Claiming(n)
  /\ Parses(raws)
  /\ call' = [call EXCEPT ![a] =
       [at |-> "inserting", uid |-> n, holder |-> holder, scope |-> scope,
        hits |-> hits, left |-> hits, now |-> n]]
  /\ UNCHANGED <<lease, fired, feedRows, answered, beside>>

\* The insert.  Those who have read and not yet inserted never see it.
ClaimInsert(a) ==
  LET c == call[a] IN
  /\ c.at = "inserting"
  /\ lease' = [lease EXCEPT ![c.uid] =
       [state |-> "live", uid |-> c.uid, holder |-> c.holder,
        attested |-> c.holder # a, scope |-> c.scope]]
  /\ call' = [call EXCEPT ![a].at = "announcing"]
  /\ beside' = beside \cup
       {{c.uid, call[b].uid} : b \in {o \in Actors \ {a} : call[o].at = "inserting"}}
  /\ UNCHANGED <<fired, feedRows, answered>>

ClaimAnnounce(a) ==
  /\ call[a].at = "announcing"
  /\ feedRows' = feedRows \cup {[kind |-> "ScopeClaimed", uid |-> call[a].uid]}
  /\ call' = [call EXCEPT ![a].at = "warning"]
  /\ UNCHANGED <<lease, fired, answered, beside>>

\* For each conflict the event, and then the row of conflict_actions.
ClaimWarn(a, m) ==
  /\ call[a].at = "warning" /\ m \in call[a].left
  /\ feedRows' = feedRows \cup {[kind |-> "ScopeConflict", uid |-> call[a].uid, with |-> m]}
  /\ call' = [call EXCEPT ![a].at = "recording", ![a].left = @ \ {m}, ![a].now = m]
  /\ UNCHANGED <<lease, fired, answered, beside>>

ClaimRecord(a) ==
  /\ call[a].at = "recording"
  /\ fired' = fired \cup {[uid |-> call[a].uid, with |-> call[a].now, acted |-> FALSE]}
  /\ call' = [call EXCEPT ![a].at = "warning"]
  /\ UNCHANGED <<lease, feedRows, answered, beside>>

\* The response carries the conflicts.
ClaimAnswer(a) ==
  /\ call[a].at = "warning" /\ call[a].left = {}
  /\ answered' = [answered EXCEPT ![call[a].uid] = {call[a].hits}]
  /\ call' = [call EXCEPT ![a] = Idle]
  /\ UNCHANGED <<lease, fired, feedRows, beside>>

\* The process dies, or its answer is lost, between two of these writes.
CallLost(a) ==
  /\ call[a] # Idle
  /\ call' = [call EXCEPT ![a] = Idle]
  /\ UNCHANGED <<lease, fired, feedRows, answered, beside>>

-----------------------------------------------------------------------------
\* release(): only the holder, and a released lease is answered as a
\* duplicate; the row was read before the write.
ReleaseRead(a, n) ==
  /\ call[a] = Idle /\ InTable(n)
  /\ lease[n].state # "released" /\ lease[n].holder = a
  /\ call' = [call EXCEPT ![a] = [at |-> "releasing", uid |-> n]]
  /\ UNCHANGED <<lease, fired, feedRows, answered, beside>>

\* The lease and the conflicts it acted on, in one transaction.
ReleaseWrite(a) ==
  LET n == call[a].uid IN
  /\ call[a].at = "releasing"
  /\ lease' = [lease EXCEPT ![n].state = "released"]
  /\ fired' = {IF f.uid = n THEN [f EXCEPT !.acted = TRUE] ELSE f : f \in fired}
  /\ call' = [call EXCEPT ![a].at = "released"]
  /\ UNCHANGED <<feedRows, answered, beside>>

ReleaseAnnounce(a) ==
  /\ call[a].at = "released"
  /\ feedRows' = feedRows \cup {[kind |-> "ScopeReleased", uid |-> call[a].uid]}
  /\ call' = [call EXCEPT ![a] = Idle]
  /\ UNCHANGED <<lease, fired, answered, beside>>

\* The lease's time runs out.
Lapse(n) ==
  /\ IsLive(n)
  /\ lease' = [lease EXCEPT ![n].state = "lapsed"]
  /\ UNCHANGED <<call, fired, feedRows, answered, beside>>

-----------------------------------------------------------------------------
\* conflicts_for: what an actor's own live leases collide with, read anew.
ConflictsFor(a) ==
  UNION {{<<n, l.uid>> : l \in FindConflicts(lease[n].scope, a, LiveLeases(lease[n].scope.repo))} :
         n \in {m \in Leases : IsLive(m) /\ lease[m].holder = a}}

LeaseInit ==
  /\ lease = [n \in Leases |-> NoLease] /\ call = [a \in Actors |-> Idle]
  /\ fired = {} /\ feedRows = {} /\ beside = {}
  /\ answered = [n \in Leases |-> {}]

CallStep(a) ==
  \/ ClaimInsert(a) \/ ClaimAnnounce(a) \/ (\E m \in Leases : ClaimWarn(a, m))
  \/ ClaimRecord(a) \/ ClaimAnswer(a) \/ ReleaseWrite(a) \/ ReleaseAnnounce(a)

LeaseNext ==
  \/ \E a \in Actors, n \in Leases :
       \/ \E h \in Actors, repo \in Repos, raws \in Requests : ClaimRead(a, n, h, repo, raws)
       \/ ReleaseRead(a, n)
  \/ \E a \in Actors : CallStep(a) \/ CallLost(a)
  \/ \E n \in Leases : Lapse(n)
=============================================================================
