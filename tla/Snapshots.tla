----------------------------- MODULE Snapshots -----------------------------
(***************************************************************************)
(* Snapshots and the divergence digest (src/agentco/snapshots.py,          *)
(* divergence.py, delivery.py, digests.py): a participant records the      *)
(* version of an artifact; a digest pass reads the versions again, posts   *)
(* one text of all that moved, then appends an event for each snapshot and *)
(* marks it delivered.  The artifact and the resolver that reads it belong *)
(* to the world outside and change on their own.                           *)
(***************************************************************************)
EXTENDS Naturals, FiniteSetsExt

CONSTANTS Artifacts,  \* the URIs a snapshot may point at
          Refused,    \* those that admission_reason keeps from being followed
          Snaps,      \* the snapshots that may be taken, in the table's order
          Jobs,       \* the processes that may run a digest pass
          UriOf,      \* the artifact each snapshot points at
          Posting,    \* the jobs that post the digest (--deliver --post)
          Looking,    \* the jobs that may only look: GET /divergence, a dry run
          MaxVersion, \* bound on an artifact's versions
          MaxTrouble  \* bound on outages, crashes and overlapping passes

ASSUME SnapAssumption ==
  /\ Refused \subseteq Artifacts /\ Snaps \subseteq Nat /\ IsFiniteSet(Snaps) /\ IsFiniteSet(Jobs)
  /\ UriOf \in [Snaps -> Artifacts]

VARIABLES version,  \* the world: the version of each artifact, 1..MaxVersion
          reach,    \* the world: how a read of each artifact turns out
          snap,     \* the snapshots table
          job,      \* each pass under way
          told,     \* how many DivergenceObserved events name each snapshot
          posted,   \* how many posted digests name each snapshot
          trouble

snapVars == <<version, reach, snap, job, told, posted, trouble>>

Unread == 0 \* no version token: content_hash = ''
NoSnap == [state |-> "none"]
NoJob  == [at |-> "idle", rows |-> {}, moved |-> {}]

\* resolve(): "gone" is a ResolverError or a missing resolver, a reason and no
\* token; "down" is a timeout or a socket's error, which no caller catches.
Reaches == {"read", "gone", "down"}
Token(a) == IF a \in Refused \/ reach[a] = "gone" THEN Unread ELSE version[a]
Raises(a) == a \notin Refused /\ reach[a] = "down"

Trouble == trouble < MaxTrouble /\ trouble' = trouble + 1
AtWork  == {j \in Jobs : job[j].at # "idle"}

Live(n)   == snap[n].state = "live" \* in the table, not expired
Listed(n) == Live(n) /\ ~snap[n].delivered
Moved(n)  == Live(n) /\ snap[n].content # Unread /\ version[snap[n].uri] # snap[n].content

-----------------------------------------------------------------------------
\* take(): a pointer that cannot be read is recorded without a token.
Take(n) ==
  LET a == UriOf[n] IN
  /\ snap[n] = NoSnap /\ ~Raises(a)
  /\ snap' = [snap EXCEPT ![n] =
       [state |-> "live", uri |-> a, content |-> Token(a), delivered |-> FALSE]]
  /\ UNCHANGED <<version, reach, job, told, posted, trouble>>

Expire(n) ==
  /\ Live(n)
  /\ snap' = [snap EXCEPT ![n].state = "expired"]
  /\ UNCHANGED <<version, reach, job, told, posted, trouble>>

-----------------------------------------------------------------------------
(* A digest pass: collect, send, deliver (cmd_digest).                      *)

\* check_all's list is read once; what is taken or delivered later is not in it.
\* It is gone through from the first to the last.  Mutant: the first alone.
FirstRow == {n \in Snaps : Listed(n) /\ \A m \in Snaps : Listed(m) => n <= m}
Rows     == {n \in Snaps : Listed(n)}

JobStart(j) ==
  /\ job[j].at = "idle"
  /\ IF AtWork = {} THEN UNCHANGED trouble ELSE Trouble
  /\ job' = [job EXCEPT ![j] = [at |-> "checking", moved |-> {}, rows |-> Rows]]
  /\ UNCHANGED <<version, reach, snap, told, posted>>

\* One row: its token is read again.  (last_seen_hash and diverged_at, which it
\* writes, are read by no code.)
Check(j) ==
  LET n   == Min(job[j].rows)
      now == Token(snap[n].uri)
      moves == now # Unread /\ snap[n].content # Unread /\ now # snap[n].content IN
  /\ job[j].at = "checking" /\ job[j].rows # {}
  /\ ~Raises(snap[n].uri)
  /\ job' = [job EXCEPT ![j].rows = @ \ {n},
                        ![j].moved = IF moves THEN @ \cup {n} ELSE @]
  /\ UNCHANGED <<version, reach, snap, told, posted, trouble>>

\* An unreachable artifact ends the pass; the rows after it are not read.
CheckRaises(j) ==
  /\ job[j].at = "checking" /\ job[j].rows # {}
  /\ Raises(snap[Min(job[j].rows)].uri)
  /\ job' = [job EXCEPT ![j] = NoJob]
  /\ UNCHANGED <<version, reach, snap, told, posted, trouble>>

Collected(j) == job[j].at = "checking" /\ job[j].rows = {}
Naming(j)    == [n \in Snaps |-> posted[n] + IF n \in job[j].moved THEN 1 ELSE 0]

\* delivery.send comes before anything is marked.  The parent hub files it
\* under the child's name (digests.receive); the answer may be lost.
Send(j) ==
  /\ Collected(j)
  /\ \/ job' = [job EXCEPT ![j].at = "delivering"]
        /\ posted' = (IF j \in Posting THEN Naming(j) ELSE posted) /\ UNCHANGED trouble
     \/ /\ j \in Posting /\ Trouble
        /\ posted' \in {posted, Naming(j)}
        /\ job' = [job EXCEPT ![j] = NoJob]
  /\ UNCHANGED <<version, reach, snap, told>>

\* divergence.deliver: an event for each snapshot that moved ...
Announce(j) ==
  /\ job[j].at = "delivering" /\ job[j].moved # {}
  /\ told' = [told EXCEPT ![Min(job[j].moved)] = @ + 1]
  /\ job' = [job EXCEPT ![j].at = "marking"]
  /\ UNCHANGED <<version, reach, snap, posted, trouble>>

\* ... and then, in a transaction of its own, the mark that it was said.
\* Mutant: it is not marked.
MarkNothing(j) ==
  /\ job[j].at = "marking"
  /\ job' = [job EXCEPT ![j].at = "delivering", ![j].moved = @ \ {Min(@)}]
  /\ UNCHANGED <<version, reach, snap, told, posted, trouble>>

Mark(j) ==
  /\ job[j].at = "marking"
  /\ snap' = [snap EXCEPT ![Min(job[j].moved)].delivered = TRUE]
  /\ job' = [job EXCEPT ![j].at = "delivering", ![j].moved = @ \ {Min(@)}]
  /\ UNCHANGED <<version, reach, told, posted, trouble>>

JobDone(j) ==
  /\ job[j].at = "delivering" /\ job[j].moved = {}
  /\ job' = [job EXCEPT ![j] = NoJob]
  /\ UNCHANGED <<version, reach, snap, told, posted, trouble>>

\* GET /divergence, a pass without --deliver: nothing is said of what moved.
JobLooks(j) ==
  /\ Collected(j) /\ j \in Looking
  /\ job' = [job EXCEPT ![j] = NoJob]
  /\ UNCHANGED <<version, reach, snap, told, posted, trouble>>

JobCrash(j) ==
  /\ job[j].at # "idle" /\ Trouble
  /\ job' = [job EXCEPT ![j] = NoJob]
  /\ UNCHANGED <<version, reach, snap, told, posted>>

-----------------------------------------------------------------------------
(* The world.                                                               *)

Edit(a, v) ==
  /\ version[a] # v
  /\ version' = [version EXCEPT ![a] = v]
  /\ UNCHANGED <<reach, snap, job, told, posted, trouble>>

\* An artifact goes, an outage begins, or a connector is installed.
Turn(a, how) ==
  /\ reach[a] # how
  /\ IF how = "read" THEN UNCHANGED trouble ELSE Trouble
  /\ reach' = [reach EXCEPT ![a] = how]
  /\ UNCHANGED <<version, snap, job, told, posted>>

SnapInit ==
  /\ version = [a \in Artifacts |-> 1]
  /\ reach = [a \in Artifacts |-> "read"]
  /\ snap = [n \in Snaps |-> NoSnap]
  /\ job = [j \in Jobs |-> NoJob]
  /\ told = [n \in Snaps |-> 0] /\ posted = [n \in Snaps |-> 0] /\ trouble = 0

JobStep(j) ==
  \/ JobStart(j) \/ Check(j) \/ CheckRaises(j) \/ Send(j)
  \/ Announce(j) \/ Mark(j) \/ JobDone(j)

SnapNext ==
  \/ \E n \in Snaps : Take(n) \/ Expire(n)
  \/ \E j \in Jobs : JobStep(j) \/ JobLooks(j) \/ JobCrash(j)
  \/ \E a \in Artifacts : 
       \/ \E v \in 1..MaxVersion : Edit(a, v)
       \/ \E how \in Reaches : Turn(a, how)
=============================================================================
