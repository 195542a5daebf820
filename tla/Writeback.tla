----------------------------- MODULE Writeback -----------------------------
(***************************************************************************)
(* The write-back (src/agentco/writeback.py): a scheduled pass reads the   *)
(* feed forward from a cursor kept in a file and posts a notice of each    *)
(* parked or escalated item to the record it came from.  Nothing keeps two *)
(* passes apart, and the file is truncated before it is written.           *)
(***************************************************************************)
EXTENDS EventFeed

CONSTANTS Passes,   \* the processes that may run a pass
          Notified, \* NOTIFIED_KINDS
          MaxFaults \* bound on crashes, failed posts and overlapping passes

ASSUME BackAssumption == Notified \cap Walled = {} /\ MaxFaults \in Nat

VARIABLES file,     \* the cursor file: a number, or NoCursor: absent or empty
          pass,     \* each pass under way, with the events of its page
          posts,    \* how often each event's notice reached its origin
          dead,     \* the events in the dead-letter file
          late,     \* rows committed behind a cursor (Postgres)
          faults    \* how many of the bounded faults have happened

backVars == <<file, pass, posts, dead, late, faults>>

NoPage == [s \in {} |-> NoCursor]
NoPass == [at |-> "idle", start |-> NoCursor, cursor |-> NoCursor, page |-> NoPage]

Handled(n)   == posts[n] > 0 \/ n \in dead
Addressed(e) == e.kind \in Notified /\ e.origin \* notice_from
Active       == {w \in Passes : pass[w].at # "idle"}
Fault        == faults < MaxFaults /\ faults' = faults + 1

\* run(): the file is read and the cursor checked against the floor; without
\* one the pass begins, without a word, at the floor.  An expired cursor makes
\* every run raise until somebody removes the file.
BackStart(w) ==
  /\ pass[w].at = "idle"
  /\ file # NoCursor => ~Expired(file)
  /\ IF Active = {} THEN UNCHANGED faults ELSE Fault
  /\ pass' = [pass EXCEPT ![w] =
       [at |-> "checked", start |-> file, cursor |-> StartOf(file), page |-> NoPage]]
  /\ UNCHANGED <<file, posts, dead, late, feedVars>>

\* The page, read without a viewer: no walled row is in it, and nothing of
\* the pass moves past one that was scanned.
BackRead(w) ==
  LET rows == {n \in Page(pass[w].cursor) : feed[n].kind \notin Walled} IN
  /\ pass[w].at = "checked"
  /\ pass' = [pass EXCEPT ![w] = [at |-> "posting", start |-> @.start, cursor |-> @.start,
                                 page |-> [n \in rows |-> feed[n]]]]
  /\ UNCHANGED <<file, posts, dead, late, faults, feedVars>>

\* The event that a pass is at.
At(w) == Min(DOMAIN pass[w].page)

\* Mutant: a failure is passed over.
HaltedPast(w) == [pass EXCEPT ![w].cursor = At(w), ![w].page = NoPage]

Advanced(w) == [pass EXCEPT ![w].cursor = At(w),
                            ![w].page = [n \in DOMAIN @ \ {At(w)} |-> @[n]]]
Halted(w)   == [pass EXCEPT ![w].page = NoPage] \* the rest is for the next run
Told(n)     == [posts EXCEPT ![n] = @ + 1]

\* One event of the page: passed over, posted, or refused for ever and dead-
\* lettered.  Any other failure, also of the dead-letter file, ends the pass
\* with the cursor before the event; its post may have arrived all the same.
BackEvent(w) ==
  LET n == At(w)
      e == pass[w].page[n] IN
  /\ pass[w].at = "posting" /\ DOMAIN pass[w].page # {}
  /\ \/ ~Addressed(e) /\ pass' = Advanced(w) /\ UNCHANGED <<posts, dead, faults>>
     \/ Addressed(e) /\ pass' = Advanced(w) /\ posts' = Told(n) /\ UNCHANGED <<dead, faults>>
     \/ Addressed(e) /\ pass' = Advanced(w) /\ dead' = dead \cup {n} /\ UNCHANGED <<posts, faults>>
     \/ Addressed(e) /\ pass' = Halted(w) /\ posts' \in {posts, Told(n)} /\ Fault /\ UNCHANGED dead
  /\ UNCHANGED <<file, late, feedVars>>

\* write_cursor truncates the file and then writes it, if the cursor moved.
BackTruncate(w) ==
  /\ pass[w].at = "posting" /\ DOMAIN pass[w].page = {}
  /\ IF pass[w].cursor = pass[w].start
     THEN pass' = [pass EXCEPT ![w] = NoPass] /\ UNCHANGED file
     ELSE pass' = [pass EXCEPT ![w].at = "writing"] /\ file' = NoCursor
  /\ UNCHANGED <<posts, dead, late, faults, feedVars>>

BackWrite(w) ==
  /\ pass[w].at = "writing"
  /\ file' = pass[w].cursor
  /\ pass' = [pass EXCEPT ![w] = NoPass]
  /\ UNCHANGED <<posts, dead, late, faults, feedVars>>

BackCrash(w) ==
  /\ pass[w].at # "idle" /\ Fault
  /\ pass' = [pass EXCEPT ![w] = NoPass]
  /\ UNCHANGED <<file, posts, dead, late, feedVars>>

\* The operator removes the file of an expired cursor.
BackReset ==
  /\ file # NoCursor /\ Expired(file)
  /\ file' = NoCursor
  /\ UNCHANGED <<pass, posts, dead, late, faults, feedVars>>

BackStep(w) == BackStart(w) \/ BackRead(w) \/ BackEvent(w) \/ BackTruncate(w) \/ BackWrite(w)

\* A row that commits behind the floor, the file, or the last row of a page that
\* a pass has read: no later page holds it.
Behind(n) ==
  \/ n < floor \/ n <= file
  \/ \E w \in Active : \/ n <= pass[w].cursor
                       \/ \E s \in DOMAIN pass[w].page : n < s

WriteBeside ==
  \/ \E e \in Events : (AppendEvent(e) \/ Insert(e)) /\ UNCHANGED backVars
  \/ \E o \in open : Rollback(o) /\ UNCHANGED backVars
  \/ \E o \in open : /\ Commit(o)
                     /\ late' = late \cup (IF Behind(o.seq) THEN {o.seq} ELSE {})
                     /\ UNCHANGED <<file, pass, posts, dead, faults>>

BackInit ==
  /\ file = NoCursor /\ pass = [w \in Passes |-> NoPass]
  /\ posts = [n \in Seqs |-> 0] /\ dead = {} /\ late = {} /\ faults = 0

BackNext ==
  \/ WriteBeside
  \/ Prune /\ UNCHANGED backVars
  \/ \E w \in Passes : BackStep(w) \/ BackCrash(w)
  \/ BackReset
=============================================================================
