------------------------------- MODULE Memory -------------------------------
(***************************************************************************)
(* Shared memory (src/agentco/memory.py): labelled, versioned items with   *)
(* an append-only audit, and the engine's state and credits beside them.   *)
(* A write holds the store's lock from its read to its last line.  On the  *)
(* JSONL store its parts are separate files written one after the other;   *)
(* on the SQL stores they are one transaction, but the announcement goes   *)
(* out on the registry's connection, before that transaction commits.      *)
(***************************************************************************)
EXTENDS Clearance, MemoryEngine

CONSTANTS Ids,       \* the items' ids, numbers
          Published, \* those that are other hubs' items
          Callers,   \* the calls that may be under way, in any process
          Actors, Humans,
          HubGrants, \* AGENTCO_HUB_CLEARANCE
          ActorClearance, \* the key table's, by actor
          Labels, HubLabels, \* the labels a write, and another hub's record, may name
          Spaces, Contents,
          Hubs, Self, \* the hubs, and this one
          Traces,    \* the finished work items whose traces are reported
          Backends,  \* what AGENTCO_DB may select
          MaxVersion, MaxStrength, MaxAge, MaxFaults \* bounds

Rating == "rating" \* the trace_id of a rating or a revival

ASSUME MemoryAssumption ==
  /\ Ids \subseteq Nat /\ Published \subseteq Ids /\ Humans \subseteq Actors /\ Self \in Hubs
  /\ DOMAIN ActorClearance = Actors
  /\ Rating \notin Traces \* "work:" and an id, never "rating:"

VARIABLES backend,
          items,   \* the items file or table
          audit,   \* the audit: every row ever written of each item, in order
          states,  \* the engine's states
          ledger,  \* the credit rows: trace and item
          feed,    \* MemoryChanged: item and version
          call,    \* the write each caller has under way
          pending, \* what a replay pass has still to revive, and for whom
          credited, \* how often each trace's effect was stored
          faults,  \* deaths, and transactions beside one another
          lockedOut \* writes that failed on the lock their own process held

memoryVars ==
  <<backend, items, audit, states, ledger, feed, call, pending, credited, faults, lockedOut>>

NoItem   == [version |-> 0]
NoState  == [strength |-> 0 - 1]
Idle     == [todo |-> <<>>]
Held(i)  == items[i] # NoItem
Fault    == faults < MaxFaults /\ faults' = faults + 1

-----------------------------------------------------------------------------
(* Reading.                                                                 *)

Effective(a) == Narrow([grants |-> HubGrants, space |-> Root], ActorClearance[a])
CanSee(a, item) ==
  /\ Allows(Effective(a), item.owner, item.level)
  /\ SeesSpace(Effective(a), item.space)
Visible(a, i) == Held(i) /\ CanSee(a, items[i])
Seen(a) == {i \in Ids : Visible(a, i)}

\* _state_for: created on first use, in step with the item's pinned flag.
StateFor(i) ==
  LET s == IF states[i] = NoState THEN Initial(items[i].pinned) ELSE states[i] IN
  IF s.pinned = items[i].pinned THEN s
  ELSE [s EXCEPT !.pinned = items[i].pinned, !.cold = @ /\ ~items[i].pinned]

\* history: the last row of each version the item reached.
Reached(i) == {k \in DOMAIN audit[i] : audit[i][k].version <= items[i].version}
History(i) ==
  LET last(v) == Max({k \in Reached(i) : audit[i][k].version = v}) IN
  [v \in {audit[i][k].version : k \in Reached(i)} |-> audit[i][last(v)]]

-----------------------------------------------------------------------------
(* A write: what it found under the lock and what it has still to do.       *)

Active  == {w \in Callers : call[w].todo # <<>>}

\* A file lock and SQLite's write lock keep writes apart; Postgres locks the
\* rows that were read, and only those that are there.
Free(w, ids) ==
  /\ w \notin Active
  /\ IF backend = "postgres"
     THEN /\ \A o \in Active : call[o].locked \cap ids = {}
          /\ IF Active = {} THEN UNCHANGED faults ELSE Fault
     ELSE Active = {} /\ UNCHANGED faults

\* _record.  Mutant: the item before its audit row.
ItemFirst == <<"put", "audit", "announce">>
Record    == <<"audit", "put", "announce">>

Stages(new, st, rows) ==
  (IF new = {} THEN <<>> ELSE IF backend = "jsonl" THEN Record ELSE <<"announce">>) \o
  (IF backend # "jsonl" THEN <<"commit">>
   ELSE (IF st = <<>> THEN <<>> ELSE <<"states">>) \o (IF rows = {} THEN <<>> ELSE <<"credits">>))

\* Begin a write of item i: new is {} or {the item's new record}, st the new
\* states by item, rows the credit rows.
Begin(w, ids, new, st, rows) ==
  /\ Free(w, ids) /\ pending[w] = <<>>
  /\ call' = [call EXCEPT ![w] =
       [todo |-> Stages(new, st, rows), new |-> new, st |-> st, rows |-> rows,
        locked |-> {i \in ids : Held(i)}]]
  /\ UNCHANGED <<backend, items, audit, states, ledger, feed, pending, credited, lockedOut>>

Bumped(i)   == [items[i] EXCEPT !.version = @ + 1]
Writable(a, i) == Visible(a, i) /\ items[i].authority = Self /\ items[i].version < MaxVersion
Change(w, i, new) == Begin(w, {i}, {[id |-> i, record |-> new]}, <<>>, {})

-----------------------------------------------------------------------------
(* The operations.                                                          *)

Create(w, a, i, label, c) ==
  LET layer == IF label.owner = Public THEN "public" ELSE "shared" IN
  /\ i \notin Published /\ ~Held(i) /\ \A o \in Active : \A n \in call[o].new : n.id # i
  /\ audit[i] = <<>> \* a fresh id
  /\ Allows(Effective(a), label.owner, label.level)
  /\ Change(w, i, [version |-> 1, owner |-> label.owner, level |-> label.level, layer |-> layer,
                   authority |-> Self, content |-> c, pinned |-> FALSE, due |-> FALSE,
                   status |-> "active", space |-> Effective(a).space])

\* A revision is the re-check that a revived or down-rated item waits for.
Revise(w, a, i, c) ==
  /\ Writable(a, i) /\ items[i].status # "retired"
  /\ Begin(w, {i}, {[id |-> i, record |-> [Bumped(i) EXCEPT !.content = c]]},
           IF states[i] # NoState /\ states[i].reconsolidate
           THEN i :> Rechecked(states[i]) ELSE <<>>, {})

\* set_pinned: the item's flag; the engine's state is left as it is.
SetPinned(w, a, i, pinned) ==
  /\ a \in Humans /\ Writable(a, i)
  /\ Change(w, i, [Bumped(i) EXCEPT !.pinned = pinned, !.due = pinned])

\* set_space: up or down the item's own line.
SetSpace(w, a, i, to) ==
  /\ a \in Humans /\ Writable(a, i) /\ to # items[i].space
  /\ IsWithin(items[i].space, to) \/ IsWithin(to, items[i].space)
  /\ Change(w, i, [Bumped(i) EXCEPT !.space = to])

Retire(w, a, i) ==
  /\ a \in Humans /\ Writable(a, i) /\ items[i].status # "retired"
  /\ Change(w, i, [Bumped(i) EXCEPT !.status = "retired"])

\* apply_replica: a newer version from the item's one authority, at the root.
Newer(i, v) == v > items[i].version
ApplyReplica(w, i, hub, label, v, c) ==
  /\ hub # Self /\ (Held(i) \/ i \in Published)
  /\ Allows([grants |-> HubGrants, space |-> Root], label.owner, label.level)
  /\ Held(i) => /\ items[i].authority = hub
                /\ items[i].owner = label.owner /\ items[i].level = label.level
                /\ Newer(i, v)
  /\ Change(w, i, [version |-> v, owner |-> label.owner, level |-> label.level, layer |-> "shared",
                   authority |-> hub, content |-> c, pinned |-> FALSE, due |-> FALSE,
                   status |-> "active", space |-> Root])

\* record_trace: once per trace; the outcome is the work item's own.  Mutant:
\* the ledger is not asked.
UnseenAlways(t) == TRUE
Unseen(t)       == \A row \in ledger : row.trace # t
RecordTrace(w, a, t, outcome, invoked, retrieved) ==
  LET named == invoked \cup retrieved
      on    == {i \in named : items[i].status = "active"}
      after == [i \in on |-> Traced(StateFor(i), i \in invoked, outcome)] IN
  /\ named # {} /\ named \subseteq Seen(a)
  /\ Unseen(t)
  /\ \A i \in on : after[i].strength <= MaxStrength /\ after[i].age <= MaxAge
  /\ Begin(w, named, {}, after,
           {[trace |-> t, item |-> i] : i \in IF on = {} THEN {0} ELSE on})

Rate(w, a, i, up) ==
  /\ a \in Humans /\ Visible(a, i)
  /\ Rated(StateFor(i), up).strength <= MaxStrength
  /\ Begin(w, {i}, {}, i :> Rated(StateFor(i), up), {[trace |-> Rating, item |-> i]})

\* revive: a warm item is left alone.
Revive(w, a, i) ==
  /\ Visible(a, i) /\ StateFor(i).cold
  /\ Begin(w, {i}, {}, i :> Revived(StateFor(i)), {[trace |-> Rating, item |-> i]})

Reconsolidate(w, a, i) ==
  /\ Visible(a, i) /\ states[i] # Rechecked(StateFor(i))
  /\ Begin(w, {i}, {}, i :> Rechecked(StateFor(i)), {})

\* replay: the candidates are read first, and each is revived by itself.
ReplayRead(w, a) ==
  LET offered == {i \in Seen(a) : items[i].status # "retired"}
      chosen  == ReplayCandidates([i \in offered |-> StateFor(i)]) IN
  /\ a \in Humans /\ pending[w] = <<>> /\ w \notin Active /\ chosen # <<>>
  /\ pending' = [pending EXCEPT ![w] = [k \in DOMAIN chosen |-> [by |-> a, id |-> chosen[k]]]]
  /\ UNCHANGED <<backend, items, audit, states, ledger, feed, call, credited, faults, lockedOut>>

ReplayRevive(w) ==
  LET i    == Head(pending[w]).id
      st   == i :> Revived(StateFor(i))
      rows == {[trace |-> Rating, item |-> i]} IN
  /\ pending[w] # <<>> /\ Visible(Head(pending[w]).by, i) /\ Free(w, {i})
  /\ pending' = [pending EXCEPT ![w] = Tail(@)]
  /\ IF ~StateFor(i).cold THEN UNCHANGED call
     ELSE call' = [call EXCEPT ![w] =
            [todo |-> Stages({}, st, rows), new |-> {}, st |-> st, rows |-> rows, locked |-> {i}]]
  /\ UNCHANGED <<backend, items, audit, states, ledger, feed, credited, lockedOut>>

\* One it may no longer see is refused, and the rest of the pass goes with it.
ReplayRefused(w) ==
  /\ pending[w] # <<>> /\ w \notin Active
  /\ ~Visible(Head(pending[w]).by, Head(pending[w]).id)
  /\ pending' = [pending EXCEPT ![w] = <<>>]
  /\ UNCHANGED <<backend, items, audit, states, ledger, feed, call, credited, faults, lockedOut>>

-----------------------------------------------------------------------------
(* The steps of a write.                                                    *)

Rest(c)  == IF Len(c.todo) = 1 THEN Idle ELSE [c EXCEPT !.todo = Tail(c.todo)]
Done(w)  == [call EXCEPT ![w] = Rest(call[w])]
To(w, stage) == w \in Active /\ Head(call[w].todo) = stage
New(w, i) == {n.record : n \in {m \in call[w].new : m.id = i}}
Audited(w) == [i \in Ids |-> audit[i] \o SetToSeq(New(w, i))]
Put(w)     == [i \in Ids |-> CHOOSE r \in New(w, i) \cup {items[i]} : New(w, i) # {} => r \in New(w, i)]
PutStates(w) == [i \in Ids |-> IF i \in DOMAIN call[w].st THEN call[w].st[i] ELSE states[i]]
Credit(w) == [t \in Traces |-> credited[t] + IF \E row \in call[w].rows : row.trace = t THEN 1 ELSE 0]

\* _record: the audit row first, then the item.
WriteAudit(w) ==
  /\ To(w, "audit") /\ audit' = Audited(w) /\ call' = Done(w)
  /\ UNCHANGED <<backend, items, states, ledger, feed, pending, credited, faults, lockedOut>>

WriteItem(w) ==
  /\ To(w, "put") /\ items' = Put(w) /\ call' = Done(w)
  /\ UNCHANGED <<backend, audit, states, ledger, feed, pending, credited, faults, lockedOut>>

Announce(w) ==
  /\ To(w, "announce") /\ backend # "sqlite"
  /\ feed' = feed \cup {[item |-> n.id, version |-> n.record.version] : n \in call[w].new}
  /\ call' = Done(w)
  /\ UNCHANGED <<backend, items, audit, states, ledger, pending, credited, faults, lockedOut>>

\* On SQLite the registry is the same file, its write lock is this store's
\* own, and the append waits for it until it gives up.
LockedOut(w) ==
  /\ To(w, "announce") /\ backend = "sqlite"
  /\ call' = [call EXCEPT ![w] = Idle] /\ lockedOut' = TRUE
  /\ UNCHANGED <<backend, items, audit, states, ledger, feed, pending, credited, faults>>

WriteStates(w) ==
  /\ To(w, "states") /\ states' = PutStates(w) /\ credited' = Credit(w) /\ call' = Done(w)
  /\ UNCHANGED <<backend, items, audit, ledger, feed, pending, faults, lockedOut>>

WriteCredits(w) ==
  /\ To(w, "credits") /\ ledger' = ledger \cup call[w].rows /\ call' = Done(w)
  /\ UNCHANGED <<backend, items, audit, states, feed, pending, credited, faults, lockedOut>>

\* The primary keys: an item's version, and what a trace did to an item.
Taken(w) ==
  \/ \E n \in call[w].new : \E k \in DOMAIN audit[n.id] : audit[n.id][k].version = n.record.version
  \/ \E row \in call[w].rows : row.trace # Rating /\ row \in ledger

Commit(w) ==
  /\ To(w, "commit") /\ ~Taken(w)
  /\ audit' = Audited(w) /\ items' = Put(w) /\ states' = PutStates(w)
  /\ ledger' = ledger \cup call[w].rows /\ credited' = Credit(w)
  /\ call' = Done(w)
  /\ UNCHANGED <<backend, feed, pending, faults, lockedOut>>

RollBack(w) ==
  /\ To(w, "commit") /\ Taken(w)
  /\ call' = [call EXCEPT ![w] = Idle]
  /\ UNCHANGED <<backend, items, audit, states, ledger, feed, pending, credited, faults, lockedOut>>

\* The process dies; its lock, and an open transaction, go with it.
Die(w) ==
  /\ w \in Active \/ pending[w] # <<>>
  /\ Fault
  /\ call' = [call EXCEPT ![w] = Idle] /\ pending' = [pending EXCEPT ![w] = <<>>]
  /\ UNCHANGED <<backend, items, audit, states, ledger, feed, credited, lockedOut>>

-----------------------------------------------------------------------------
MemoryInit ==
  /\ backend \in Backends
  /\ items = [i \in Ids |-> NoItem] /\ audit = [i \in Ids |-> <<>>]
  /\ states = [i \in Ids |-> NoState] /\ ledger = {} /\ feed = {}
  /\ call = [w \in Callers |-> Idle] /\ pending = [w \in Callers |-> <<>>]
  /\ credited = [t \in Traces |-> 0] /\ faults = 0 /\ lockedOut = FALSE

Operate(w, a) ==
  \/ \E i \in Ids, label \in Labels, c \in Contents : Create(w, a, i, label, c)
  \/ \E i \in Ids, c \in Contents : Revise(w, a, i, c)
  \/ \E i \in Ids, pinned \in BOOLEAN : SetPinned(w, a, i, pinned)
  \/ \E i \in Ids, to \in Spaces : SetSpace(w, a, i, to)
  \/ \E i \in Ids : Retire(w, a, i) \/ Revive(w, a, i) \/ Reconsolidate(w, a, i)
  \/ \E i \in Ids, up \in BOOLEAN : Rate(w, a, i, up)
  \/ LET seen == Seen(a) IN
     \E t \in Traces, o \in Outcomes, invoked \in SUBSET seen :
       \E retrieved \in SUBSET (seen \ invoked) : RecordTrace(w, a, t, o, invoked, retrieved)
  \/ ReplayRead(w, a)

WriteStep(w) ==
  \/ WriteAudit(w) \/ WriteItem(w) \/ Announce(w) \/ LockedOut(w)
  \/ WriteStates(w) \/ WriteCredits(w) \/ Commit(w) \/ RollBack(w)

MemoryNext ==
  \E w \in Callers :
    \/ call[w].todo = <<>> /\ \E a \in Actors : Operate(w, a)
    \/ \E i \in Ids, hub \in Hubs, label \in HubLabels, v \in 1..MaxVersion, c \in Contents :
         ApplyReplica(w, i, hub, label, v, c)
    \/ ReplayRevive(w) \/ ReplayRefused(w) \/ WriteStep(w) \/ Die(w)

MemorySpec == MemoryInit /\ [][MemoryNext]_memoryVars
=============================================================================
