------------------------------- MODULE Outbox -------------------------------
(***************************************************************************)
(* The outbox of agentco/outbox.py: agents append lines to a file, and a   *)
(* drainer publishes them to the hub, writes receipts and takes out what   *)
(* was answered.                                                           *)
(*                                                                         *)
(* `push` appends a line under the file lock in one step.  The drainer     *)
(* holds the file lock twice, in claim_batch and in settle, and each time  *)
(* reads the file first and replaces files later; between the two it       *)
(* talks to the hub without it.  A crash may come between any two of its   *)
(* steps and releases both locks.  The file is a set: each line has an id  *)
(* of its own, and the drainer sends its lines here in any order.          *)
(***************************************************************************)
EXTENDS Naturals, FiniteSets

CONSTANTS
  Lines,     \* well-formed lines
  Fragments, \* what a writer leaves that dies within a write, or writes garbage
  Raw,       \* the lines appended without the lock, by a shell's >>
  Keyed,     \* the lines the hub takes once: their id is the idempotency key
  Drainers,
  MaxFaults  \* model bound: crashes and transport failures in a behaviour

ASSUME OutboxConstants ==
  /\ Lines \cap Fragments = {}
  /\ Raw \subseteq Lines /\ Keyed \subseteq Lines
  /\ MaxFaults \in Nat

VARIABLES
  written,     \* every entry ever appended (history)
  outbox,      \* the entries in outbox.jsonl
  quarantined, \* the entries in outbox.quarantine.jsonl
  receipts,    \* the entries in receipts.jsonl
  hub,         \* [Lines -> Nat]: how often a line took effect
  drain,       \* [Drainers -> Drain]
  faults       \* how many failures there have been

ovars == <<written, outbox, quarantined, receipts, hub, drain, faults>>

Entries == Lines \cup Fragments
Terminal == {"published", "refused"}
Receipts == [entry: Entries, state: Terminal \cup {"retryable", "quarantined"}]

\* good, bad: the file as read under the lock; batch: the lines still to send;
\* answers: the receipts not yet written.
Phases == {"idle", "quarantine", "sweep", "publish", "receipt", "settle"}
Drain == [phase: Phases, good: SUBSET Lines, bad: SUBSET Fragments,
          batch: SUBSET Lines, answers: SUBSET Receipts]
Idle == [phase |-> "idle", good |-> {}, bad |-> {}, batch |-> {}, answers |-> {}]

OutboxTypeOK ==
  /\ written \subseteq Entries /\ outbox \subseteq Entries
  /\ quarantined \subseteq Fragments
  /\ receipts \subseteq Receipts
  /\ hub \in [Lines -> Nat]
  /\ drain \in [Drainers -> Drain]
  /\ faults \in Nat

Good == outbox \cap Lines
Bad == outbox \cap Fragments
Settled(answers) == {r.entry : r \in {s \in answers : s.state \in Terminal}}

-----------------------------------------------------------------------------
(* The writers.                                                            *)

FileLocked ==
  \E d \in Drainers : drain[d].phase \in {"quarantine", "sweep", "receipt", "settle"}

Write(e) ==
  /\ e \notin written
  /\ written' = written \cup {e}
  /\ outbox' = outbox \cup {e}
  /\ UNCHANGED <<quarantined, receipts, hub, drain, faults>>

Push(l) == l \in Lines \ Raw /\ ~FileLocked /\ Write(l)

\* A push that dies within its write; the next line starts on a fresh one.
TornPush(f) == f \in Fragments /\ ~FileLocked /\ Write(f)

\* The way of a harness without the package: it knows nothing of the lock.
\* (Behind a fragment it would join that line; the set of entries has no tail.)
Append(l) == l \in Raw /\ Write(l)

-----------------------------------------------------------------------------
(* claim_batch.                                                            *)

\* Mutant: drainers do not exclude each other.
BeginAlongside(d) ==
  /\ drain[d].phase = "idle" /\ outbox # {} /\ ~FileLocked
  /\ drain' = [drain EXCEPT ![d] = [Idle EXCEPT !.phase = "publish", !.batch = Good]]
  /\ UNCHANGED <<written, outbox, quarantined, receipts, hub, faults>>

\* One drainer at a time: a second one finds the drain lock taken and does
\* nothing.  It reads the file under the file lock.
Begin(d) ==
  /\ outbox # {}
  /\ \A e \in Drainers : drain[e].phase = "idle"
  /\ drain' = [drain EXCEPT ![d] =
                 [phase |-> IF Bad = {} THEN "publish" ELSE "quarantine",
                  good |-> Good, bad |-> Bad, batch |-> Good, answers |-> {}]]
  /\ UNCHANGED <<written, outbox, quarantined, receipts, hub, faults>>

Quarantine(d) ==
  /\ drain[d].phase = "quarantine"
  /\ quarantined' = quarantined \cup drain[d].bad
  /\ drain' = [drain EXCEPT ![d].phase = "sweep"]
  /\ UNCHANGED <<written, outbox, receipts, hub, faults>>

\* The outbox without what was moved, and a receipt for each that was.
Sweep(d) ==
  /\ drain[d].phase = "sweep"
  /\ outbox' = drain[d].good
  /\ drain' = [drain EXCEPT
                 ![d].phase = "publish",
                 ![d].answers = [entry: drain[d].bad, state: {"quarantined"}]]
  /\ UNCHANGED <<written, quarantined, receipts, hub, faults>>

-----------------------------------------------------------------------------
(* Publishing.                                                             *)

Answer(d, l, state) ==
  drain' = [drain EXCEPT ![d].batch = @ \ {l},
                         ![d].answers = @ \cup {[entry |-> l, state |-> state]}]

\* The hub has the line's id on record and answers from there.
Recorded(l) == l \in Keyed /\ hub[l] > 0

TakesEffect(l) == hub' = IF Recorded(l) THEN hub ELSE [hub EXCEPT ![l] = @ + 1]

Sending(d, l) == drain[d].phase = "publish" /\ l \in drain[d].batch

Published(d, l) ==
  /\ Sending(d, l)
  /\ TakesEffect(l)
  /\ Answer(d, l, "published")
  /\ UNCHANGED <<written, outbox, quarantined, receipts, faults>>

\* The registry says no; to a line it knows it says what it said before.
Refused(d, l) ==
  /\ Sending(d, l)
  /\ ~Recorded(l)
  /\ Answer(d, l, "refused")
  /\ UNCHANGED <<written, outbox, quarantined, receipts, hub, faults>>

Fault == faults < MaxFaults /\ faults' = faults + 1

\* Mutant: a transport failure is taken for an answer.
UnansweredIsRefused(d, l) ==
  /\ Sending(d, l)
  /\ Fault
  /\ hub' = hub \/ TakesEffect(l)
  /\ Answer(d, l, "refused")
  /\ UNCHANGED <<written, outbox, quarantined, receipts>>

\* Nothing came back: the request was lost, or its answer.
Unanswered(d, l) ==
  /\ Sending(d, l)
  /\ Fault
  /\ hub' = hub \/ TakesEffect(l)
  /\ Answer(d, l, "retryable")
  /\ UNCHANGED <<written, outbox, quarantined, receipts>>

-----------------------------------------------------------------------------
(* settle.                                                                 *)

\* Mutant: the file is taken to be the one that was claimed.
SettleClaimed(d) ==
  /\ drain[d].phase = "publish" /\ drain[d].batch = {}
  /\ drain' = [drain EXCEPT ![d].phase = "receipt"]
  /\ UNCHANGED <<written, outbox, quarantined, receipts, hub, faults>>

\* The file is read again under the lock: lines came in during the drain.
Settle(d) ==
  /\ drain[d].phase = "publish" /\ drain[d].batch = {}
  /\ drain' = [drain EXCEPT ![d].phase = "receipt",
                            ![d].good = Good, ![d].bad = Bad]
  /\ UNCHANGED <<written, outbox, quarantined, receipts, hub, faults>>

\* Receipts first, then the lines go.
WriteReceipts(d) ==
  /\ drain[d].phase = "receipt"
  /\ receipts' = receipts \cup drain[d].answers
  /\ drain' = [drain EXCEPT ![d].phase = "settle"]
  /\ UNCHANGED <<written, outbox, quarantined, hub, faults>>

\* Mutant: only what could not be read is taken out.
TakeOutBad(d) ==
  /\ drain[d].phase = "settle"
  /\ outbox' = drain[d].good
  /\ drain' = [drain EXCEPT ![d] = Idle]
  /\ UNCHANGED <<written, quarantined, receipts, hub, faults>>

\* What was not readable goes with what was settled.
TakeOut(d) ==
  LET settled == Settled(drain[d].answers)
  IN  /\ drain[d].phase = "settle"
      /\ outbox' = IF settled # {} \/ drain[d].bad # {}
                     THEN drain[d].good \ settled ELSE outbox
      /\ drain' = [drain EXCEPT ![d] = Idle]
      /\ UNCHANGED <<written, quarantined, receipts, hub, faults>>

\* The drainer dies; the system takes back both of its locks.
Crash(d) ==
  /\ drain[d].phase # "idle"
  /\ Fault
  /\ drain' = [drain EXCEPT ![d] = Idle]
  /\ UNCHANGED <<written, outbox, quarantined, receipts, hub>>

-----------------------------------------------------------------------------

OutboxInit ==
  /\ written = {} /\ outbox = {} /\ quarantined = {} /\ receipts = {}
  /\ hub = [l \in Lines |-> 0]
  /\ drain = [d \in Drainers |-> Idle]
  /\ faults = 0

Writers ==
  \/ \E l \in Lines : Push(l) \/ Append(l)
  \/ \E f \in Fragments : TornPush(f)

DrainStep(d) ==
  \/ Begin(d) \/ Quarantine(d) \/ Sweep(d)
  \/ \E l \in Lines : Published(d, l) \/ Refused(d, l) \/ Unanswered(d, l)
  \/ Settle(d) \/ WriteReceipts(d) \/ TakeOut(d)

OutboxNext == Writers \/ \E d \in Drainers : DrainStep(d) \/ Crash(d)

OutboxSpec == OutboxInit /\ [][OutboxNext]_ovars
=============================================================================
