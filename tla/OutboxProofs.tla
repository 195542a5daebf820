---------------------------- MODULE OutboxProofs ----------------------------
(***************************************************************************)
(* Proofs about the outbox: pushed lines do not vanish, and effects are    *)
(* repeated only after a failure.                                          *)
(***************************************************************************)
EXTENDS OutboxProps, TLAPS

-----------------------------------------------------------------------------
(* The inductive invariant.                                                *)

Locking == {"quarantine", "sweep", "receipt", "settle"}
SentIn(d, l) == [entry |-> l, state |-> "published"] \in drain[d].answers
RefusedIn(d, l) == [entry |-> l, state |-> "refused"] \in drain[d].answers

\* The locks: one drain at a time, and nothing of it is left when it is over.
OneDrain ==
  /\ \A d, e \in Drainers : drain[d].phase # "idle" /\ drain[e].phase # "idle" => d = e
  /\ \A d \in Drainers : drain[d].phase = "idle" => drain[d] = Idle

\* What a drain read is still there, and what it answered it does not send.
ReadsHold ==
  /\ outbox \subseteq written
  /\ \A d \in Drainers :
       /\ drain[d].good \subseteq outbox /\ drain[d].batch \subseteq drain[d].good
       /\ \A r \in drain[d].answers : r.entry \notin drain[d].batch
       /\ drain[d].phase \in {"quarantine", "sweep"} => drain[d].answers = {}

\* While the file is locked, every pushed line in it was read.
LockedFileIsRead ==
  \A d \in Drainers :
    drain[d].phase \in Locking => (outbox \cap Lines) \ Raw \subseteq drain[d].good

\* Lines leave only after their receipts are written.
ReceiptsComeFirst ==
  \A d \in Drainers : drain[d].phase = "settle" => drain[d].answers \subseteq receipts

\* A line that may be sent again took effect once per failure at most.
RepeatsAreExcused ==
  \A l \in Lines :
    /\ l \in Keyed => hub[l] <= 1
    /\ hub[l] <= 1 + faults
    /\ l \notin written => hub[l] = 0
    /\ l \in outbox /\ (\A d \in Drainers : ~SentIn(d, l)) => hub[l] <= faults

OutboxInv ==
  OutboxTypeOK /\ OneDrain /\ ReadsHold /\ LockedFileIsRead /\ ReceiptsComeFirst
    /\ RepeatsAreExcused /\ NothingPushedVanishes

-----------------------------------------------------------------------------
(* Types.                                                                  *)

LEMMA OutboxInitTypeOK == OutboxInit => OutboxTypeOK
<1> SUFFICES ASSUME OutboxInit PROVE OutboxTypeOK
  OBVIOUS
<1>1. Idle \in Drain
  BY DEF Idle, Drain, Phases
<1> QED
  BY <1>1 DEF OutboxInit, OutboxTypeOK

\* A drain that answers a line is still a drain.
LEMMA AnswerType ==
  ASSUME OutboxTypeOK, NEW d \in Drainers, NEW l \in Lines,
         NEW state \in {"published", "refused", "retryable"},
         Answer(d, l, state)
  PROVE  drain' \in [Drainers -> Drain]
<1>1. [entry |-> l, state |-> state] \in Receipts
  BY DEF Receipts, Entries, Terminal
<1>2. drain[d] \in Drain
  BY DEF OutboxTypeOK
<1> DEFINE after == [drain[d] EXCEPT !.batch = @ \ {l},
                                     !.answers = @ \cup {[entry |-> l, state |-> state]}]
<1>3. after \in Drain
  BY <1>1, <1>2 DEF Drain
<1>4. drain' = [drain EXCEPT ![d] = after]
  BY DEF Answer, OutboxTypeOK
<1> QED
  BY <1>3, <1>4 DEF OutboxTypeOK

LEMMA EffectType ==
  ASSUME OutboxTypeOK, NEW l \in Lines, hub' = hub \/ TakesEffect(l)
  PROVE  hub' \in [Lines -> Nat]
BY DEF OutboxTypeOK, TakesEffect

LEMMA FaultType == ASSUME OutboxTypeOK, Fault PROVE faults' \in Nat
BY DEF OutboxTypeOK, Fault

LEMMA DrainTypeOK ==
  ASSUME OutboxTypeOK, NEW d \in Drainers, DrainStep(d) \/ Crash(d)
  PROVE  OutboxTypeOK'
<1> USE DEF OutboxTypeOK
<1>0. drain[d] \in Drain /\ Good \subseteq Lines /\ Bad \subseteq Fragments /\ Idle \in Drain
  BY DEF Good, Bad, Idle, Drain, Phases
<1>1. CASE Begin(d)
  <2>1. [phase |-> IF Bad = {} THEN "publish" ELSE "quarantine",
         good |-> Good, bad |-> Bad, batch |-> Good, answers |-> {}] \in Drain
    BY <1>0 DEF Drain, Phases
  <2> QED
    BY <1>1, <2>1 DEF Begin
<1>2. CASE Quarantine(d)
  <2>1. [drain[d] EXCEPT !.phase = "sweep"] \in Drain /\ drain[d].bad \subseteq Fragments
    BY <1>0 DEF Drain, Phases
  <2>2. drain' = [drain EXCEPT ![d] = [drain[d] EXCEPT !.phase = "sweep"]]
    BY <1>2 DEF Quarantine
  <2> QED
    BY <1>2, <2>1, <2>2 DEF Quarantine
<1>3. CASE Sweep(d)
  <2> DEFINE moved == [entry: drain[d].bad, state: {"quarantined"}]
             after == [drain[d] EXCEPT !.phase = "publish", !.answers = moved]
  <2>1. drain[d].bad \subseteq Fragments /\ drain[d].good \subseteq Lines
    BY <1>0 DEF Drain
  <2>2. moved \subseteq Receipts
    BY <2>1 DEF Receipts, Entries
  <2>3. after \in Drain
    BY <1>0, <2>2 DEF Drain, Phases
  <2>4. drain' = [drain EXCEPT ![d] = after]
    BY <1>3 DEF Sweep
  <2> QED
    BY <1>3, <2>1, <2>3, <2>4 DEF Sweep, Entries
<1>4. CASE \E l \in Lines : Published(d, l) \/ Refused(d, l) \/ Unanswered(d, l)
  <2>1. PICK l \in Lines : Published(d, l) \/ Refused(d, l) \/ Unanswered(d, l)
    BY <1>4
  <2>2. CASE Published(d, l)
    BY <2>2, AnswerType, EffectType DEF Published
  <2>3. CASE Refused(d, l)
    BY <2>3, AnswerType DEF Refused
  <2>4. CASE Unanswered(d, l)
    BY <2>4, AnswerType, EffectType, FaultType DEF Unanswered
  <2> QED
    BY <2>1, <2>2, <2>3, <2>4
<1>5. CASE Settle(d)
  <2> DEFINE after == [drain[d] EXCEPT !.phase = "receipt", !.good = Good, !.bad = Bad]
  <2>1. after \in Drain
    BY <1>0 DEF Drain, Phases
  <2>2. drain' = [drain EXCEPT ![d] = after]
    BY <1>5 DEF Settle
  <2> QED
    BY <1>5, <2>1, <2>2 DEF Settle
<1>6. CASE WriteReceipts(d)
  <2>1. [drain[d] EXCEPT !.phase = "settle"] \in Drain /\ drain[d].answers \subseteq Receipts
    BY <1>0 DEF Drain, Phases
  <2>2. drain' = [drain EXCEPT ![d] = [drain[d] EXCEPT !.phase = "settle"]]
    BY <1>6 DEF WriteReceipts
  <2> QED
    BY <1>6, <2>1, <2>2 DEF WriteReceipts
<1>7. CASE TakeOut(d)
  <2>1. drain[d].good \subseteq Lines
    BY <1>0 DEF Drain
  <2> QED
    BY <1>0, <1>7, <2>1 DEF TakeOut, Entries
<1>8. CASE Crash(d)
  BY <1>0, <1>8, FaultType DEF Crash
<1> QED
  BY <1>1, <1>2, <1>3, <1>4, <1>5, <1>6, <1>7, <1>8 DEF DrainStep

LEMMA WriteTypeOK ==
  ASSUME OutboxTypeOK, Writers
  PROVE  OutboxTypeOK'
BY DEF Writers, Push, Append, TornPush, Write, OutboxTypeOK, Entries

\* Files, receipts, effects and drains have their types, whatever is written
\* and wherever a drainer dies.
THEOREM OutboxTypeCorrect == OutboxSpec => []OutboxTypeOK
<1>1. OutboxTypeOK /\ [OutboxNext]_ovars => OutboxTypeOK'
  <2> SUFFICES ASSUME OutboxTypeOK, [OutboxNext]_ovars PROVE OutboxTypeOK'
    OBVIOUS
  <2>1. CASE UNCHANGED ovars
    BY <2>1 DEF ovars, OutboxTypeOK
  <2> QED
    BY <2>1, DrainTypeOK, WriteTypeOK DEF OutboxNext
<1> QED
  BY <1>1, OutboxInitTypeOK, PTL DEF OutboxSpec

-----------------------------------------------------------------------------
(* The invariant is inductive.                                             *)

LEMMA OutboxInitInv == OutboxInit => OutboxInv
<1> SUFFICES ASSUME OutboxInit PROVE OutboxInv
  OBVIOUS
<1>1. \A d \in Drainers : drain[d] = Idle
  BY DEF OutboxInit
<1> QED
  BY <1>1, OutboxInitTypeOK
     DEF OutboxInit, OutboxInv, OneDrain, ReadsHold, LockedFileIsRead, ReceiptsComeFirst,
         RepeatsAreExcused, NothingPushedVanishes, SentIn, Idle, Locking

\* A new entry is nothing to any drain.
LEMMA WritersKeepInv ==
  ASSUME OutboxInv, Writers
  PROVE  OutboxInv'
<1>1. PICK e \in Entries : /\ Write(e)
                           /\ e \in Raw \/ ~FileLocked
  BY DEF Writers, Push, Append, TornPush, Entries
<1>2. OutboxTypeOK'
  BY WriteTypeOK DEF OutboxInv
<1> USE DEF OutboxInv
<1>3. OneDrain'
  BY <1>1 DEF Write, OneDrain
<1>4. ReadsHold'
  BY <1>1 DEF Write, ReadsHold
<1>5. LockedFileIsRead'
  BY <1>1 DEF Write, LockedFileIsRead, FileLocked, Locking
<1>6. ReceiptsComeFirst'
  BY <1>1 DEF Write, ReceiptsComeFirst
<1>7. RepeatsAreExcused'
  BY <1>1 DEF Write, RepeatsAreExcused, SentIn, OutboxTypeOK
<1>8. NothingPushedVanishes'
  BY <1>1 DEF Write, NothingPushedVanishes
<1> QED
  BY <1>2, <1>3, <1>4, <1>5, <1>6, <1>7, <1>8

\* A step of one drain that keeps the outbox and sends nothing new: what it
\* must respect for the invariant to hold after it.
LEMMA QuietDrainKeepsInv ==
  ASSUME OutboxInv, OutboxTypeOK', NEW d \in Drainers, NEW after,
         drain' = [drain EXCEPT ![d] = after],
         UNCHANGED <<written, outbox, hub, faults>>,
         receipts \subseteq receipts',
         \A e \in Drainers \ {d} : drain[e].phase = "idle",
         after.phase # "idle",
         after.good \subseteq outbox, after.batch \subseteq after.good,
         \A r \in after.answers : r.entry \notin after.batch,
         after.phase \in {"quarantine", "sweep"} => after.answers = {},
         after.phase \in Locking => (outbox \cap Lines) \ Raw \subseteq after.good,
         after.phase = "settle" => after.answers \subseteq receipts',
         \A l \in Lines : SentIn(d, l) => [entry |-> l, state |-> "published"] \in after.answers
  PROVE  OutboxInv'
<1>0. /\ drain'[d] = after
      /\ \A e \in Drainers \ {d} : drain'[e] = drain[e]
  BY DEF OutboxInv, OutboxTypeOK
<1> USE DEF OutboxInv
<1>1. OneDrain'
  BY <1>0 DEF OneDrain
<1>2. ReadsHold'
  BY <1>0 DEF ReadsHold
<1>3. LockedFileIsRead'
  BY <1>0 DEF LockedFileIsRead
<1>4. ReceiptsComeFirst'
  BY <1>0 DEF ReceiptsComeFirst
<1>5. RepeatsAreExcused'
  <2>1. \A l \in Lines : (\A e \in Drainers : ~SentIn(e, l)') => \A e \in Drainers : ~SentIn(e, l)
    BY <1>0 DEF SentIn
  <2> QED
    BY <2>1 DEF RepeatsAreExcused
<1>6. NothingPushedVanishes'
  BY DEF NothingPushedVanishes, Settled
<1> QED
  BY <1>1, <1>2, <1>3, <1>4, <1>5, <1>6

\* Who is draining drains alone.
LEMMA Alone ==
  ASSUME OutboxInv, NEW d \in Drainers, drain[d].phase # "idle"
  PROVE  \A e \in Drainers \ {d} : drain[e].phase = "idle" /\ drain[e] = Idle
BY DEF OutboxInv, OneDrain

LEMMA ReadingKeepsInv ==
  ASSUME OutboxInv, NEW d \in Drainers, Begin(d) \/ Settle(d)
  PROVE  OutboxInv'
<1>1. OutboxTypeOK'
  BY DrainTypeOK DEF OutboxInv, DrainStep
<1>2. CASE Begin(d)
  <2> DEFINE after == [phase |-> IF Bad = {} THEN "publish" ELSE "quarantine",
                       good |-> Good, bad |-> Bad, batch |-> Good, answers |-> {}]
  <2>1. drain' = [drain EXCEPT ![d] = after]
    BY <1>2 DEF Begin
  <2>2. \A l \in Lines : ~SentIn(d, l)
    BY <1>2 DEF Begin, OutboxInv, OneDrain, Idle, SentIn
  <2>3. /\ after.phase \in {"publish", "quarantine"}
        /\ after.good = Good /\ after.batch = Good /\ after.answers = {}
    OBVIOUS
  <2> HIDE DEF after
  <2> QED
    BY <1>1, <1>2, <2>1, <2>2, <2>3, QuietDrainKeepsInv DEF Begin, Good
<1>3. CASE Settle(d)
  <2> DEFINE after == [drain[d] EXCEPT !.phase = "receipt", !.good = Good, !.bad = Bad]
  <2>1. drain' = [drain EXCEPT ![d] = after]
    BY <1>3 DEF Settle, OutboxInv, OutboxTypeOK
  <2>2. drain[d] \in Drain
    BY DEF OutboxInv, OutboxTypeOK
  <2>3. /\ after.phase = "receipt" /\ after.good = Good
        /\ after.batch = drain[d].batch /\ after.answers = drain[d].answers
    BY <2>2 DEF Drain
  <2>4. \A e \in Drainers \ {d} : drain[e].phase = "idle"
    BY <1>3, Alone DEF Settle
  <2>5. /\ drain[d].batch \subseteq Good
        /\ \A r \in drain[d].answers : r.entry \notin drain[d].batch
    BY <2>2 DEF OutboxInv, ReadsHold, Good, Drain
  <2> HIDE DEF after
  <2> QED
    BY <1>1, <1>3, <2>1, <2>3, <2>4, <2>5, QuietDrainKeepsInv DEF Settle, Good, SentIn
<1> QED
  BY <1>2, <1>3

LEMMA FilingKeepsInv ==
  ASSUME OutboxInv, NEW d \in Drainers, Quarantine(d) \/ WriteReceipts(d)
  PROVE  OutboxInv'
<1>1. OutboxTypeOK'
  BY DrainTypeOK DEF OutboxInv, DrainStep
<1>2. drain[d] \in Drain /\ \A e \in Drainers \ {d} : drain[e].phase = "idle"
  BY Alone DEF OutboxInv, OutboxTypeOK, Quarantine, WriteReceipts
<1>3. /\ drain[d].good \subseteq outbox /\ drain[d].batch \subseteq drain[d].good
      /\ \A r \in drain[d].answers : r.entry \notin drain[d].batch
      /\ drain[d].phase = "quarantine" => drain[d].answers = {}
      /\ (outbox \cap Lines) \ Raw \subseteq drain[d].good
  BY DEF OutboxInv, ReadsHold, LockedFileIsRead, Locking, Quarantine, WriteReceipts
<1>4. CASE Quarantine(d)
  <2> DEFINE after == [drain[d] EXCEPT !.phase = "sweep"]
  <2>1. drain' = [drain EXCEPT ![d] = after]
    BY <1>4 DEF Quarantine, OutboxInv, OutboxTypeOK
  <2>2. /\ after.phase = "sweep" /\ after.good = drain[d].good
        /\ after.batch = drain[d].batch /\ after.answers = drain[d].answers
    BY <1>2 DEF Drain
  <2> HIDE DEF after
  <2> QED
    BY <1>1, <1>2, <1>3, <1>4, <2>1, <2>2, QuietDrainKeepsInv DEF Quarantine, SentIn
<1>5. CASE WriteReceipts(d)
  <2> DEFINE after == [drain[d] EXCEPT !.phase = "settle"]
  <2>1. drain' = [drain EXCEPT ![d] = after]
    BY <1>5 DEF WriteReceipts, OutboxInv, OutboxTypeOK
  <2>2. /\ after.phase = "settle" /\ after.good = drain[d].good
        /\ after.batch = drain[d].batch /\ after.answers = drain[d].answers
    BY <1>2 DEF Drain
  <2> HIDE DEF after
  <2> QED
    BY <1>1, <1>2, <1>3, <1>5, <2>1, <2>2, QuietDrainKeepsInv DEF WriteReceipts, SentIn
<1> QED
  BY <1>4, <1>5

\* A drain that takes entries out: the files and answers it leaves.
LEMMA ShrinkingKeepsInv ==
  ASSUME OutboxInv, OutboxTypeOK', NEW d \in Drainers, NEW after,
         drain' = [drain EXCEPT ![d] = after],
         UNCHANGED <<written, hub, faults, receipts>>,
         \A e \in Drainers \ {d} : drain[e] = Idle,
         outbox' \subseteq outbox,
         \A l \in (outbox \cap Lines) \ Raw : l \in outbox' \/ l \in Settled(receipts),
         \A l \in Lines : SentIn(d, l) => l \notin outbox',
         \/ after = Idle
         \/ /\ after.phase = "publish" /\ after.good = outbox'
            /\ after.batch \subseteq after.good
            /\ \A r \in after.answers : r.entry \notin after.batch
  PROVE  OutboxInv'
<1>0. /\ drain'[d] = after
      /\ \A e \in Drainers \ {d} : drain'[e] = Idle
  BY DEF OutboxInv, OutboxTypeOK
<1> USE DEF OutboxInv
<1>1. /\ Idle.phase = "idle" /\ Idle.good = {} /\ Idle.batch = {} /\ Idle.answers = {}
      /\ after.phase = "idle" => after = Idle
  BY DEF Idle
<1>2. OneDrain'
  BY <1>0, <1>1 DEF OneDrain
<1>3. ReadsHold'
  BY <1>0, <1>1 DEF ReadsHold
<1>4. LockedFileIsRead'
  BY <1>0, <1>1 DEF LockedFileIsRead, Locking
<1>5. ReceiptsComeFirst'
  BY <1>0, <1>1 DEF ReceiptsComeFirst
<1>6. RepeatsAreExcused'
  <2>1. \A l \in Lines : l \in outbox' => \A e \in Drainers : ~SentIn(e, l)
    BY <1>1 DEF SentIn
  <2> QED
    BY <2>1 DEF RepeatsAreExcused
<1>7. NothingPushedVanishes'
  BY DEF NothingPushedVanishes, OutboxInv, ReadsHold
<1> QED
  BY <1>2, <1>3, <1>4, <1>5, <1>6, <1>7

LEMMA RemovingKeepsInv ==
  ASSUME OutboxInv, NEW d \in Drainers, Sweep(d) \/ TakeOut(d)
  PROVE  OutboxInv'
<1>1. OutboxTypeOK'
  BY DrainTypeOK DEF OutboxInv, DrainStep
<1>2. drain[d] \in Drain /\ \A e \in Drainers \ {d} : drain[e] = Idle
  BY Alone DEF OutboxInv, OutboxTypeOK, Sweep, TakeOut
<1>3. /\ drain[d].good \subseteq outbox /\ drain[d].batch \subseteq drain[d].good
      /\ (outbox \cap Lines) \ Raw \subseteq drain[d].good
      /\ drain[d].phase = "sweep" => drain[d].answers = {}
      /\ drain[d].phase = "settle" => drain[d].answers \subseteq receipts
  BY DEF OutboxInv, ReadsHold, LockedFileIsRead, ReceiptsComeFirst, Locking, Sweep, TakeOut
<1>4. CASE Sweep(d)
  <2> DEFINE moved == [entry: drain[d].bad, state: {"quarantined"}]
             after == [drain[d] EXCEPT !.phase = "publish", !.answers = moved]
  <2>1. drain' = [drain EXCEPT ![d] = after]
    BY <1>4 DEF Sweep, OutboxInv, OutboxTypeOK
  <2>2. /\ after.phase = "publish" /\ after.good = drain[d].good
        /\ after.batch = drain[d].batch /\ after.answers = moved
    BY <1>2 DEF Drain
  <2>3. \A r \in moved : r.entry \notin drain[d].batch
    BY <1>2, OutboxConstants DEF Drain
  <2>4. \A l \in Lines : ~SentIn(d, l)
    BY <1>3, <1>4 DEF Sweep, SentIn
  <2> HIDE DEF moved, after
  <2> QED
    BY <1>1, <1>2, <1>3, <1>4, <2>1, <2>2, <2>3, <2>4, ShrinkingKeepsInv DEF Sweep
<1>5. CASE TakeOut(d)
  <2>1. Settled(drain[d].answers) \subseteq Settled(receipts)
    BY <1>3, <1>5 DEF TakeOut, Settled
  <2>2. \A l \in Lines : SentIn(d, l) => l \in Settled(drain[d].answers)
    <3> SUFFICES ASSUME NEW l \in Lines, SentIn(d, l) PROVE l \in Settled(drain[d].answers)
      OBVIOUS
    <3> DEFINE r == [entry |-> l, state |-> "published"]
    <3>1. r \in drain[d].answers /\ r.state \in Terminal /\ r.entry = l
      BY DEF SentIn, Terminal
    <3> QED
      BY <3>1 DEF Settled
  <2>3. outbox' \subseteq outbox /\ outbox' \cap Settled(drain[d].answers) = {}
    BY <1>3, <1>5 DEF TakeOut
  <2>4. \A l \in (outbox \cap Lines) \ Raw : l \in outbox' \/ l \in Settled(receipts)
    BY <1>3, <1>5, <2>1 DEF TakeOut
  <2> QED
    BY <1>1, <1>2, <1>5, <2>2, <2>3, <2>4, ShrinkingKeepsInv DEF TakeOut
<1> QED
  BY <1>4, <1>5

LEMMA CrashKeepsInv ==
  ASSUME OutboxInv, NEW d \in Drainers, Crash(d)
  PROVE  OutboxInv'
<1>1. OutboxTypeOK'
  BY DrainTypeOK DEF OutboxInv
<1>2. \A e \in Drainers : drain'[e] = Idle
  BY Alone DEF Crash, OutboxInv, OutboxTypeOK
<1>3. /\ Idle.phase = "idle" /\ Idle.good = {} /\ Idle.batch = {} /\ Idle.answers = {}
      /\ faults' = faults + 1 /\ UNCHANGED <<written, outbox, hub, receipts>>
  BY DEF Idle, Crash, Fault
<1>4. OneDrain' /\ ReadsHold'
  BY <1>2, <1>3 DEF OneDrain, ReadsHold, OutboxInv
<1>5. LockedFileIsRead' /\ ReceiptsComeFirst'
  BY <1>2, <1>3 DEF LockedFileIsRead, ReceiptsComeFirst, Locking
<1>6. RepeatsAreExcused'
  BY <1>3 DEF RepeatsAreExcused, OutboxInv, OutboxTypeOK
<1>7. NothingPushedVanishes'
  BY <1>3 DEF NothingPushedVanishes, OutboxInv, Settled
<1> QED
  BY <1>1, <1>4, <1>5, <1>6, <1>7 DEF OutboxInv

LEMMA SendingKeepsInv ==
  ASSUME OutboxInv, NEW d \in Drainers, NEW l \in Lines,
         Published(d, l) \/ Refused(d, l) \/ Unanswered(d, l)
  PROVE  OutboxInv'
<1>1. OutboxTypeOK'
  BY DrainTypeOK DEF OutboxInv, DrainStep
<1>2. /\ drain[d] \in Drain /\ drain[d].phase = "publish"
      /\ \A e \in Drainers \ {d} : drain[e] = Idle
      /\ l \in drain[d].batch
  BY Alone DEF OutboxInv, OutboxTypeOK, Published, Refused, Unanswered, Sending
<1>3. PICK state \in {"published", "refused", "retryable"} :
        /\ Answer(d, l, state)
        /\ state = "published" => Published(d, l)
        /\ state # "published" => Refused(d, l) \/ Unanswered(d, l)
  BY DEF Published, Refused, Unanswered
<1> DEFINE told == [entry |-> l, state |-> state]
           after == [drain[d] EXCEPT !.batch = @ \ {l}, !.answers = @ \cup {told}]
<1>4. /\ drain'[d] = after
      /\ \A e \in Drainers \ {d} : drain'[e] = Idle
  BY <1>2, <1>3 DEF Answer, OutboxInv, OutboxTypeOK
<1>5. /\ after.phase = "publish" /\ after.good = drain[d].good
      /\ after.batch = drain[d].batch \ {l} /\ after.answers = drain[d].answers \cup {told}
      /\ told.entry = l /\ told.state = state
  BY <1>2 DEF Drain
<1> HIDE DEF told, after
<1>6. /\ Idle.phase = "idle" /\ Idle.good = {} /\ Idle.batch = {} /\ Idle.answers = {}
      /\ UNCHANGED <<written, outbox, receipts>>
  BY DEF Idle, Published, Refused, Unanswered
<1> USE DEF OutboxInv
<1>7. OneDrain'
  BY <1>2, <1>4, <1>5, <1>6 DEF OneDrain
<1>8. ReadsHold'
  BY <1>2, <1>4, <1>5, <1>6 DEF ReadsHold
<1>9. LockedFileIsRead' /\ ReceiptsComeFirst'
  BY <1>2, <1>4, <1>5, <1>6 DEF LockedFileIsRead, ReceiptsComeFirst, Locking
<1>10. NothingPushedVanishes'
  BY <1>6 DEF NothingPushedVanishes, Settled
<1>11. RepeatsAreExcused'
  \* Before the step the line was not answered in this drain, so its effects
  \* are excused; nothing else changes for the others.
  <2>1. l \in outbox /\ l \in written /\ \A e \in Drainers : ~SentIn(e, l)
    <3>1. [entry |-> l, state |-> "published"].entry = l
      OBVIOUS
    <3> QED
      BY <1>2, <1>6, <3>1 DEF ReadsHold, SentIn
  <2>2. hub \in [Lines -> Nat] /\ faults \in Nat /\ hub[l] <= faults
    BY <2>1 DEF RepeatsAreExcused, OutboxTypeOK
  <2>3. \A j \in Lines \ {l} : hub'[j] = hub[j] /\ faults <= faults'
    BY <2>2 DEF Published, Refused, Unanswered, TakesEffect, Fault
  <2>4. /\ hub'[l] <= 1 + faults'
        /\ l \in Keyed => hub'[l] <= 1
        /\ state # "published" => hub'[l] <= faults'
    <3>1. CASE Published(d, l) /\ state = "published"
      BY <2>2, <3>1 DEF Published, TakesEffect, Recorded, RepeatsAreExcused
    <3>2. CASE Refused(d, l)
      BY <2>2, <3>2 DEF Refused, RepeatsAreExcused
    <3>3. CASE Unanswered(d, l)
      BY <2>2, <3>3 DEF Unanswered, Fault, TakesEffect, Recorded, RepeatsAreExcused
    <3> QED
      BY <1>3, <3>1, <3>2, <3>3
  <2>5. \A j \in Lines : (\A e \in Drainers : ~SentIn(e, j)') => \A e \in Drainers : ~SentIn(e, j)
    BY <1>2, <1>4, <1>5, <1>6 DEF SentIn
  <2>6. state = "published" => SentIn(d, l)'
    BY <1>4, <1>5 DEF SentIn, told
  <2>7. faults' \in Nat /\ hub' \in [Lines -> Nat]
    BY <1>1 DEF OutboxTypeOK
  <2> QED
    BY <1>6, <2>1, <2>2, <2>3, <2>4, <2>5, <2>6, <2>7 DEF RepeatsAreExcused
<1> QED
  BY <1>1, <1>7, <1>8, <1>9, <1>10, <1>11

LEMMA OutboxStepKeepsInv == OutboxInv /\ [OutboxNext]_ovars => OutboxInv'
<1> SUFFICES ASSUME OutboxInv, [OutboxNext]_ovars PROVE OutboxInv'
  OBVIOUS
<1>1. CASE UNCHANGED ovars
  BY <1>1 DEF ovars, OutboxInv, OutboxTypeOK, OneDrain, ReadsHold, LockedFileIsRead,
              ReceiptsComeFirst, RepeatsAreExcused, NothingPushedVanishes, SentIn, Settled
<1>2. CASE Writers
  BY <1>2, WritersKeepInv
<1>3. CASE \E d \in Drainers : DrainStep(d)
  <2>1. PICK d \in Drainers : DrainStep(d)
    BY <1>3
  <2> QED
    BY <2>1, ReadingKeepsInv, FilingKeepsInv, RemovingKeepsInv, SendingKeepsInv DEF DrainStep
<1>4. CASE \E d \in Drainers : Crash(d)
  BY <1>4, CrashKeepsInv
<1> QED
  BY <1>1, <1>2, <1>3, <1>4 DEF OutboxNext

LEMMA OutboxInvariant == OutboxSpec => []OutboxInv
BY OutboxInitInv, OutboxStepKeepsInv, PTL DEF OutboxSpec

\* No pushed line leaves the outbox without a receipt that answers it, whatever
\* crashes and comes in during a drain (settle).
THEOREM PushesAreKept == OutboxSpec => []NothingPushedVanishes
<1>1. OutboxInv => NothingPushedVanishes
  BY DEF OutboxInv
<1> QED
  BY <1>1, OutboxInvariant, PTL

\* A line takes effect once, and once more per failure; a keyed one once
\* (drain_lock, idempotency keys).
THEOREM RepeatsFollowFailures == OutboxSpec => []EffectsAreExcused
<1>1. OutboxInv => EffectsAreExcused
  BY DEF OutboxInv, RepeatsAreExcused, EffectsAreExcused
<1> QED
  BY <1>1, OutboxInvariant, PTL
-----------------------------------------------------------------------------
(* What receipts say.                                                      *)

Told(l) == [entry |-> l, state |-> "published"]

\* A receipt, written or to be written, is of what the hub did.  A line that is
\* dropped because it came in behind the reading of the file was never sent.
ReceiptsHold ==
  \A l \in Keyed :
    /\ l \in written \ outbox => (hub[l] > 0 <=> Told(l) \in receipts)
    /\ Told(l) \in receipts => hub[l] > 0
    /\ \A d \in Drainers :
         /\ SentIn(d, l) => hub[l] > 0
         /\ RefusedIn(d, l) => hub[l] = 0
         /\ drain[d].phase \in Locking /\ l \in outbox \ drain[d].good => hub[l] = 0

\* A step of one drain that leaves the outbox and the hub alone.
LEMMA QuietDrainTells ==
  ASSUME OutboxInv, ReceiptsHold, NEW d \in Drainers, NEW after,
         drain' = [drain EXCEPT ![d] = after],
         UNCHANGED <<written, outbox, hub>>,
         receipts' = receipts \/ receipts' = receipts \cup drain[d].answers,
         \A l \in Keyed :
           /\ Told(l) \in after.answers => SentIn(d, l)
           /\ [entry |-> l, state |-> "refused"] \in after.answers => RefusedIn(d, l) \/ hub[l] = 0
           /\ after.phase \in Locking /\ l \in outbox \ after.good => hub[l] = 0
  PROVE  ReceiptsHold'
<1>0. /\ drain'[d] = after
      /\ \A e \in Drainers \ {d} : drain'[e] = drain[e]
  BY DEF OutboxInv, OutboxTypeOK
<1> SUFFICES ASSUME NEW l \in Keyed
             PROVE  /\ l \in written \ outbox => (hub[l] > 0 <=> Told(l) \in receipts')
                    /\ Told(l) \in receipts' => hub[l] > 0
                    /\ \A e \in Drainers :
                         /\ SentIn(e, l)' => hub[l] > 0
                         /\ RefusedIn(e, l)' => hub[l] = 0
                         /\ drain'[e].phase \in Locking /\ l \in outbox \ drain'[e].good => hub[l] = 0
  BY DEF ReceiptsHold, Told
<1>1. Told(l) \in receipts' => hub[l] > 0
  BY DEF ReceiptsHold, SentIn, Told
<1>2. Told(l) \in receipts => Told(l) \in receipts'
  OBVIOUS
<1>3. l \in written \ outbox => (hub[l] > 0 <=> Told(l) \in receipts')
  BY <1>1, <1>2 DEF ReceiptsHold
<1>4. ASSUME NEW e \in Drainers
      PROVE  /\ SentIn(e, l)' => hub[l] > 0
             /\ RefusedIn(e, l)' => hub[l] = 0
             /\ drain'[e].phase \in Locking /\ l \in outbox \ drain'[e].good => hub[l] = 0
  <2>1. CASE e = d
    BY <1>0, <2>1 DEF ReceiptsHold, SentIn, RefusedIn, Told
  <2>2. CASE e # d
    BY <1>0, <2>2 DEF ReceiptsHold, SentIn, RefusedIn
  <2> QED
    BY <2>1, <2>2
<1> QED
  BY <1>1, <1>3, <1>4

LEMMA ReadingTells ==
  ASSUME OutboxInv, ReceiptsHold, NEW d \in Drainers, Begin(d) \/ Settle(d)
  PROVE  ReceiptsHold'
<1>0. drain[d] \in Drain /\ Keyed \subseteq Lines
  BY OutboxConstants DEF OutboxInv, OutboxTypeOK
<1>1. CASE Begin(d)
  <2> DEFINE after == [phase |-> IF Bad = {} THEN "publish" ELSE "quarantine",
                       good |-> Good, bad |-> Bad, batch |-> Good, answers |-> {}]
  <2>1. drain' = [drain EXCEPT ![d] = after] /\ after.good = outbox \cap Lines /\ after.answers = {}
    BY <1>1 DEF Begin, Good
  <2> HIDE DEF after
  <2> QED
    BY <1>0, <1>1, <2>1, QuietDrainTells DEF Begin
<1>2. CASE Settle(d)
  <2> DEFINE after == [drain[d] EXCEPT !.phase = "receipt", !.good = Good, !.bad = Bad]
  <2>1. drain' = [drain EXCEPT ![d] = after]
    BY <1>2 DEF Settle, OutboxInv, OutboxTypeOK
  <2>2. after.good = outbox \cap Lines /\ after.answers = drain[d].answers
    BY <1>0 DEF Drain, Good
  <2> HIDE DEF after
  <2> QED
    BY <1>0, <1>2, <2>1, <2>2, QuietDrainTells DEF Settle, SentIn, RefusedIn, Told
<1> QED
  BY <1>1, <1>2

LEMMA FilingTells ==
  ASSUME OutboxInv, ReceiptsHold, NEW d \in Drainers, Quarantine(d) \/ WriteReceipts(d) \/ Crash(d)
  PROVE  ReceiptsHold'
<1>0. drain[d] \in Drain
  BY DEF OutboxInv, OutboxTypeOK
<1>1. PICK after :
        /\ drain' = [drain EXCEPT ![d] = after]
        /\ \/ /\ after.good = drain[d].good /\ after.answers = drain[d].answers
              /\ drain[d].phase \in Locking
           \/ after = Idle
  <2>1. CASE Quarantine(d)
    <3> DEFINE after == [drain[d] EXCEPT !.phase = "sweep"]
    <3>1. drain' = [drain EXCEPT ![d] = after]
      BY <2>1 DEF Quarantine, OutboxInv, OutboxTypeOK
    <3>2. after.good = drain[d].good /\ after.answers = drain[d].answers
      BY <1>0 DEF Drain
    <3> QED
      BY <2>1, <3>1, <3>2 DEF Quarantine, Locking
  <2>2. CASE WriteReceipts(d)
    <3> DEFINE after == [drain[d] EXCEPT !.phase = "settle"]
    <3>1. drain' = [drain EXCEPT ![d] = after]
      BY <2>2 DEF WriteReceipts, OutboxInv, OutboxTypeOK
    <3>2. after.good = drain[d].good /\ after.answers = drain[d].answers
      BY <1>0 DEF Drain
    <3> QED
      BY <2>2, <3>1, <3>2 DEF WriteReceipts, Locking
  <2>3. CASE Crash(d)
    BY <2>3 DEF Crash
  <2> QED
    BY <2>1, <2>2, <2>3
<1>2. Idle.phase \notin Locking /\ Idle.answers = {}
  BY DEF Idle, Locking
<1>3. UNCHANGED <<written, outbox, hub>>
      /\ (receipts' = receipts \/ receipts' = receipts \cup drain[d].answers)
  BY DEF Quarantine, WriteReceipts, Crash
<1>4. \A l \in Keyed :
        /\ Told(l) \in after.answers => SentIn(d, l)
        /\ [entry |-> l, state |-> "refused"] \in after.answers => RefusedIn(d, l) \/ hub[l] = 0
        /\ after.phase \in Locking /\ l \in outbox \ after.good => hub[l] = 0
  BY <1>1, <1>2 DEF ReceiptsHold, SentIn, RefusedIn, Told
<1> QED
  BY <1>1, <1>3, <1>4, QuietDrainTells

\* What is taken out was answered, or was never sent.
LEMMA RemovingTells ==
  ASSUME OutboxInv, ReceiptsHold, NEW d \in Drainers, Sweep(d) \/ TakeOut(d)
  PROVE  ReceiptsHold'
<1>1. drain[d] \in Drain /\ \A e \in Drainers \ {d} : drain[e] = Idle
  BY Alone DEF OutboxInv, OutboxTypeOK, Sweep, TakeOut
<1>2. /\ drain[d].good \subseteq outbox /\ outbox \subseteq written
      /\ drain[d].phase = "settle" => drain[d].answers \subseteq receipts
      /\ drain[d].phase \in Locking /\ Keyed \subseteq Lines /\ Lines \cap Fragments = {}
  BY OutboxConstants DEF OutboxInv, ReadsHold, ReceiptsComeFirst, Locking, Sweep, TakeOut
<1>3. UNCHANGED <<written, hub, receipts>> /\ outbox' \subseteq outbox
  BY <1>2 DEF Sweep, TakeOut
<1>4. Idle.phase \notin Locking /\ Idle.answers = {} /\ Idle.good = {}
  BY DEF Idle, Locking
<1>5. PICK after :
        /\ drain'[d] = after /\ \A e \in Drainers \ {d} : drain'[e] = Idle
        /\ after.phase \notin Locking
        /\ \A r \in after.answers : r.state = "quarantined"
  <2>1. CASE Sweep(d)
    <3> DEFINE moved == [entry: drain[d].bad, state: {"quarantined"}]
               after == [drain[d] EXCEPT !.phase = "publish", !.answers = moved]
    <3>1. drain' = [drain EXCEPT ![d] = after]
      BY <2>1 DEF Sweep, OutboxInv, OutboxTypeOK
    <3>2. after.phase = "publish" /\ after.answers = moved
      BY <1>1 DEF Drain
    <3>3. \A r \in moved : r.state = "quarantined"
      OBVIOUS
    <3> HIDE DEF after, moved
    <3> QED
      BY <1>1, <3>1, <3>2, <3>3 DEF Locking, OutboxInv, OutboxTypeOK
  <2>2. CASE TakeOut(d)
    BY <1>1, <1>4, <2>2 DEF TakeOut, OutboxInv, OutboxTypeOK
  <2> QED
    BY <2>1, <2>2
<1>6. ASSUME NEW l \in Keyed, l \in outbox, l \notin outbox'
      PROVE  hub[l] > 0 <=> Told(l) \in receipts
  <2>1. CASE l \notin drain[d].good
    BY <1>2, <1>6, <2>1 DEF ReceiptsHold
  <2>2. CASE l \in drain[d].good
    <3>1. TakeOut(d) /\ l \in Settled(drain[d].answers)
      BY <1>6, <2>2 DEF Sweep, TakeOut
    <3>2. PICK r \in drain[d].answers : r.state \in Terminal /\ r.entry = l
      BY <3>1 DEF Settled
    <3>3. r \in Receipts /\ drain[d].answers \subseteq receipts
      BY <1>1, <1>2, <3>1, <3>2 DEF Drain, TakeOut
    <3>4. r = [entry |-> l, state |-> r.state]
      BY <3>2, <3>3 DEF Receipts
    <3>5. CASE r.state = "published"
      BY <3>2, <3>3, <3>4, <3>5 DEF ReceiptsHold, SentIn, Told
    <3>6. CASE r.state = "refused"
      BY <3>2, <3>4, <3>6 DEF ReceiptsHold, RefusedIn
    <3> QED
      BY <3>2, <3>5, <3>6 DEF Terminal
  <2> QED
    BY <2>1, <2>2
<1>7. ASSUME NEW e \in Drainers, NEW l \in Keyed
      PROVE  ~SentIn(e, l)' /\ ~RefusedIn(e, l)' /\ drain'[e].phase \notin Locking
  <2>1. Told(l).state = "published" /\ [entry |-> l, state |-> "refused"].state = "refused"
    BY DEF Told
  <2>2. drain'[e].phase \notin Locking /\ \A r \in drain'[e].answers : r.state = "quarantined"
    BY <1>4, <1>5
  <2> QED
    BY <2>1, <2>2 DEF SentIn, RefusedIn, Told
<1>8. ASSUME NEW l \in Keyed
      PROVE  /\ l \in written \ outbox' => (hub[l] > 0 <=> Told(l) \in receipts)
             /\ Told(l) \in receipts => hub[l] > 0
  BY <1>6 DEF ReceiptsHold
<1> QED
  BY <1>3, <1>7, <1>8 DEF ReceiptsHold, Told

LEMMA SendingTells ==
  ASSUME OutboxInv, ReceiptsHold, NEW d \in Drainers, NEW l \in Lines,
         Published(d, l) \/ Refused(d, l) \/ Unanswered(d, l)
  PROVE  ReceiptsHold'
<1>1. /\ drain[d] \in Drain /\ drain[d].phase = "publish"
      /\ \A e \in Drainers \ {d} : drain[e] = Idle
      /\ l \in drain[d].batch
  BY Alone DEF OutboxInv, OutboxTypeOK, Published, Refused, Unanswered, Sending
<1>2. l \in outbox /\ \A r \in drain[d].answers : r.entry # l
  BY <1>1 DEF OutboxInv, ReadsHold
<1>3. PICK state \in {"published", "refused", "retryable"} :
        /\ Answer(d, l, state)
        /\ state = "published" => Published(d, l)
        /\ state = "refused" => Refused(d, l)
  BY DEF Published, Refused, Unanswered
<1> DEFINE answer == [entry |-> l, state |-> state]
           after == [drain[d] EXCEPT !.batch = @ \ {l}, !.answers = @ \cup {answer}]
<1>4. /\ drain'[d] = after
      /\ \A e \in Drainers \ {d} : drain'[e] = Idle
  BY <1>1, <1>3 DEF Answer, OutboxInv, OutboxTypeOK
<1>5. /\ after.phase = "publish" /\ after.answers = drain[d].answers \cup {answer}
      /\ answer.entry = l /\ answer.state = state
  BY <1>1 DEF Drain
<1> HIDE DEF answer, after
<1>6. UNCHANGED <<written, outbox, receipts>> /\ hub \in [Lines -> Nat] /\ Keyed \subseteq Lines
  BY OutboxConstants DEF Published, Refused, Unanswered, OutboxInv, OutboxTypeOK
<1>7. /\ \A j \in Lines \ {l} : hub'[j] = hub[j]
      /\ hub'[l] \in Nat /\ hub'[l] >= hub[l]
      /\ state = "published" => hub'[l] > 0
      /\ state = "refused" /\ l \in Keyed => hub'[l] = 0
  BY <1>3, <1>6 DEF Published, Refused, Unanswered, TakesEffect, Recorded
<1>8. Idle.phase \notin Locking /\ Idle.answers = {} /\ "publish" \notin Locking
  BY DEF Idle, Locking
<1>9. ASSUME NEW j \in Keyed
      PROVE  /\ j \in written \ outbox => (hub'[j] > 0 <=> Told(j) \in receipts)
             /\ Told(j) \in receipts => hub'[j] > 0
  BY <1>2, <1>6, <1>7 DEF ReceiptsHold
<1>10. ASSUME NEW e \in Drainers, NEW j \in Keyed
       PROVE  /\ SentIn(e, j)' => hub'[j] > 0
              /\ RefusedIn(e, j)' => hub'[j] = 0
              /\ drain'[e].phase \notin Locking
  <2>1. CASE e # d
    BY <1>4, <1>8, <2>1 DEF SentIn, RefusedIn
  <2>2. CASE e = d
    <3>1. drain'[e].phase \notin Locking
      BY <1>4, <1>5, <1>8, <2>2
    <3>2. CASE j # l
      <4>1. [entry |-> j, state |-> "published"].entry = j /\ [entry |-> j, state |-> "refused"].entry = j
        OBVIOUS
      <4>2. hub'[j] = hub[j]
        BY <1>6, <1>7, <3>2
      <4> QED
        BY <1>4, <1>5, <2>2, <3>1, <3>2, <4>1, <4>2 DEF ReceiptsHold, SentIn, RefusedIn
    <3>3. CASE j = l
      <4>1. /\ [entry |-> j, state |-> "published"].entry = l
            /\ [entry |-> j, state |-> "published"].state = "published"
            /\ [entry |-> j, state |-> "refused"].entry = l
            /\ [entry |-> j, state |-> "refused"].state = "refused"
        BY <3>3
      <4> QED
        BY <1>2, <1>4, <1>5, <1>7, <2>2, <3>1, <3>3, <4>1 DEF SentIn, RefusedIn
    <3> QED
      BY <3>2, <3>3
  <2> QED
    BY <2>1, <2>2
<1> QED
  BY <1>6, <1>9, <1>10 DEF ReceiptsHold, Told

LEMMA WritingTells ==
  ASSUME OutboxInv, ReceiptsHold, Writers
  PROVE  ReceiptsHold'
<1>1. PICK e \in Entries : Write(e)
  BY DEF Writers, Push, Append, TornPush, Entries
<1>2. UNCHANGED <<receipts, hub, drain>> /\ outbox' = outbox \cup {e} /\ written' = written \cup {e}
  BY <1>1 DEF Write
<1>3. Keyed \subseteq Lines /\ e \notin written
  BY <1>1, OutboxConstants DEF Write
<1>4. \A l \in Keyed : l \notin written => hub[l] = 0
  BY <1>3 DEF OutboxInv, RepeatsAreExcused
<1> QED
  BY <1>2, <1>3, <1>4 DEF ReceiptsHold, SentIn, RefusedIn, Told

\* When a line that the hub knows again has left the outbox, its receipts say
\* whether it took effect, whatever crashed and whichever answers were lost.
THEOREM ReceiptsCorrect == OutboxSpec => []ReceiptsAreTrue
<1> DEFINE Inv == OutboxInv /\ ReceiptsHold
<1>1. OutboxInit => Inv
  <2> SUFFICES ASSUME OutboxInit PROVE Inv
    OBVIOUS
  <2>1. \A d \in Drainers : drain[d] = Idle
    BY DEF OutboxInit
  <2>2. ReceiptsHold
    BY <2>1, OutboxConstants DEF OutboxInit, ReceiptsHold, SentIn, RefusedIn, Idle, Locking
  <2> QED
    BY <2>2, OutboxInitInv
<1>2. Inv /\ [OutboxNext]_ovars => Inv'
  <2> SUFFICES ASSUME Inv, [OutboxNext]_ovars PROVE ReceiptsHold'
    BY OutboxStepKeepsInv
  <2>1. CASE UNCHANGED ovars
    BY <2>1 DEF ovars, ReceiptsHold, SentIn, RefusedIn, Told
  <2>2. CASE Writers
    BY <2>2, WritingTells
  <2>3. ASSUME NEW d \in Drainers, DrainStep(d) \/ Crash(d) PROVE ReceiptsHold'
    BY <2>3, ReadingTells, FilingTells, RemovingTells, SendingTells DEF DrainStep
  <2> QED
    BY <2>1, <2>2, <2>3 DEF OutboxNext
<1>3. Inv => ReceiptsAreTrue
  BY DEF ReceiptsHold, ReceiptsAreTrue, Told
<1> QED
  BY <1>1, <1>2, <1>3, PTL DEF OutboxSpec
=============================================================================
