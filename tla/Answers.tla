------------------------------ MODULE Answers ------------------------------
(***************************************************************************)
(* Signed answers to a human gate (src/agentco/envelope.py) and the keys   *)
(* that sign them (humankeys.py).  An envelope crosses two stores that     *)
(* share no transaction: its nonce row in the registry, its attestation in *)
(* the work store.  Any carrier may send one again, at any time, and any   *)
(* call may die between two writes.  One person, one gated item.           *)
(***************************************************************************)
EXTENDS Integers, FiniteSets

CONSTANTS Envelopes,   \* the envelopes the person signs
          Keys,        \* the person's keys
          Carriers,    \* the calls of POST /answers that may be under way
          KeyOf, NonceOf, Approves, \* what is in an envelope, by envelope
          Fresh, Grace, Skew,     \* the windows, and the skew allowed
          MaxTime, MaxCuts \* bounds: time, crashes and calls side by side

ASSUME AnswerAssumption ==
  /\ KeyOf \in [Envelopes -> Keys] /\ Approves \in [Envelopes -> BOOLEAN]
  /\ Fresh \in Nat /\ Grace \in Nat /\ Skew \in Nat

VARIABLES clock,
          key,      \* the human_keys table
          keyFeed,  \* how many events announce each key and its revocation
          signed,   \* the envelopes signed so far: when, and for which attempt
          row,      \* the answer_nonces table, by nonce
          post,     \* the submissions under way
          item,     \* the gated item: status, verify_failures, idempotency keys
          landed,   \* how often each envelope's verdict took effect
          forgot,   \* the nonces whose row was collected
          cuts      \* crashes, and calls begun beside one with the same nonce

answerVars == <<clock, key, keyFeed, signed, row, post, item, landed, forgot, cuts>>
keyVars    == <<key, keyFeed>>

Nonces    == {NonceOf[e] : e \in Envelopes}
Unsigned  == [at |-> 0 - 1, attempt |-> 0]
NoRow     == [status |-> "none"]
NoCall    == [at |-> "idle"]
Outcomes  == {"applied", "refused", "held", "expired"}
Cut       == cuts < MaxCuts /\ cuts' = cuts + 1
Calling(n) == {c \in Carriers : post[c].at # "idle" /\ NonceOf[post[c].env] = n}

-----------------------------------------------------------------------------
(* The key directory: a row and its event in one transaction.               *)

\* enrol: ON CONFLICT DO NOTHING; a key is enrolled once and for all.
Enrol(k) ==
  /\ key[k] = "none"
  /\ key' = [key EXCEPT ![k] = "active"]
  /\ keyFeed' = [keyFeed EXCEPT ![k].enrolled = @ + 1]
  /\ UNCHANGED <<clock, signed, row, post, item, landed, forgot, cuts>>

\* revoke, revoke_all: announced only by the call that changed the row.
Revoke(k) ==
  /\ key[k] = "active"
  /\ key' = [key EXCEPT ![k] = "revoked"]
  /\ keyFeed' = [keyFeed EXCEPT ![k].revoked = @ + 1]
  /\ UNCHANGED <<clock, signed, row, post, item, landed, forgot, cuts>>

-----------------------------------------------------------------------------
(* The person's machine, whose clock may be ahead, and the gated item.      *)

Sign(e) ==
  /\ signed[e] = Unsigned
  /\ \E ahead \in 0..Skew :
       signed' = [signed EXCEPT ![e] = [at |-> clock + ahead, attempt |-> item.attempt]]
  /\ UNCHANGED <<clock, keyVars, row, post, item, landed, forgot, cuts>>

\* The item is run again after a failing verdict and reported once more.
Report ==
  /\ item.status = "running"
  /\ item' = [item EXCEPT !.status = "awaiting"]
  /\ UNCHANGED <<clock, keyVars, signed, row, post, landed, forgot, cuts>>

Reclaim ==
  /\ item.status = "failed"
  /\ item' = [item EXCEPT !.status = "running"]
  /\ UNCHANGED <<clock, keyVars, signed, row, post, landed, forgot, cuts>>

-----------------------------------------------------------------------------
(* submit(): the checks, the nonce row, the attestation, the receipt.       *)

AgeOf(e) == clock - signed[e].at

\* The key as it is enrolled now, the signature, the age; nothing is written.
Submit(c, e) ==
  LET n == NonceOf[e] IN
  /\ post[c] = NoCall /\ signed[e] # Unsigned
  /\ key[KeyOf[e]] = "active"
  /\ AgeOf(e) <= Fresh + Grace
  /\ IF Calling(n) = {} THEN UNCHANGED cuts ELSE Cut
  /\ post' = [post EXCEPT ![c] = [at |-> "checked", env |-> e, came |-> clock, age |-> AgeOf(e)]]
  /\ UNCHANGED <<clock, keyVars, signed, row, item, landed, forgot>>

\* INSERT ... ON CONFLICT DO NOTHING.  A used nonce is replayed, or its stored
\* outcome answers; a row left `received' by a crash is resumed.
Note(c) ==
  LET e == post[c].env
      n == NonceOf[e]
      resumed == row[n].status = "received" /\ row[n].env = e IN
  /\ post[c].at = "checked"
  /\ row' = IF row[n] = NoRow
            THEN [row EXCEPT ![n] = [status |-> "received", env |-> e, arrived |-> post[c].came,
                                     attempt |-> signed[e].attempt]]
            ELSE row
  /\ post' = [post EXCEPT ![c] =
       IF row[n] # NoRow /\ ~resumed THEN NoCall
       ELSE [at |-> IF post[c].age > Fresh THEN "holding" ELSE "noted", env |-> e]]
  /\ UNCHANGED <<clock, keyVars, signed, item, landed, forgot, cuts>>

\* _settle writes the row whatever it holds by now.
Settle(n, status) ==
  row' = IF row[n] = NoRow THEN row ELSE [row EXCEPT ![n].status = status]

Hold(c) ==
  /\ post[c].at = "holding"
  /\ Settle(NonceOf[post[c].env], "held")
  /\ post' = [post EXCEPT ![c] = NoCall]
  /\ UNCHANGED <<clock, keyVars, signed, item, landed, forgot, cuts>>

\* Queue.attest under its lock: the idempotency key first, then the slot.
Answers(e) == item.status \in {"awaiting", "failed"} /\ item.attempt = signed[e].attempt
Verdict(e) ==
  IF Approves[e] THEN [item EXCEPT !.status = "done", !.keys = @ \cup {NonceOf[e]}]
  ELSE [item EXCEPT !.status = "failed", !.attempt = @ + 1, !.keys = @ \cup {NonceOf[e]}]

Known(e) == NonceOf[e] \in item.keys

\* What attest makes of the item: a key it knows changes nothing.  Mutant: the
\* key only opens the slot again.
AttestedAnew(e) == Verdict(e)
Attested(e)     == IF Known(e) THEN item ELSE Verdict(e)

Land(c) ==
  LET e == post[c].env IN
  /\ post[c].at = "noted"
  /\ Known(e) \/ Answers(e)
  /\ item' = Attested(e)
  /\ landed' = IF item' = item THEN landed ELSE [landed EXCEPT ![e] = @ + 1]
  /\ post' = [post EXCEPT ![c].at = "landed"]
  /\ UNCHANGED <<clock, keyVars, signed, row, forgot, cuts>>

LandRefused(c) ==
  LET e == post[c].env IN
  /\ post[c].at = "noted"
  /\ ~Known(e) /\ ~Answers(e)
  /\ post' = [post EXCEPT ![c].at = "refused"]
  /\ UNCHANGED <<clock, keyVars, signed, row, item, landed, forgot, cuts>>

Receipt(c) ==
  LET n == NonceOf[post[c].env] IN
  \/ /\ post[c].at = "landed" /\ Settle(n, "applied")
     /\ post' = [post EXCEPT ![c].at = "superseding"]
     /\ UNCHANGED <<clock, keyVars, signed, item, landed, forgot, cuts>>
  \/ /\ post[c].at = "refused" /\ Settle(n, "refused")
     /\ post' = [post EXCEPT ![c] = NoCall]
     /\ UNCHANGED <<clock, keyVars, signed, item, landed, forgot, cuts>>

\* _expire_held: the held answers of the slot give way to the one applied.
HeldOfSlot(n, slot) == row[n].status = "held" /\ row[n].attempt = slot

ExpireHeld(c) ==
  LET slot == signed[post[c].env].attempt IN
  /\ post[c].at = "superseding"
  /\ row' = [n \in Nonces |->
       IF HeldOfSlot(n, slot)
       THEN [row[n] EXCEPT !.status = "expired"] ELSE row[n]]
  /\ post' = [post EXCEPT ![c] = NoCall]
  /\ UNCHANGED <<clock, keyVars, signed, item, landed, forgot, cuts>>

CallDies(c) ==
  /\ post[c] # NoCall /\ Cut
  /\ post' = [post EXCEPT ![c] = NoCall]
  /\ UNCHANGED <<clock, keyVars, signed, row, item, landed, forgot>>

\* prune: settled rows older than the two windows; never a `received' one.  (No
\* code calls it; an operator may.)
Collect ==
  /\ row' = [n \in Nonces |->
       IF row[n].status \in Outcomes /\ row[n].arrived < clock - (Fresh + Grace)
       THEN NoRow ELSE row[n]]
  /\ row' # row
  /\ forgot' = forgot \cup {n \in Nonces : row'[n] # row[n]}
  /\ UNCHANGED <<clock, keyVars, signed, post, item, landed, cuts>>

Later ==
  /\ clock < MaxTime /\ clock' = clock + 1
  /\ UNCHANGED <<keyVars, signed, row, post, item, landed, forgot, cuts>>

AnswerInit ==
  /\ clock = 0 /\ key = [k \in Keys |-> "none"]
  /\ keyFeed = [k \in Keys |-> [enrolled |-> 0, revoked |-> 0]]
  /\ signed = [e \in Envelopes |-> Unsigned]
  /\ row = [n \in Nonces |-> NoRow] /\ post = [c \in Carriers |-> NoCall]
  /\ item = [status |-> "awaiting", attempt |-> 0, keys |-> {}]
  /\ landed = [e \in Envelopes |-> 0] /\ forgot = {} /\ cuts = 0

PostStep(c) ==
  Note(c) \/ Hold(c) \/ Land(c) \/ LandRefused(c) \/ Receipt(c) \/ ExpireHeld(c)

AnswerNext ==
  \/ \E k \in Keys : Enrol(k) \/ Revoke(k)
  \/ \E e \in Envelopes : Sign(e) \/ \E c \in Carriers : Submit(c, e)
  \/ \E c \in Carriers : PostStep(c) \/ CallDies(c)
  \/ Report \/ Reclaim \/ Collect \/ Later
=============================================================================
