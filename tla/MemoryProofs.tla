---------------------------- MODULE MemoryProofs ----------------------------
(***************************************************************************)
(* What holds of shared memory for any items, callers, traces and stores:  *)
(* a trace counts once, and a history says what it said.                   *)
(***************************************************************************)
EXTENDS MemoryProps, FiniteSetTheorems, SequenceTheorems, WellFoundedInduction, TLAPS

-----------------------------------------------------------------------------
(* A write and what it has still to do.                                     *)

\* What is left to do of a write of credits, of an item, and of a state alone.
CreditStages(b) == IF b = "jsonl" THEN {<<"states", "credits">>, <<"credits">>} ELSE {<<"commit">>}
StateStages(b) == IF b = "jsonl" THEN {<<"states">>} ELSE {<<"commit">>}
ItemStages(b) ==
  IF b = "jsonl"
  THEN {<<"audit", "put", "announce">>, <<"put", "announce">>, <<"announce">>,
        <<"audit", "put", "announce", "states">>, <<"put", "announce", "states">>,
        <<"announce", "states">>, <<"states">>}
  ELSE {<<"announce", "commit">>, <<"commit">>}
StagesOf(c, b) ==
  IF c.rows # {} THEN CreditStages(b) ELSE IF c.new # {} THEN ItemStages(b) ELSE StateStages(b)

\* A version of an item, and what a write carries of one.
IsRecord(r) ==
  /\ r = [version |-> r.version, owner |-> r.owner, level |-> r.level, layer |-> r.layer,
          authority |-> r.authority, content |-> r.content, pinned |-> r.pinned, due |-> r.due,
          status |-> r.status, space |-> r.space]
  /\ r.version \in Nat \ {0}
Carried(n) ==
  /\ n.id \in Ids /\ IsRecord(n.record)
  /\ n.record.authority = Self <=> n.id \notin Published

IsCall(c, b) ==
  /\ c = [todo |-> c.todo, new |-> c.new, st |-> c.st, rows |-> c.rows, locked |-> c.locked]
  /\ c.rows # {} => c.new = {}
  /\ c.todo \in StagesOf(c, b)
CallsInv ==
  /\ call = [w \in Callers |-> call[w]]
  /\ \A w \in Active : IsCall(call[w], backend)
  /\ \A w \in Active : \A n \in call[w].new : call[w].new = {n} /\ Carried(n)
  /\ backend # "postgres" => \A w, o \in Active : w = o

\* Short sequences put together.
LEMMA PairJoined ==
  ASSUME NEW S, NEW a \in S, NEW b \in S
  PROVE  <<a>> \o <<b>> = <<a, b>>
<1> DEFINE s == <<a>>
           t == <<b>>
           u == s \o t
<1>1. s \in Seq(S) /\ t \in Seq(S) /\ Len(s) = 1 /\ Len(t) = 1 /\ s[1] = a /\ t[1] = b
  OBVIOUS
<1>2. u \in Seq(S) /\ Len(u) = 2 /\ u[1] = a /\ u[2] = b
  <2> HIDE DEF s, t
  <2>1. /\ u \in Seq(S) /\ Len(u) = Len(s) + Len(t)
        /\ \A i \in 1..Len(s) + Len(t) : u[i] = IF i <= Len(s) THEN s[i] ELSE t[i - Len(s)]
    BY <1>1, ConcatProperties
  <2>2. QED
    BY <1>1, <2>1
<1> HIDE DEF u
<1>3. u = [i \in 1..2 |-> IF i = 1 THEN a ELSE b]
  <2>1. u = [i \in 1..2 |-> u[i]]
    BY <1>2
  <2>2. QED
    BY <1>2, <2>1
<1>4. <<a, b>> = [i \in 1..2 |-> IF i = 1 THEN a ELSE b]
  OBVIOUS
<1>5. QED
  BY <1>3, <1>4 DEF u, s, t

\* Three and one.
LEMMA TripleJoined ==
  ASSUME NEW S, NEW a \in S, NEW b \in S, NEW c \in S, NEW d \in S
  PROVE  <<a, b, c>> \in Seq(S) /\ <<a, b, c>> \o <<d>> = <<a, b, c, d>>
<1> DEFINE s == <<a, b, c>>
           t == <<d>>
           u == s \o t
<1>1. /\ s \in Seq(S) /\ t \in Seq(S) /\ Len(s) = 3 /\ Len(t) = 1
      /\ s[1] = a /\ s[2] = b /\ s[3] = c /\ t[1] = d
  <2>1. s \in [1..3 -> S]
    OBVIOUS
  <2>2. s \in Seq(S)
    BY <2>1, SeqDef
  <2>3. QED
    BY <2>2
<1>2. u \in Seq(S) /\ Len(u) = 4 /\ u[1] = a /\ u[2] = b /\ u[3] = c /\ u[4] = d
  <2> HIDE DEF s, t
  <2>1. /\ u \in Seq(S) /\ Len(u) = Len(s) + Len(t)
        /\ \A i \in 1..Len(s) + Len(t) : u[i] = IF i <= Len(s) THEN s[i] ELSE t[i - Len(s)]
    BY <1>1, ConcatProperties
  <2>2. QED
    BY <1>1, <2>1
<1> HIDE DEF u
<1>3. u = [i \in 1..4 |-> IF i = 1 THEN a ELSE IF i = 2 THEN b ELSE IF i = 3 THEN c ELSE d]
  <2>1. u = [i \in 1..4 |-> u[i]]
    BY <1>2
  <2>2. QED
    BY <1>2, <2>1
<1>4. <<a, b, c, d>> = [i \in 1..4 |-> IF i = 1 THEN a ELSE IF i = 2 THEN b ELSE IF i = 3 THEN c ELSE d]
  OBVIOUS
<1>5. QED
  BY <1>1, <1>3, <1>4 DEF u, s, t

\* A write begins with the first of its stages, if it has any.
LEMMA StagesAre ==
  ASSUME NEW c, c.rows # {} => c.new = {}, c.todo = Stages(c.new, c.st, c.rows), c.todo # <<>>
  PROVE  /\ c.todo \in StagesOf(c, backend)
         /\ c.new # {} /\ backend = "jsonl" => Head(c.todo) = "audit"
<1> DEFINE new == c.new
           rows == c.rows
           st == c.st
           D == {"audit", "put", "announce", "states", "credits", "commit"}
           S == IF st = <<>> THEN <<>> ELSE <<"states">>
           R == IF rows = {} THEN <<>> ELSE <<"credits">>
           N == IF new = {} THEN <<>> ELSE IF backend = "jsonl" THEN Record ELSE <<"announce">>
           C == IF backend # "jsonl" THEN <<"commit">> ELSE S \o R
<1>1. c.todo = N \o C
  BY DEF Stages
<1>2. <<>> \o <<>> = <<>> /\ \A a \in D : <<>> \o <<a>> = <<a>> /\ <<a>> \o <<>> = <<a>> /\ <<a>> \in Seq(D)
  BY ConcatEmptySeq
<1>3. \A a, b \in D : <<a>> \o <<b>> = <<a, b>> /\ <<a, b>> \in Seq(D)
  <2>1. ASSUME NEW a \in D, NEW b \in D PROVE <<a, b>> \in Seq(D)
    <3>1. <<a, b>> \in [1..2 -> D]
      OBVIOUS
    <3>2. QED
      BY <3>1, SeqDef
  <2> HIDE DEF D
  <2>2. QED
    BY <2>1, PairJoined
<1>4. /\ <<"audit", "put", "announce">> \in Seq(D)
      /\ <<"audit", "put", "announce">> \o <<"states">> = <<"audit", "put", "announce", "states">>
  <2>1. "audit" \in D /\ "put" \in D /\ "announce" \in D /\ "states" \in D
    OBVIOUS
  <2> HIDE DEF D
  <2>2. QED
    BY <2>1, TripleJoined
<1>5. /\ <<>> \o <<"announce">> = <<"announce">> /\ <<>> \o <<"commit">> = <<"commit">>
      /\ <<>> \o <<"credits">> = <<"credits">> /\ <<>> \o <<"states">> = <<"states">>
      /\ <<"states">> \o <<>> = <<"states">>
      /\ <<"announce">> \o <<"commit">> = <<"announce", "commit">>
      /\ <<"states">> \o <<"credits">> = <<"states", "credits">>
      /\ <<>> \o <<"states", "credits">> = <<"states", "credits">>
      /\ <<"audit", "put", "announce">> \o <<>> = <<"audit", "put", "announce">>
  <2>1. <<>> \o <<"states", "credits">> = <<"states", "credits">>
    BY <1>3, ConcatEmptySeq
  <2>2. <<"audit", "put", "announce">> \o <<>> = <<"audit", "put", "announce">>
    BY <1>4, ConcatEmptySeq
  <2>3. QED
    BY <1>2, <1>3, <2>1, <2>2
<1> HIDE DEF D
<1>6. CASE backend # "jsonl"
  <2>1. C = <<"commit">> /\ N = IF new = {} THEN <<>> ELSE <<"announce">>
    BY <1>6
  <2> HIDE DEF C, N
  <2>2. c.todo = IF new = {} THEN <<"commit">> ELSE <<"announce", "commit">>
    BY <1>1, <1>5, <2>1
  <2>3. QED
    BY <1>6, <2>2 DEF StagesOf, CreditStages, StateStages, ItemStages
<1>7. CASE backend = "jsonl" /\ new # {}
  <2>1. R = <<>> /\ C = S \o R /\ S \in {<<>>, <<"states">>} /\ N = <<"audit", "put", "announce">>
    BY <1>7 DEF Record
  <2> HIDE DEF C, N, S, R
  <2>2. C = S
    BY <1>2, <1>5, <2>1
  <2>3. c.todo \in {<<"audit", "put", "announce">>, <<"audit", "put", "announce", "states">>}
    BY <1>1, <1>4, <1>5, <2>1, <2>2
  <2>4. QED
    BY <1>7, <2>3 DEF StagesOf, ItemStages
<1>8. CASE backend = "jsonl" /\ new = {}
  <2>1. N = <<>> /\ C = S \o R /\ S \in {<<>>, <<"states">>} /\ R = IF rows = {} THEN <<>> ELSE <<"credits">>
    BY <1>8
  <2> HIDE DEF C, N, S, R
  <2>2. CASE rows = {}
    <3>1. c.todo = S
      BY <1>1, <1>2, <1>5, <2>1, <2>2
    <3>2. QED
      BY <1>8, <2>1, <2>2, <3>1 DEF StagesOf, StateStages
  <2>3. CASE rows # {}
    <3>1. C \in {<<"credits">>, <<"states", "credits">>}
      BY <1>5, <2>1, <2>3
    <3>2. c.todo = C
      BY <1>1, <1>5, <2>1, <3>1
    <3>3. QED
      BY <1>8, <2>3, <3>1, <3>2 DEF StagesOf, CreditStages
  <2>4. QED
    BY <2>2, <2>3
<1>9. QED
  BY <1>6, <1>7, <1>8

\* What is first and what is left, of each.
LEMMA PartsOf ==
  \A d :
     /\ d = <<"states", "credits">> =>
              Len(d) = 2 /\ Head(d) = "states" /\ Tail(d) = <<"credits">> /\ Tail(d) # <<>> /\ Head(Tail(d)) = "credits"
     /\ d = <<"credits">> =>
              Len(d) = 1 /\ Head(d) = "credits"
     /\ d = <<"announce", "commit">> =>
              Len(d) = 2 /\ Head(d) = "announce" /\ Tail(d) = <<"commit">> /\ Tail(d) # <<>> /\ Head(Tail(d)) = "commit"
     /\ d = <<"commit">> =>
              Len(d) = 1 /\ Head(d) = "commit"
     /\ d = <<"audit", "put", "announce">> =>
              Len(d) = 3 /\ Head(d) = "audit" /\ Tail(d) = <<"put", "announce">> /\ Tail(d) # <<>> /\ Head(Tail(d)) = "put"
     /\ d = <<"put", "announce">> =>
              Len(d) = 2 /\ Head(d) = "put" /\ Tail(d) = <<"announce">> /\ Tail(d) # <<>> /\ Head(Tail(d)) = "announce"
     /\ d = <<"announce">> =>
              Len(d) = 1 /\ Head(d) = "announce"
     /\ d = <<"audit", "put", "announce", "states">> =>
              Len(d) = 4 /\ Head(d) = "audit" /\ Tail(d) = <<"put", "announce", "states">> /\ Tail(d) # <<>> /\ Head(Tail(d)) = "put"
     /\ d = <<"put", "announce", "states">> =>
              Len(d) = 3 /\ Head(d) = "put" /\ Tail(d) = <<"announce", "states">> /\ Tail(d) # <<>> /\ Head(Tail(d)) = "announce"
     /\ d = <<"announce", "states">> =>
              Len(d) = 2 /\ Head(d) = "announce" /\ Tail(d) = <<"states">> /\ Tail(d) # <<>> /\ Head(Tail(d)) = "states"
     /\ d = <<"states">> =>
              Len(d) = 1 /\ Head(d) = "states"
<1>1. ASSUME NEW d, d = <<"states", "credits">>
      PROVE  Len(d) = 2 /\ Head(d) = "states" /\ Tail(d) = <<"credits">> /\ Tail(d) # <<>> /\ Head(Tail(d)) = "credits"
  BY <1>1
<1>2. ASSUME NEW d, d = <<"credits">>
      PROVE  Len(d) = 1 /\ Head(d) = "credits"
  BY <1>2
<1>3. ASSUME NEW d, d = <<"announce", "commit">>
      PROVE  Len(d) = 2 /\ Head(d) = "announce" /\ Tail(d) = <<"commit">> /\ Tail(d) # <<>> /\ Head(Tail(d)) = "commit"
  BY <1>3
<1>4. ASSUME NEW d, d = <<"commit">>
      PROVE  Len(d) = 1 /\ Head(d) = "commit"
  BY <1>4
<1>5. ASSUME NEW d, d = <<"audit", "put", "announce">>
      PROVE  Len(d) = 3 /\ Head(d) = "audit" /\ Tail(d) = <<"put", "announce">> /\ Tail(d) # <<>> /\ Head(Tail(d)) = "put"
  BY <1>5
<1>6. ASSUME NEW d, d = <<"put", "announce">>
      PROVE  Len(d) = 2 /\ Head(d) = "put" /\ Tail(d) = <<"announce">> /\ Tail(d) # <<>> /\ Head(Tail(d)) = "announce"
  BY <1>6
<1>7. ASSUME NEW d, d = <<"announce">>
      PROVE  Len(d) = 1 /\ Head(d) = "announce"
  BY <1>7
<1>8. ASSUME NEW d, d = <<"audit", "put", "announce", "states">>
      PROVE  Len(d) = 4 /\ Head(d) = "audit" /\ Tail(d) = <<"put", "announce", "states">> /\ Tail(d) # <<>> /\ Head(Tail(d)) = "put"
  BY <1>8
<1>9. ASSUME NEW d, d = <<"put", "announce", "states">>
      PROVE  Len(d) = 3 /\ Head(d) = "put" /\ Tail(d) = <<"announce", "states">> /\ Tail(d) # <<>> /\ Head(Tail(d)) = "announce"
  BY <1>9
<1>10. ASSUME NEW d, d = <<"announce", "states">>
      PROVE  Len(d) = 2 /\ Head(d) = "announce" /\ Tail(d) = <<"states">> /\ Tail(d) # <<>> /\ Head(Tail(d)) = "states"
  BY <1>10
<1>11. ASSUME NEW d, d = <<"states">>
      PROVE  Len(d) = 1 /\ Head(d) = "states"
  BY <1>11
<1>12. QED
  BY <1>1, <1>2, <1>3, <1>4, <1>5, <1>6, <1>7, <1>8, <1>9, <1>10, <1>11

\* A stage done leaves the write whole and the others alone.
LEMMA StageIsDone ==
  ASSUME CallsInv, NEW w \in Active
  PROVE  /\ w \in Callers /\ Done(w) = [call EXCEPT ![w] = Rest(call[w])]
         /\ LET c == call[w] IN
            /\ Len(c.todo) # 1 =>
                 /\ Rest(c) = [todo |-> Tail(c.todo), new |-> c.new, st |-> c.st, rows |-> c.rows, locked |-> c.locked]
                 /\ IsCall(Rest(c), backend) /\ Tail(c.todo) # <<>>
            /\ c.rows # {} /\ backend = "jsonl" =>
                 \/ Len(c.todo) = 2 /\ Head(c.todo) = "states" /\ Tail(c.todo) = <<"credits">>
                 \/ Len(c.todo) = 1 /\ Head(c.todo) = "credits"
            /\ c.rows # {} /\ backend # "jsonl" => Len(c.todo) = 1 /\ Head(c.todo) = "commit"
            /\ c.new # {} /\ backend # "jsonl" =>
                 \/ Len(c.todo) = 2 /\ Head(c.todo) = "announce"
                 \/ Len(c.todo) = 1 /\ Head(c.todo) = "commit"
            /\ c.new # {} /\ backend = "jsonl" =>
                 /\ Head(c.todo) \in {"audit", "put", "announce", "states"}
                 /\ Head(c.todo) = "audit" => Len(c.todo) # 1 /\ Head(Tail(c.todo)) = "put"
                 /\ Head(c.todo) # "audit" => Len(c.todo) = 1 \/ Head(Tail(c.todo)) \notin {"audit", "put"}
<1> DEFINE c == call[w]
<1>1. IsCall(c, backend) /\ w \in Callers
  BY DEF CallsInv, Active
<1>2. Done(w) = [call EXCEPT ![w] = Rest(c)]
  BY DEF Done
<1>3. c.todo \in StagesOf(c, backend) /\ (c.rows # {} => c.new = {})
  BY <1>1 DEF IsCall
<1>4. c.rows # {} => c.todo \in CreditStages(backend)
  BY <1>3 DEF StagesOf
<1>5. c.new # {} => c.todo \in ItemStages(backend)
  BY <1>3 DEF StagesOf
<1>6. c.rows = {} /\ c.new = {} => c.todo \in StateStages(backend)
  BY <1>3 DEF StagesOf
<1> HIDE DEF c
<1> DEFINE d == c.todo
<1>7. Len(d) = 1 \/ (Tail(d) \in StagesOf(c, backend) /\ Tail(d) # <<>>)
  <2> HIDE DEF d
  <2>1. CASE c.rows # {}
    <3>1. d \in CreditStages(backend)
      BY <1>4, <2>1 DEF d
    <3>2. Len(d) = 1 \/ (Tail(d) \in CreditStages(backend) /\ Tail(d) # <<>>)
      BY <3>1, PartsOf DEF CreditStages
    <3>3. QED
      BY <2>1, <3>2 DEF StagesOf
  <2>2. CASE c.new # {}
    <3>1. d \in ItemStages(backend)
      BY <1>5, <2>2 DEF d
    <3>2. Len(d) = 1 \/ (Tail(d) \in ItemStages(backend) /\ Tail(d) # <<>>)
      <4>1. CASE backend # "jsonl"
        BY <3>1, <4>1, PartsOf DEF ItemStages
      <4>2. CASE backend = "jsonl"
        <5>1. \/ d = <<"audit", "put", "announce">> \/ d = <<"put", "announce">> \/ d = <<"announce">>
              \/ d = <<"audit", "put", "announce", "states">> \/ d = <<"put", "announce", "states">>
              \/ d = <<"announce", "states">> \/ d = <<"states">>
          BY <3>1, <4>2 DEF ItemStages
        <5>2. Len(d) = 1 \/ Tail(d) \in {<<"put", "announce">>, <<"announce">>, <<"put", "announce", "states">>,
                                        <<"announce", "states">>, <<"states">>}
          <6>1. CASE d = <<"audit", "put", "announce">> \/ d = <<"put", "announce">> \/ d = <<"announce">>
            BY <6>1, PartsOf
          <6>2. CASE d = <<"audit", "put", "announce", "states">> \/ d = <<"put", "announce", "states">>
            BY <6>2, PartsOf
          <6>3. CASE d = <<"announce", "states">> \/ d = <<"states">>
            BY <6>3, PartsOf
          <6>4. QED
            BY <5>1, <6>1, <6>2, <6>3
        <5>3. QED
          BY <4>2, <5>2, PartsOf DEF ItemStages
      <4>3. QED
        BY <4>1, <4>2
    <3>3. QED
      BY <1>3, <2>2, <3>2 DEF StagesOf
  <2>3. CASE c.rows = {} /\ c.new = {}
    BY <1>6, <2>3 DEF StateStages, d
  <2>4. QED
    BY <2>1, <2>2, <2>3
<1>8. Len(c.todo) # 1 =>
        /\ Rest(c) = [todo |-> Tail(c.todo), new |-> c.new, st |-> c.st, rows |-> c.rows, locked |-> c.locked]
        /\ IsCall(Rest(c), backend) /\ Tail(c.todo) # <<>>
  <2>1. SUFFICES ASSUME Len(c.todo) # 1
        PROVE  /\ Rest(c) = [todo |-> Tail(c.todo), new |-> c.new, st |-> c.st, rows |-> c.rows, locked |-> c.locked]
               /\ IsCall(Rest(c), backend) /\ Tail(c.todo) # <<>>
    OBVIOUS
  <2>2. c = [todo |-> c.todo, new |-> c.new, st |-> c.st, rows |-> c.rows, locked |-> c.locked]
    BY <1>1 DEF IsCall, c
  <2>3. Rest(c) = [todo |-> Tail(c.todo), new |-> c.new, st |-> c.st, rows |-> c.rows, locked |-> c.locked]
    BY <2>1, <2>2 DEF Rest
  <2>4. /\ Rest(c).todo = Tail(c.todo) /\ Rest(c).new = c.new /\ Rest(c).rows = c.rows
        /\ Rest(c).st = c.st /\ Rest(c).locked = c.locked
    BY <2>3
  <2>5. StagesOf(Rest(c), backend) = StagesOf(c, backend)
    BY <2>4 DEF StagesOf
  <2>6. IsCall(Rest(c), backend)
    BY <1>3, <1>7, <2>1, <2>3, <2>4, <2>5 DEF IsCall
  <2>7. QED
    BY <1>7, <2>1, <2>3, <2>6
<1>9. c.rows # {} =>
        /\ backend = "jsonl" =>
             \/ Len(d) = 2 /\ Head(d) = "states" /\ Tail(d) = <<"credits">>
             \/ Len(d) = 1 /\ Head(d) = "credits"
        /\ backend # "jsonl" => Len(d) = 1 /\ Head(d) = "commit"
  <2> HIDE DEF d
  <2>1. SUFFICES ASSUME c.rows # {}, d \in CreditStages(backend)
        PROVE  /\ backend = "jsonl" =>
                    \/ Len(d) = 2 /\ Head(d) = "states" /\ Tail(d) = <<"credits">>
                    \/ Len(d) = 1 /\ Head(d) = "credits"
               /\ backend # "jsonl" => Len(d) = 1 /\ Head(d) = "commit"
    BY <1>4 DEF d
  <2>2. CASE backend # "jsonl"
    BY <2>1, <2>2 DEF CreditStages
  <2>3. CASE backend = "jsonl"
    BY <2>1, <2>3, PartsOf DEF CreditStages
  <2>4. QED
    BY <2>2, <2>3
<1>10. c.new # {} =>
         /\ backend # "jsonl" =>
              \/ Len(d) = 2 /\ Head(d) = "announce"
              \/ Len(d) = 1 /\ Head(d) = "commit"
         /\ backend = "jsonl" =>
              /\ Head(d) \in {"audit", "put", "announce", "states"}
              /\ Head(d) = "audit" => Len(d) # 1 /\ Head(Tail(d)) = "put"
              /\ Head(d) # "audit" => Len(d) = 1 \/ Head(Tail(d)) \notin {"audit", "put"}
  <2> HIDE DEF d
  <2>1. SUFFICES ASSUME c.new # {}, d \in ItemStages(backend)
        PROVE  /\ backend # "jsonl" =>
                    \/ Len(d) = 2 /\ Head(d) = "announce"
                    \/ Len(d) = 1 /\ Head(d) = "commit"
               /\ backend = "jsonl" =>
                    /\ Head(d) \in {"audit", "put", "announce", "states"}
                    /\ Head(d) = "audit" => Len(d) # 1 /\ Head(Tail(d)) = "put"
                    /\ Head(d) # "audit" => Len(d) = 1 \/ Head(Tail(d)) \notin {"audit", "put"}
    BY <1>5 DEF d
  <2>2. CASE backend # "jsonl"
    BY <2>1, <2>2 DEF ItemStages
  <2>3. CASE backend = "jsonl"
    <3>1. \/ d = <<"audit", "put", "announce">> \/ d = <<"put", "announce">> \/ d = <<"announce">>
          \/ d = <<"audit", "put", "announce", "states">> \/ d = <<"put", "announce", "states">>
          \/ d = <<"announce", "states">> \/ d = <<"states">>
      BY <2>1, <2>3 DEF ItemStages
    <3>2. CASE d = <<"audit", "put", "announce">> \/ d = <<"audit", "put", "announce", "states">>
      BY <2>3, <3>2
    <3>3. CASE d = <<"put", "announce">> \/ d = <<"announce">> \/ d = <<"put", "announce", "states">>
      BY <2>3, <3>3
    <3>4. CASE d = <<"announce", "states">> \/ d = <<"states">>
      BY <2>3, <3>4
    <3>5. QED
      BY <3>1, <3>2, <3>3, <3>4
  <2>4. QED
    BY <2>2, <2>3
<1>11. QED
  BY <1>1, <1>2, <1>8, <1>9, <1>10 DEF c

-----------------------------------------------------------------------------
(* Beginning a write.                                                       *)

\* What the items are, and whose.
ItemsInv ==
  /\ items = [i \in Ids |-> items[i]] /\ audit = [i \in Ids |-> audit[i]]
  /\ \A i \in Ids : items[i] # NoItem =>
       IsRecord(items[i]) /\ (items[i].authority = Self <=> i \notin Published)

\* The write c of the items ids begins.
Opened(w, ids, c) ==
  /\ Free(w, ids) /\ call' = [call EXCEPT ![w] = c]
  /\ UNCHANGED <<backend, items, audit, ledger, credited>>
  /\ \E new, st, rows :
       c = [todo |-> Stages(new, st, rows), new |-> new, st |-> st, rows |-> rows, locked |-> {i \in ids : Held(i)}]

\* Nobody else has a version of the item in hand.
Alone(i) == \A o \in Active : \A n \in call[o].new : n.id # i
\* It is the next version of an item of this hub, a new one if nobody has it
\* in hand, or another hub's version of its own item.
Follows(n) ==
  /\ n.id \in Ids /\ IsRecord(n.record)
  /\ n.id \in Published => n.record.authority # Self
  /\ n.id \notin Published => /\ n.record.authority = Self /\ n.record.version = items[n.id].version + 1
                              /\ Held(n.id) \/ Alone(n.id)
Drafted(c, ids) == \A n \in c.new : c.new = {n} /\ ids = {n.id} /\ Follows(n)
\* It credits nothing, a rating, or one trace that was not seen.
Credited(c) ==
  /\ c.rows # {} => c.new = {}
  /\ \/ \A row \in c.rows : row.trace = Rating
     \/ \E t \in Traces : Unseen(t) /\ \A row \in c.rows : row.trace = t
Begun(w) == \E ids, c : Opened(w, ids, c) /\ Drafted(c, ids) /\ Credited(c)

\* Begin begins a write.
LEMMA BeginOpens ==
  ASSUME NEW w, NEW ids, NEW new, NEW st, NEW rows, Begin(w, ids, new, st, rows)
  PROVE  LET c == [todo |-> Stages(new, st, rows), new |-> new, st |-> st, rows |-> rows,
                   locked |-> {i \in ids : Held(i)}]
         IN  Opened(w, ids, c) /\ c.new = new /\ c.rows = rows
BY DEF Begin, Opened

\* A change of an item.
LEMMA ChangeBegins ==
  ASSUME NEW w, NEW i, NEW r, NEW st, Begin(w, {i}, {[id |-> i, record |-> r]}, st, {}),
         Follows([id |-> i, record |-> r])
  PROVE  Begun(w)
<1> DEFINE new == {[id |-> i, record |-> r]}
           c   == [todo |-> Stages(new, st, {}), new |-> new, st |-> st, rows |-> {}, locked |-> {j \in {i} : Held(j)}]
<1>1. Opened(w, {i}, c) /\ c.new = new /\ c.rows = {}
  BY BeginOpens
<1> HIDE DEF c
<1>2. Drafted(c, {i}) /\ Credited(c)
  BY <1>1 DEF Drafted, Credited
<1>3. QED
  BY <1>1, <1>2 DEF Begun

\* Credits, or a state alone.
LEMMA CreditBegins ==
  ASSUME NEW w, NEW ids, NEW st, NEW rows, Begin(w, ids, {}, st, rows),
         \/ \A row \in rows : row.trace = Rating
         \/ \E t \in Traces : Unseen(t) /\ \A row \in rows : row.trace = t
  PROVE  Begun(w)
<1> DEFINE c == [todo |-> Stages({}, st, rows), new |-> {}, st |-> st, rows |-> rows, locked |-> {j \in ids : Held(j)}]
<1>1. Opened(w, ids, c) /\ c.new = {} /\ c.rows = rows
  BY BeginOpens
<1> HIDE DEF c
<1>2. Drafted(c, ids) /\ Credited(c)
  BY <1>1 DEF Drafted, Credited
<1>3. QED
  BY <1>1, <1>2 DEF Begun

\* An item's own next version.
LEMMA NextFollows ==
  ASSUME ItemsInv, NEW a, NEW i \in Ids, Writable(a, i), NEW r, IsRecord(r),
         r.version = items[i].version + 1, r.authority = items[i].authority
  PROVE  Follows([id |-> i, record |-> r])
<1>1. Held(i) /\ items[i].authority = Self
  BY DEF Writable, Visible
<1>2. i \notin Published
  BY <1>1 DEF ItemsInv, Held
<1> DEFINE n == [id |-> i, record |-> r]
<1>3. n.id = i /\ n.record = r
  OBVIOUS
<1> HIDE DEF n
<1>4. Follows(n)
  BY <1>1, <1>2, <1>3 DEF Follows
<1>5. QED
  BY <1>4 DEF n

\* An item one may write is a record, and its next version too.
LEMMA WritableIsRecord ==
  ASSUME ItemsInv, NEW a, NEW i \in Ids, Writable(a, i)
  PROVE  LET b == Bumped(i) IN
         /\ IsRecord(items[i])
         /\ b = [version |-> items[i].version + 1, owner |-> items[i].owner, level |-> items[i].level,
                 layer |-> items[i].layer, authority |-> items[i].authority, content |-> items[i].content,
                 pinned |-> items[i].pinned, due |-> items[i].due, status |-> items[i].status,
                 space |-> items[i].space]
         /\ items[i].version + 1 \in Nat \ {0}
         /\ IsRecord(b) /\ b.version = items[i].version + 1 /\ b.authority = items[i].authority
<1>1. IsRecord(items[i])
  BY DEF ItemsInv, Writable, Visible, Held
<1> DEFINE r == items[i]
<1>2. /\ r = [version |-> r.version, owner |-> r.owner, level |-> r.level, layer |-> r.layer,
          authority |-> r.authority, content |-> r.content, pinned |-> r.pinned, due |-> r.due,
          status |-> r.status, space |-> r.space]
      /\ r.version \in Nat \ {0}
  BY <1>1 DEF IsRecord
<1>3. Bumped(i) = [r EXCEPT !.version = r.version + 1]
  BY DEF Bumped
<1> HIDE DEF r
<1>4. [r EXCEPT !.version = r.version + 1] =
        [version |-> r.version + 1, owner |-> r.owner, level |-> r.level, layer |-> r.layer,
          authority |-> r.authority, content |-> r.content, pinned |-> r.pinned, due |-> r.due,
          status |-> r.status, space |-> r.space]
  BY <1>2
<1> DEFINE b == Bumped(i)
<1>5. /\ b = [version |-> r.version + 1, owner |-> r.owner, level |-> r.level, layer |-> r.layer,
               authority |-> r.authority, content |-> r.content, pinned |-> r.pinned, due |-> r.due,
               status |-> r.status, space |-> r.space]
      /\ r.version + 1 \in Nat \ {0}
  BY <1>2, <1>3, <1>4
<1> HIDE DEF b
<1>6. IsRecord(b) /\ b.version = r.version + 1 /\ b.authority = r.authority
  BY <1>5 DEF IsRecord
<1>7. QED
  BY <1>1, <1>5, <1>6 DEF r, b

\* A new item.
LEMMA CreateBegins ==
  ASSUME ItemsInv, NEW w, NEW a, NEW i \in Ids, NEW label, NEW c, Create(w, a, i, label, c)
  PROVE  Begun(w)
<1> DEFINE r == [version |-> 1, owner |-> label.owner, level |-> label.level,
                 layer |-> IF label.owner = Public THEN "public" ELSE "shared",
                 authority |-> Self, content |-> c, pinned |-> FALSE, due |-> FALSE,
                 status |-> "active", space |-> Effective(a).space]
           n == [id |-> i, record |-> r]
<1>1. Begin(w, {i}, {n}, <<>>, {}) /\ i \notin Published /\ ~Held(i) /\ Alone(i)
  BY DEF Create, Change, Alone
<1>2. r.version = 1 /\ r.authority = Self /\ IsRecord(r)
  BY DEF IsRecord
<1>3. items[i].version = 0
  BY <1>1 DEF Held, NoItem
<1>4. n.id = i /\ n.record = r
  OBVIOUS
<1> HIDE DEF r, n
<1>5. Follows(n)
  BY <1>1, <1>2, <1>3, <1>4 DEF Follows
<1>6. QED
  BY <1>1, <1>5, ChangeBegins DEF n

\* A revision.
LEMMA ReviseBegins ==
  ASSUME ItemsInv, NEW w, NEW a, NEW i \in Ids, NEW c, Revise(w, a, i, c)
  PROVE  Begun(w)
<1> DEFINE b == Bumped(i)
           r == [b EXCEPT !.content = c]
           st == IF states[i] # NoState /\ states[i].reconsolidate THEN i :> Rechecked(states[i]) ELSE <<>>
<1>1. Writable(a, i) /\ Begin(w, {i}, {[id |-> i, record |-> r]}, st, {})
  BY DEF Revise
<1>2. IsRecord(b) /\ b.version = items[i].version + 1 /\ b.authority = items[i].authority
  BY <1>1, WritableIsRecord
<1> HIDE DEF b
<1>3. IsRecord(r) /\ r.version = b.version /\ r.authority = b.authority
  BY <1>2 DEF IsRecord
<1> HIDE DEF r, st
<1>4. Follows([id |-> i, record |-> r])
  BY <1>1, <1>2, <1>3, NextFollows
<1>5. QED
  BY <1>1, <1>4, ChangeBegins

\* A pin set or taken away.
LEMMA SetPinnedBegins ==
  ASSUME ItemsInv, NEW w, NEW a, NEW i \in Ids, NEW pinned, SetPinned(w, a, i, pinned)
  PROVE  Begun(w)
<1> DEFINE b == Bumped(i)
           r == [b EXCEPT !.pinned = pinned, !.due = pinned]
<1>1. Writable(a, i) /\ Begin(w, {i}, {[id |-> i, record |-> r]}, <<>>, {})
  BY DEF SetPinned, Change
<1>2. IsRecord(b) /\ b.version = items[i].version + 1 /\ b.authority = items[i].authority
  BY <1>1, WritableIsRecord
<1> HIDE DEF b
<1>3. IsRecord(r) /\ r.version = b.version /\ r.authority = b.authority
  <2>1. /\ b = [version |-> b.version, owner |-> b.owner, level |-> b.level, layer |-> b.layer,
                 authority |-> b.authority, content |-> b.content, pinned |-> b.pinned, due |-> b.due,
                 status |-> b.status, space |-> b.space]
        /\ b.version \in Nat \ {0}
    BY <1>2 DEF IsRecord
  <2>2. r = [version |-> b.version, owner |-> b.owner, level |-> b.level, layer |-> b.layer,
             authority |-> b.authority, content |-> b.content, pinned |-> pinned, due |-> pinned,
             status |-> b.status, space |-> b.space]
    <3> DEFINE m == [b EXCEPT !.pinned = pinned]
    <3>1. m = [version |-> b.version, owner |-> b.owner, level |-> b.level, layer |-> b.layer,
               authority |-> b.authority, content |-> b.content, pinned |-> pinned, due |-> b.due,
               status |-> b.status, space |-> b.space]
      BY <2>1
    <3>2. r = [m EXCEPT !.due = pinned]
      OBVIOUS
    <3> HIDE DEF m, r
    <3>3. QED
      BY <3>1, <3>2
  <2> HIDE DEF r
  <2>3. QED
    BY <2>1, <2>2 DEF IsRecord
<1> HIDE DEF r
<1>4. Follows([id |-> i, record |-> r])
  BY <1>1, <1>2, <1>3, NextFollows
<1>5. QED
  BY <1>1, <1>4, ChangeBegins

\* A move up or down the item's line.
LEMMA SetSpaceBegins ==
  ASSUME ItemsInv, NEW w, NEW a, NEW i \in Ids, NEW to, SetSpace(w, a, i, to)
  PROVE  Begun(w)
<1> DEFINE b == Bumped(i)
           r == [b EXCEPT !.space = to]
<1>1. Writable(a, i) /\ Begin(w, {i}, {[id |-> i, record |-> r]}, <<>>, {})
  BY DEF SetSpace, Change
<1>2. IsRecord(b) /\ b.version = items[i].version + 1 /\ b.authority = items[i].authority
  BY <1>1, WritableIsRecord
<1> HIDE DEF b
<1>3. IsRecord(r) /\ r.version = b.version /\ r.authority = b.authority
  BY <1>2 DEF IsRecord
<1> HIDE DEF r
<1>4. Follows([id |-> i, record |-> r])
  BY <1>1, <1>2, <1>3, NextFollows
<1>5. QED
  BY <1>1, <1>4, ChangeBegins

\* A retirement.
LEMMA RetireBegins ==
  ASSUME ItemsInv, NEW w, NEW a, NEW i \in Ids, Retire(w, a, i)
  PROVE  Begun(w)
<1> DEFINE b == Bumped(i)
           r == [b EXCEPT !.status = "retired"]
<1>1. Writable(a, i) /\ Begin(w, {i}, {[id |-> i, record |-> r]}, <<>>, {})
  BY DEF Retire, Change
<1>2. IsRecord(b) /\ b.version = items[i].version + 1 /\ b.authority = items[i].authority
  BY <1>1, WritableIsRecord
<1> HIDE DEF b
<1>3. IsRecord(r) /\ r.version = b.version /\ r.authority = b.authority
  BY <1>2 DEF IsRecord
<1> HIDE DEF r
<1>4. Follows([id |-> i, record |-> r])
  BY <1>1, <1>2, <1>3, NextFollows
<1>5. QED
  BY <1>1, <1>4, ChangeBegins

\* Another hub's version of its item.
LEMMA ReplicaBegins ==
  ASSUME ItemsInv, NEW w, NEW i \in Ids, NEW hub, NEW label, NEW v \in 1..MaxVersion, NEW c,
         ApplyReplica(w, i, hub, label, v, c)
  PROVE  Begun(w)
<1> DEFINE r == [version |-> v, owner |-> label.owner, level |-> label.level, layer |-> "shared",
                 authority |-> hub, content |-> c, pinned |-> FALSE, due |-> FALSE,
                 status |-> "active", space |-> Root]
           n == [id |-> i, record |-> r]
<1>1. Begin(w, {i}, {n}, <<>>, {}) /\ hub # Self
  BY DEF ApplyReplica, Change
<1>2. i \in Published
  BY DEF ApplyReplica, ItemsInv, Held
<1>3. r.authority = hub /\ IsRecord(r)
  BY DEF IsRecord
<1>4. n.id = i /\ n.record = r
  OBVIOUS
<1> HIDE DEF r, n
<1>5. Follows(n)
  BY <1>1, <1>2, <1>3, <1>4 DEF Follows
<1>6. QED
  BY <1>1, <1>5, ChangeBegins DEF n

\* A step that leaves every write where it is; a transaction beside another
\* may have been begun and found nothing to do.
Rested ==
  /\ UNCHANGED <<backend, items, audit, ledger, call, credited>>
  /\ faults' = faults \/ faults' = faults + 1

\* A trace.
LEMMA TraceBegins ==
  ASSUME NEW w, NEW a, NEW t \in Traces, NEW o, NEW invoked, NEW retrieved,
         RecordTrace(w, a, t, o, invoked, retrieved)
  PROVE  Begun(w)
<1> DEFINE named == invoked \cup retrieved
           on    == {i \in named : items[i].status = "active"}
           after == [i \in on |-> Traced(StateFor(i), i \in invoked, o)]
           rows  == {[trace |-> t, item |-> i] : i \in IF on = {} THEN {0} ELSE on}
<1>1. Unseen(t) /\ Begin(w, named, {}, after, rows)
  BY DEF RecordTrace
<1>2. \A row \in rows : row.trace = t
  OBVIOUS
<1> HIDE DEF named, after, rows
<1>3. QED
  BY <1>1, <1>2, CreditBegins

\* A rating, a revival, a re-check.
LEMMA StateOpsBegin ==
  ASSUME NEW w, NEW a, NEW i,
         \/ \E up \in BOOLEAN : Rate(w, a, i, up)
         \/ Revive(w, a, i)
         \/ Reconsolidate(w, a, i)
  PROVE  Begun(w)
<1> DEFINE rows == {[trace |-> Rating, item |-> i]}
<1>1. (\A row \in rows : row.trace = Rating) /\ \A row \in {} : row.trace = Rating
  OBVIOUS
<1> HIDE DEF rows
<1>2. CASE \E up \in BOOLEAN : Rate(w, a, i, up)
  <2>1. PICK up \in BOOLEAN : Begin(w, {i}, {}, i :> Rated(StateFor(i), up), rows)
    BY <1>2 DEF Rate, rows
  <2>2. QED
    BY <1>1, <2>1, CreditBegins
<1>3. CASE Revive(w, a, i)
  <2>1. Begin(w, {i}, {}, i :> Revived(StateFor(i)), rows)
    BY <1>3 DEF Revive, rows
  <2>2. QED
    BY <1>1, <2>1, CreditBegins
<1>4. CASE Reconsolidate(w, a, i)
  <2>1. Begin(w, {i}, {}, i :> Rechecked(StateFor(i)), {})
    BY <1>4 DEF Reconsolidate
  <2>2. QED
    BY <1>1, <2>1, CreditBegins
<1>5. QED
  BY <1>2, <1>3, <1>4

\* One revival of a replay pass.
LEMMA ReplayBegins ==
  ASSUME NEW w, ReplayRevive(w)
  PROVE  Begun(w) \/ Rested
<1> DEFINE i    == Head(pending[w]).id
           st   == i :> Revived(StateFor(i))
           rows == {[trace |-> Rating, item |-> i]}
           c    == [todo |-> Stages({}, st, rows), new |-> {}, st |-> st, rows |-> rows, locked |-> {i}]
<1>1. /\ Free(w, {i}) /\ Held(i) /\ UNCHANGED <<backend, items, audit, ledger, credited>>
      /\ IF ~StateFor(i).cold THEN UNCHANGED call ELSE call' = [call EXCEPT ![w] = c]
  BY DEF ReplayRevive, Visible
<1>2. \A row \in rows : row.trace = Rating
  OBVIOUS
<1> HIDE DEF i, st, rows
<1>3. CASE ~StateFor(i).cold
  <2>1. UNCHANGED call /\ (UNCHANGED faults \/ Fault)
    BY <1>1, <1>3 DEF Free
  <2>2. QED
    BY <1>1, <2>1 DEF Rested, Fault
<1>4. CASE StateFor(i).cold
  <2>1. call' = [call EXCEPT ![w] = c]
    BY <1>1, <1>4
  <2>2. {j \in {i} : Held(j)} = {i}
    BY <1>1
  <2>3. c = [todo |-> Stages({}, st, rows), new |-> {}, st |-> st, rows |-> rows, locked |-> {j \in {i} : Held(j)}]
    BY <2>2
  <2>4. Opened(w, {i}, c)
    <3> HIDE DEF c
    <3>1. QED
      BY <1>1, <2>1, <2>3 DEF Opened
  <2>5. c.new = {} /\ c.rows = rows
    OBVIOUS
  <2> HIDE DEF c
  <2>6. Drafted(c, {i}) /\ Credited(c)
    BY <1>2, <2>5 DEF Drafted, Credited
  <2>7. QED
    BY <2>4, <2>6 DEF Begun
<1>5. QED
  BY <1>3, <1>4

\* A caller's operation begins a write, or reads.
LEMMA OperationsBegin ==
  ASSUME ItemsInv, NEW w, NEW a, Operate(w, a)
  PROVE  Begun(w) \/ Rested
<1>1. CASE \E i \in Ids, label \in Labels, c \in Contents : Create(w, a, i, label, c)
  BY <1>1, CreateBegins
<1>2. CASE \E i \in Ids, c \in Contents : Revise(w, a, i, c)
  BY <1>2, ReviseBegins
<1>3. CASE \E i \in Ids, pinned \in BOOLEAN : SetPinned(w, a, i, pinned)
  BY <1>3, SetPinnedBegins
<1>4. CASE \E i \in Ids, to \in Spaces : SetSpace(w, a, i, to)
  BY <1>4, SetSpaceBegins
<1>5. CASE \E i \in Ids : Retire(w, a, i) \/ Revive(w, a, i) \/ Reconsolidate(w, a, i)
  BY <1>5, RetireBegins, StateOpsBegin
<1>6. CASE \E i \in Ids, up \in BOOLEAN : Rate(w, a, i, up)
  BY <1>6, StateOpsBegin
<1>7. CASE \E t \in Traces, o \in Outcomes, invoked \in SUBSET Seen(a) :
             \E retrieved \in SUBSET (Seen(a) \ invoked) : RecordTrace(w, a, t, o, invoked, retrieved)
  BY <1>7, TraceBegins
<1>8. CASE ReplayRead(w, a)
  BY <1>8 DEF ReplayRead, Rested
<1>9. QED
  BY <1>1, <1>2, <1>3, <1>4, <1>5, <1>6, <1>7, <1>8 DEF Operate

\* A step of memory begins a write, does a stage of one, ends one by a death,
\* or leaves them all where they are.
LEMMA MemorySteps ==
  ASSUME ItemsInv, [MemoryNext]_memoryVars
  PROVE  \/ Rested
         \/ \E w \in Callers : Begun(w) \/ WriteStep(w) \/ Die(w)
<1>1. CASE UNCHANGED memoryVars
  BY <1>1 DEF memoryVars, Rested
<1>2. CASE MemoryNext
  <2>1. PICK w \in Callers :
          \/ call[w].todo = <<>> /\ \E a \in Actors : Operate(w, a)
          \/ \E i \in Ids, hub \in Hubs, label \in HubLabels, v \in 1..MaxVersion, c \in Contents :
               ApplyReplica(w, i, hub, label, v, c)
          \/ ReplayRevive(w) \/ ReplayRefused(w) \/ WriteStep(w) \/ Die(w)
    BY <1>2 DEF MemoryNext
  <2>2. CASE \E a \in Actors : Operate(w, a)
    BY <2>2, OperationsBegin
  <2>3. CASE \E i \in Ids, hub \in Hubs, label \in HubLabels, v \in 1..MaxVersion, c \in Contents :
               ApplyReplica(w, i, hub, label, v, c)
    BY <2>3, ReplicaBegins
  <2>4. CASE ReplayRevive(w)
    BY <2>4, ReplayBegins
  <2>5. CASE ReplayRefused(w)
    BY <2>5 DEF ReplayRefused, Rested
  <2>6. QED
    BY <2>1, <2>2, <2>3, <2>4, <2>5
<1>3. QED
  BY <1>1, <1>2

-----------------------------------------------------------------------------
(* The writes that are under way.                                           *)

\* Who is active when one caller's write is c.
LEMMA ActiveAfter ==
  ASSUME CallsInv, NEW w \in Callers, NEW c, call' = [call EXCEPT ![w] = c]
  PROVE  /\ call'[w] = c /\ \A o \in Callers \ {w} : call'[o] = call[o]
         /\ Active' = (Active \ {w}) \cup (IF c.todo = <<>> THEN {} ELSE {w})
         /\ call' = [o \in Callers |-> call'[o]]
<1>1. DOMAIN call = Callers
  BY DEF CallsInv
<1>2. call'[w] = c /\ (\A o \in Callers \ {w} : call'[o] = call[o]) /\ DOMAIN call' = Callers
  BY <1>1
<1>3. Active' = {o \in Callers : call'[o].todo # <<>>}
  BY DEF Active
<1>4. QED
  BY <1>1, <1>2, <1>3 DEF Active

\* A write that begins.
LEMMA BegunIsCall ==
  ASSUME NEW w, NEW ids, NEW c, Opened(w, ids, c), Drafted(c, ids), Credited(c), c.todo # <<>>
  PROVE  /\ IsCall(c, backend) /\ \A n \in c.new : c.new = {n} /\ Carried(n)
         /\ c.new # {} /\ backend = "jsonl" => Head(c.todo) = "audit"
<1>1. PICK new, st, rows :
        c = [todo |-> Stages(new, st, rows), new |-> new, st |-> st, rows |-> rows, locked |-> {i \in ids : Held(i)}]
  BY DEF Opened
<1>2. c.todo = Stages(c.new, c.st, c.rows)
  BY <1>1
<1>3. c.rows # {} => c.new = {}
  BY DEF Credited
<1>4. c.todo \in StagesOf(c, backend) /\ (c.new # {} /\ backend = "jsonl" => Head(c.todo) = "audit")
  BY <1>2, <1>3, StagesAre
<1>5. c = [todo |-> c.todo, new |-> c.new, st |-> c.st, rows |-> c.rows, locked |-> c.locked]
  BY <1>1
<1>6. IsCall(c, backend)
  BY <1>2, <1>3, <1>4, <1>5 DEF IsCall
<1>7. ASSUME NEW n \in c.new PROVE c.new = {n} /\ Carried(n)
  BY <1>7 DEF Drafted, Follows, Carried
<1>8. QED
  BY <1>2, <1>4, <1>6, <1>7

\* A step of a write does its first stage or gives it up.
Advances(w) ==
  /\ w \in Active
  /\ \/ call' = Done(w)
     \/ call' = [call EXCEPT ![w] = Idle]

\* Each stage is such a step.
LEMMA WriteStepAdvances ==
  ASSUME NEW w, WriteStep(w)
  PROVE  Advances(w) /\ UNCHANGED <<backend, faults>>
BY DEF WriteStep, WriteAudit, WriteItem, Announce, LockedOut, WriteStates, WriteCredits, Commit, RollBack, To, Advances

\* The next state of a write: the rest of it, or nothing.
LEMMA AdvancesTo ==
  ASSUME CallsInv, NEW w, Advances(w)
  PROVE  /\ w \in Callers
         /\ \E c : /\ call' = [call EXCEPT ![w] = c]
                   /\ c.todo = <<>> \/ (c = Rest(call[w]) /\ Len(call[w].todo) # 1)
<1>1. w \in Active /\ w \in Callers
  BY DEF Advances, Active
<1>2. Idle.todo = <<>>
  BY DEF Idle
<1>3. CASE call' = [call EXCEPT ![w] = Idle]
  BY <1>1, <1>2, <1>3
<1>4. CASE call' = Done(w)
  <2>1. call' = [call EXCEPT ![w] = Rest(call[w])]
    BY <1>1, <1>4, StageIsDone
  <2>2. Len(call[w].todo) = 1 => Rest(call[w]) = Idle
    BY DEF Rest
  <2>3. QED
    BY <1>1, <1>2, <2>1, <2>2
<1>5. QED
  BY <1>3, <1>4 DEF Advances

\* Writes keep their form.
LEMMA CallsBegin ==
  ASSUME CallsInv, NEW w \in Callers, Begun(w)
  PROVE  CallsInv'
<1>1. PICK ids, c : Opened(w, ids, c) /\ Drafted(c, ids) /\ Credited(c)
  BY DEF Begun
<1>2. call' = [call EXCEPT ![w] = c] /\ UNCHANGED backend /\ Free(w, ids)
  BY <1>1 DEF Opened
<1>3. /\ call'[w] = c /\ \A o \in Callers \ {w} : call'[o] = call[o]
      /\ Active' = (Active \ {w}) \cup (IF c.todo = <<>> THEN {} ELSE {w})
      /\ call' = [o \in Callers |-> call'[o]]
  BY <1>2, ActiveAfter
<1>4. c.todo # <<>> => IsCall(c, backend) /\ \A n \in c.new : c.new = {n} /\ Carried(n)
  BY <1>1, BegunIsCall
<1>5. backend' = backend
  BY <1>2
<1>7. \A o \in Active' : o \in Callers
  BY DEF Active
<1>8. ASSUME NEW o \in Active'
      PROVE  IsCall(call'[o], backend') /\ \A n \in call'[o].new : call'[o].new = {n} /\ Carried(n)
  <2>1. CASE o = w
    BY <1>3, <1>4, <1>5, <2>1
  <2>2. CASE o # w
    BY <1>3, <1>5, <1>7, <2>2 DEF CallsInv
  <2>3. QED
    BY <2>1, <2>2
<1>9. backend # "postgres" => \A o, p \in Active' : o = p
  BY <1>2, <1>3 DEF Free
<1>10. QED
  BY <1>3, <1>5, <1>8, <1>9 DEF CallsInv

\* And when one advances.
LEMMA CallsAdvance ==
  ASSUME CallsInv, NEW w, Advances(w), UNCHANGED backend
  PROVE  CallsInv'
<1>1. PICK c : /\ call' = [call EXCEPT ![w] = c]
               /\ c.todo = <<>> \/ (c = Rest(call[w]) /\ Len(call[w].todo) # 1)
  BY AdvancesTo
<1>2. w \in Active /\ w \in Callers
  BY DEF Advances, Active
<1>3. /\ call'[w] = c /\ \A o \in Callers \ {w} : call'[o] = call[o]
      /\ Active' = (Active \ {w}) \cup (IF c.todo = <<>> THEN {} ELSE {w})
      /\ call' = [o \in Callers |-> call'[o]]
  BY <1>1, <1>2, ActiveAfter
<1>4. c.todo # <<>> => IsCall(c, backend) /\ \A n \in c.new : c.new = {n} /\ Carried(n)
  <2>1. SUFFICES ASSUME c = Rest(call[w]), Len(call[w].todo) # 1
        PROVE  IsCall(c, backend) /\ \A n \in c.new : c.new = {n} /\ Carried(n)
    BY <1>1
  <2>2. /\ c = [todo |-> Tail(call[w].todo), new |-> call[w].new, st |-> call[w].st, rows |-> call[w].rows,
                locked |-> call[w].locked]
        /\ IsCall(c, backend)
    BY <1>2, <2>1, StageIsDone
  <2>3. c.new = call[w].new
    BY <2>2
  <2>4. QED
    BY <1>2, <2>2, <2>3 DEF CallsInv
<1>5. backend' = backend
  OBVIOUS
<1>7. \A o \in Active' : o \in Callers /\ o \in Active
  BY <1>2, <1>3 DEF Active
<1>8. ASSUME NEW o \in Active'
      PROVE  IsCall(call'[o], backend') /\ \A n \in call'[o].new : call'[o].new = {n} /\ Carried(n)
  <2>1. CASE o = w
    BY <1>3, <1>4, <1>5, <2>1
  <2>2. CASE o # w
    BY <1>3, <1>5, <1>7, <2>2 DEF CallsInv
  <2>3. QED
    BY <2>1, <2>2
<1>9. backend' # "postgres" => \A o, p \in Active' : o = p
  BY <1>7 DEF CallsInv
<1>10. QED
  BY <1>3, <1>5, <1>8, <1>9 DEF CallsInv

-----------------------------------------------------------------------------
(* A trace is credited once.                                                *)

\* The writes that credit a trace, and those whose effect is still to be stored.
Crediting(t) == {w \in Active : \E row \in call[w].rows : row.trace = t}
Owing(t)     == {w \in Crediting(t) : Head(call[w].todo) # "credits"}

\* Each effect stored but the first had a failure of its own; a trace that the
\* ledger does not name was not stored, unless somebody died between, or is
\* about to name it.
CreditInv ==
  /\ IsFiniteSet(Active) /\ faults \in Nat /\ credited \in [Traces -> Nat]
  /\ \A t \in Traces : credited[t] + Cardinality(Owing(t)) <= 1 + faults
  /\ \A t \in Traces : Unseen(t) =>
       IF backend = "jsonl" THEN Crediting(t) = {} => credited[t] <= faults ELSE credited[t] = 0

\* A set with one more or one less.
LEMMA OneMoreOrLess ==
  ASSUME NEW S, IsFiniteSet(S), NEW x
  PROVE  /\ Cardinality(S) \in Nat
         /\ \A T \in SUBSET (S \cup {x}) : IsFiniteSet(T) /\ Cardinality(T) \in Nat /\ Cardinality(T) <= Cardinality(S) + 1
         /\ \A T \in SUBSET S : IsFiniteSet(T) /\ Cardinality(T) \in Nat /\ Cardinality(T) <= Cardinality(S)
         /\ x \in S => \A T \in SUBSET (S \ {x}) : Cardinality(T) <= Cardinality(S) - 1
         /\ S = {} => Cardinality(S) = 0
<1>1. IsFiniteSet(S \cup {x}) /\ Cardinality(S \cup {x}) = IF x \in S THEN Cardinality(S) ELSE Cardinality(S) + 1
  BY FS_AddElement
<1>2. IsFiniteSet(S \ {x}) /\ Cardinality(S \ {x}) = IF x \in S THEN Cardinality(S) - 1 ELSE Cardinality(S)
  BY FS_RemoveElement
<1>3. \A A : \A B \in SUBSET A : IsFiniteSet(A) => IsFiniteSet(B) /\ Cardinality(B) <= Cardinality(A)
  BY FS_Subset
<1>4. \A A : IsFiniteSet(A) => Cardinality(A) \in Nat
  BY FS_CardinalityType
<1>5. S = {} => Cardinality(S) = 0
  BY FS_EmptySet
<1>6. QED
  BY <1>1, <1>2, <1>3, <1>4, <1>5

\* What a step of one caller's write does to these sets.
LEMMA CreditingAfter ==
  ASSUME CallsInv, NEW w \in Callers, NEW c, call' = [call EXCEPT ![w] = c], NEW t
  PROVE  LET credits == c.todo # <<>> /\ \E row \in c.rows : row.trace = t
             owes    == credits /\ Head(c.todo) # "credits"
         IN  /\ Crediting(t)' = (Crediting(t) \ {w}) \cup (IF credits THEN {w} ELSE {})
             /\ Owing(t)' = (Owing(t) \ {w}) \cup (IF owes THEN {w} ELSE {})
<1>1. /\ call'[w] = c /\ \A o \in Callers \ {w} : call'[o] = call[o]
      /\ Active' = (Active \ {w}) \cup (IF c.todo = <<>> THEN {} ELSE {w})
  BY ActiveAfter
<1>2. Active \subseteq Callers
  BY DEF Active
<1>3. \A o \in Active' : o = w \/ (o \in Active /\ o # w /\ call'[o] = call[o])
  BY <1>1, <1>2
<1>4. Crediting(t)' = {o \in Active' : \E row \in call'[o].rows : row.trace = t}
  BY DEF Crediting
<1>5. Owing(t)' = {o \in Crediting(t)' : Head(call'[o].todo) # "credits"}
  BY DEF Owing
<1>6. Crediting(t)' = (Crediting(t) \ {w}) \cup (IF c.todo # <<>> /\ \E row \in c.rows : row.trace = t THEN {w} ELSE {})
  BY <1>1, <1>3, <1>4 DEF Crediting
<1>7. \A o \in Crediting(t) \ {w} : call'[o] = call[o]
  BY <1>1, <1>2 DEF Crediting
<1>8. QED
  BY <1>1, <1>5, <1>6, <1>7 DEF Owing

\* An effect is owed by writes that are under way.
LEMMA OwingIsFinite ==
  ASSUME CreditInv, NEW t
  PROVE  /\ Owing(t) \subseteq Crediting(t) /\ Crediting(t) \subseteq Active
         /\ IsFiniteSet(Owing(t)) /\ Cardinality(Owing(t)) \in Nat
         /\ Active = {} => Cardinality(Owing(t)) = 0 /\ Crediting(t) = {}
<1>1. Owing(t) \subseteq Crediting(t) /\ Crediting(t) \subseteq Active
  BY DEF Owing, Crediting
<1>2. QED
  BY <1>1, OneMoreOrLess DEF CreditInv

\* Nothing is owed that was not.
LEMMA CreditRests ==
  ASSUME CreditInv, Rested
  PROVE  CreditInv'
<1>1. UNCHANGED <<backend, ledger, call, credited>> /\ faults' \in {faults, faults + 1}
  BY DEF Rested
<1>2. Active' = Active /\ \A t : Crediting(t)' = Crediting(t) /\ Owing(t)' = Owing(t) /\ (Unseen(t)' <=> Unseen(t))
  BY <1>1 DEF Active, Crediting, Owing, Unseen
<1>3. faults \in Nat /\ \A t \in Traces : credited[t] \in Nat /\ Cardinality(Owing(t)) \in Nat
  BY OwingIsFinite DEF CreditInv
<1>4. \A t \in Traces : credited'[t] + Cardinality(Owing(t)') <= 1 + faults'
  BY <1>1, <1>2, <1>3 DEF CreditInv
<1>5. ASSUME NEW t \in Traces, Unseen(t)'
      PROVE  IF backend' = "jsonl" THEN Crediting(t)' = {} => credited'[t] <= faults' ELSE credited'[t] = 0
  BY <1>1, <1>2, <1>3, <1>5 DEF CreditInv
<1>6. IsFiniteSet(Active)' /\ faults' \in Nat /\ credited' \in [Traces -> Nat]
  BY <1>1, <1>2 DEF CreditInv
<1>7. QED
  BY <1>4, <1>5, <1>6 DEF CreditInv

\* A write that begins beside others costs a failure; one that begins alone
\* finds what it credits neither in the ledger nor in another's hands.
LEMMA CreditBegun ==
  ASSUME CallsInv, CreditInv, NEW w \in Callers, Begun(w)
  PROVE  CreditInv'
<1>1. PICK ids, c : Opened(w, ids, c) /\ Drafted(c, ids) /\ Credited(c)
  BY DEF Begun
<1>2. call' = [call EXCEPT ![w] = c] /\ UNCHANGED <<backend, ledger, credited>> /\ Free(w, ids)
  BY <1>1 DEF Opened
<1>3. /\ w \notin Active
      /\ \/ Active = {} /\ faults' = faults
         \/ backend = "postgres" /\ faults' = faults + 1
  BY <1>2 DEF Free, Fault
<1>4. Active' \in SUBSET (Active \cup {w})
  <2>1. Active' = (Active \ {w}) \cup (IF c.todo = <<>> THEN {} ELSE {w})
    BY <1>2, ActiveAfter
  <2>2. QED
    BY <2>1
<1>5. IsFiniteSet(Active')
  BY <1>4, OneMoreOrLess DEF CreditInv
<1>6. faults \in Nat /\ faults' \in Nat /\ faults' >= faults /\ credited' \in [Traces -> Nat]
  BY <1>2, <1>3 DEF CreditInv
<1>7. ASSUME NEW t \in Traces
      PROVE  /\ credited'[t] + Cardinality(Owing(t)') <= 1 + faults'
             /\ Unseen(t)' => IF backend' = "jsonl" THEN Crediting(t)' = {} => credited'[t] <= faults'
                              ELSE credited'[t] = 0
  <2> DEFINE credits == c.todo # <<>> /\ \E row \in c.rows : row.trace = t
             owes    == credits /\ Head(c.todo) # "credits"
  <2>1. /\ Crediting(t)' = (Crediting(t) \ {w}) \cup (IF credits THEN {w} ELSE {})
        /\ Owing(t)' = (Owing(t) \ {w}) \cup (IF owes THEN {w} ELSE {})
    BY <1>2, CreditingAfter
  <2>2. Unseen(t)' <=> Unseen(t)
    BY <1>2 DEF Unseen
  <2>3. credits => Unseen(t)
    <3>1. Rating # t
      BY MemoryAssumption
    <3>2. QED
      BY <1>1, <3>1 DEF Credited
  <2>4. /\ credited[t] \in Nat /\ credited'[t] = credited[t]
        /\ credited[t] + Cardinality(Owing(t)) <= 1 + faults
        /\ Unseen(t) => IF backend = "jsonl" THEN Crediting(t) = {} => credited[t] <= faults ELSE credited[t] = 0
    BY <1>2 DEF CreditInv
  <2>5. /\ Owing(t) \subseteq Active /\ Crediting(t) \subseteq Active
        /\ IsFiniteSet(Owing(t)) /\ Cardinality(Owing(t)) \in Nat
        /\ Active = {} => Cardinality(Owing(t)) = 0 /\ Crediting(t) = {}
    BY OwingIsFinite
  <2> HIDE DEF credits, owes
  <2>6. /\ Cardinality(Owing(t)') \in Nat /\ Cardinality(Owing(t)') <= Cardinality(Owing(t)) + 1
        /\ ~credits => Cardinality(Owing(t)') <= Cardinality(Owing(t))
    <3>1. Owing(t)' \in SUBSET (Owing(t) \cup {w})
      BY <2>1
    <3>2. ~credits => Owing(t)' \in SUBSET Owing(t)
      BY <2>1 DEF owes
    <3>3. QED
      BY <2>5, <3>1, <3>2, OneMoreOrLess
  <2>7. CASE credits
    <3>1. Crediting(t)' # {}
      BY <2>1, <2>7
    <3>2. Unseen(t)
      BY <2>3, <2>7
    <3>3. CASE Active = {} /\ faults' = faults
      <4>1. IF backend = "jsonl" THEN credited[t] <= faults ELSE credited[t] = 0
        BY <2>4, <2>5, <3>2, <3>3
      <4>2. Cardinality(Owing(t)') <= 1
        BY <2>5, <2>6, <3>3
      <4>3. QED
        BY <1>2, <1>6, <2>4, <2>6, <3>1, <3>3, <4>1, <4>2
    <3>4. CASE backend = "postgres" /\ faults' = faults + 1
      BY <1>2, <1>6, <2>4, <2>6, <3>2, <3>4, <2>5
    <3>5. QED
      BY <1>3, <3>3, <3>4
  <2>8. CASE ~credits
    <3>1. w \notin Crediting(t)
      BY <1>3, <2>5
    <3>2. Crediting(t)' = Crediting(t)
      BY <2>1, <2>8, <3>1
    <3>3. credited'[t] + Cardinality(Owing(t)') <= 1 + faults'
      BY <1>6, <2>4, <2>5, <2>6, <2>8
    <3>4. QED
      BY <1>2, <1>6, <2>2, <2>4, <3>2, <3>3
  <2>9. QED
    BY <2>7, <2>8
<1>8. QED
  BY <1>5, <1>6, <1>7 DEF CreditInv

\* A caller whose write is given up, or goes on, has at most what it had; what
\* an advance changes besides is the ledger and the effects.
LEMMA CreditAdvances ==
  ASSUME CallsInv, CreditInv, NEW w, Advances(w), NEW t \in Traces
  PROVE  LET had    == \E row \in call[w].rows : row.trace = t
             owed   == had /\ Head(call[w].todo) # "credits"
         IN  /\ IsFiniteSet(Active')
             /\ Cardinality(Owing(t)') \in Nat /\ Cardinality(Owing(t)') <= Cardinality(Owing(t))
             /\ owed /\ w \notin Owing(t)' => Cardinality(Owing(t)') <= Cardinality(Owing(t)) - 1
             /\ ~had => Crediting(t)' = Crediting(t)
             /\ Crediting(t) \ {w} \subseteq Crediting(t)'
<1> DEFINE had    == \E row \in call[w].rows : row.trace = t
           owed   == had /\ Head(call[w].todo) # "credits"
<1>1. PICK c : /\ call' = [call EXCEPT ![w] = c]
               /\ c.todo = <<>> \/ (c = Rest(call[w]) /\ Len(call[w].todo) # 1)
  BY AdvancesTo
<1>2. w \in Active /\ w \in Callers
  BY DEF Advances, Active
<1>3. Active' \in SUBSET Active
  <2>1. Active' = (Active \ {w}) \cup (IF c.todo = <<>> THEN {} ELSE {w})
    BY <1>1, <1>2, ActiveAfter
  <2>2. QED
    BY <1>2, <2>1
<1> DEFINE credits == c.todo # <<>> /\ \E row \in c.rows : row.trace = t
           owes    == credits /\ Head(c.todo) # "credits"
<1>4. /\ Crediting(t)' = (Crediting(t) \ {w}) \cup (IF credits THEN {w} ELSE {})
      /\ Owing(t)' = (Owing(t) \ {w}) \cup (IF owes THEN {w} ELSE {})
  BY <1>1, <1>2, CreditingAfter
<1>5. /\ credits => had
      /\ owes => owed
  <2>1. SUFFICES ASSUME credits PROVE had /\ (owes => owed)
    OBVIOUS
  <2>2. c = Rest(call[w]) /\ Len(call[w].todo) # 1
    BY <1>1, <2>1
  <2>3. /\ c = [todo |-> Tail(call[w].todo), new |-> call[w].new, st |-> call[w].st, rows |-> call[w].rows,
                locked |-> call[w].locked]
    BY <1>2, <2>2, StageIsDone
  <2>4. c.rows = call[w].rows
    BY <2>3
  <2>5. had /\ call[w].rows # {}
    BY <2>1, <2>4
  <2>6. Head(call[w].todo) # "credits"
    BY <1>2, <2>2, <2>5, StageIsDone
  <2>7. QED
    BY <2>5, <2>6
<1>6. (w \in Crediting(t) <=> had) /\ (w \in Owing(t) <=> owed)
  BY <1>2 DEF Crediting, Owing
<1> HIDE DEF credits, owes, had, owed
<1>7. Owing(t)' \in SUBSET Owing(t) /\ (w \notin Owing(t)' => Owing(t)' \in SUBSET (Owing(t) \ {w}))
  BY <1>4, <1>5, <1>6
<1>8. IsFiniteSet(Active')
  BY <1>3, OneMoreOrLess DEF CreditInv
<1>9. /\ Cardinality(Owing(t)') \in Nat /\ Cardinality(Owing(t)') <= Cardinality(Owing(t))
      /\ owed /\ w \notin Owing(t)' => Cardinality(Owing(t)') <= Cardinality(Owing(t)) - 1
  BY <1>6, <1>7, OwingIsFinite, OneMoreOrLess
<1>10. (~had => Crediting(t)' = Crediting(t)) /\ Crediting(t) \ {w} \subseteq Crediting(t)'
  BY <1>4, <1>5, <1>6
<1>11. QED
  BY <1>8, <1>9, <1>10 DEF had, owed

\* What a step of a write does to the effects and to the ledger.
LEMMA CreditSteps ==
  ASSUME CallsInv, CreditInv, NEW w, WriteStep(w), NEW t \in Traces
  PROVE  LET had == \E row \in call[w].rows : row.trace = t
         IN  \/ /\ credited'[t] = credited[t] /\ (Unseen(t)' <=> Unseen(t))
                /\ Head(call[w].todo) \notin {"states", "credits"} \/ ~had
             \/ /\ had /\ credited'[t] = credited[t] + 1 /\ (Unseen(t)' <=> Unseen(t))
                /\ Head(call[w].todo) = "states" /\ call' = Done(w)
             \/ /\ credited'[t] = credited[t] /\ (Unseen(t)' => Unseen(t) /\ ~had)
             \/ /\ had /\ credited'[t] = credited[t] + 1 /\ ~Unseen(t)'
                /\ Head(call[w].todo) = "commit" /\ call' = Done(w)
<1> DEFINE had == \E row \in call[w].rows : row.trace = t
<1>1. credited[t] \in Nat
  BY DEF CreditInv
<1>2. credited' = Credit(w) => credited'[t] = credited[t] + IF had THEN 1 ELSE 0
  BY DEF Credit
<1>3. ledger' = ledger \cup call[w].rows => (Unseen(t)' <=> Unseen(t) /\ ~had)
  BY DEF Unseen
<1>4. ledger' = ledger => (Unseen(t)' <=> Unseen(t))
  BY DEF Unseen
<1> HIDE DEF had
<1>5. CASE WriteAudit(w) \/ WriteItem(w) \/ Announce(w) \/ LockedOut(w) \/ RollBack(w)
  BY <1>4, <1>5 DEF WriteAudit, WriteItem, Announce, LockedOut, RollBack, To, had
<1>6. CASE WriteStates(w)
  BY <1>1, <1>2, <1>4, <1>6 DEF WriteStates, To, had
<1>7. CASE WriteCredits(w)
  BY <1>3, <1>7 DEF WriteCredits, To, had
<1>8. CASE Commit(w)
  BY <1>1, <1>2, <1>3, <1>8 DEF Commit, To, had
<1>9. QED
  BY <1>5, <1>6, <1>7, <1>8 DEF WriteStep

\* A write that stores its effect no longer owes it; one that ends without
\* leaves it owed to nobody, and what the ledger says is right.
LEMMA CreditAdvanced ==
  ASSUME CallsInv, CreditInv, NEW w, WriteStep(w)
  PROVE  CreditInv'
<1>1. Advances(w) /\ backend' = backend /\ faults' = faults /\ w \in Active /\ w \in Callers
  BY WriteStepAdvances DEF Advances, Active
<1>2. IsFiniteSet(Active')
  <2>1. CASE Traces = {}
    <3>1. PICK c : call' = [call EXCEPT ![w] = c]
      BY <1>1, AdvancesTo
    <3>2. Active' = (Active \ {w}) \cup (IF c.todo = <<>> THEN {} ELSE {w})
      BY <1>1, <3>1, ActiveAfter
    <3>3. Active' \in SUBSET Active
      BY <1>1, <3>2
    <3>4. QED
      BY <3>3, OneMoreOrLess DEF CreditInv
  <2>2. CASE Traces # {}
    BY <1>1, <2>2, CreditAdvances
  <2>3. QED
    BY <2>1, <2>2
<1>3. credited' \in [Traces -> Nat]
  <2>1. credited' = credited \/ credited' = Credit(w)
    BY DEF WriteStep, WriteAudit, WriteItem, Announce, LockedOut, WriteStates, WriteCredits, Commit, RollBack
  <2>2. QED
    BY <2>1 DEF CreditInv, Credit
<1>4. ASSUME NEW t \in Traces
      PROVE  /\ credited'[t] + Cardinality(Owing(t)') <= 1 + faults'
             /\ Unseen(t)' => IF backend' = "jsonl" THEN Crediting(t)' = {} => credited'[t] <= faults'
                              ELSE credited'[t] = 0
  <2> DEFINE had  == \E row \in call[w].rows : row.trace = t
             owed == had /\ Head(call[w].todo) # "credits"
             head == Head(call[w].todo)
  <2>1. /\ Cardinality(Owing(t)') \in Nat /\ Cardinality(Owing(t)') <= Cardinality(Owing(t))
        /\ owed /\ w \notin Owing(t)' => Cardinality(Owing(t)') <= Cardinality(Owing(t)) - 1
        /\ ~had => Crediting(t)' = Crediting(t)
    BY <1>1, CreditAdvances
  <2>2. /\ credited[t] \in Nat /\ Cardinality(Owing(t)) \in Nat /\ faults \in Nat
        /\ credited[t] + Cardinality(Owing(t)) <= 1 + faults
        /\ Unseen(t) => IF backend = "jsonl" THEN Crediting(t) = {} => credited[t] <= faults ELSE credited[t] = 0
    BY OwingIsFinite DEF CreditInv
  <2>3. had => /\ backend = "jsonl" =>
                    \/ Len(call[w].todo) = 2 /\ head = "states" /\ Tail(call[w].todo) = <<"credits">>
                    \/ Len(call[w].todo) = 1 /\ head = "credits"
               /\ backend # "jsonl" => Len(call[w].todo) = 1 /\ head = "commit"
    <3>1. had => call[w].rows # {}
      OBVIOUS
    <3>2. QED
      BY <1>1, <3>1, StageIsDone
  <2>4. \/ /\ credited'[t] = credited[t] /\ (Unseen(t)' <=> Unseen(t))
           /\ head \notin {"states", "credits"} \/ ~had
        \/ /\ had /\ credited'[t] = credited[t] + 1 /\ (Unseen(t)' <=> Unseen(t))
           /\ head = "states" /\ call' = Done(w)
        \/ /\ credited'[t] = credited[t] /\ (Unseen(t)' => Unseen(t) /\ ~had)
        \/ /\ had /\ credited'[t] = credited[t] + 1 /\ ~Unseen(t)'
           /\ head = "commit" /\ call' = Done(w)
    BY CreditSteps
  <2>5. call' = Done(w) => call'[w] = Rest(call[w])
    <3>1. DOMAIN call = Callers
      BY DEF CallsInv
    <3>2. Done(w) = [call EXCEPT ![w] = Rest(call[w])]
      BY <1>1, StageIsDone
    <3>3. QED
      BY <1>1, <3>1, <3>2
  <2>6. Rest(call[w]).todo = IF Len(call[w].todo) = 1 THEN <<>> ELSE Tail(call[w].todo)
    <3>1. Len(call[w].todo) # 1 =>
            Rest(call[w]) = [todo |-> Tail(call[w].todo), new |-> call[w].new, st |-> call[w].st,
                             rows |-> call[w].rows, locked |-> call[w].locked]
      BY <1>1, StageIsDone
    <3>2. Len(call[w].todo) = 1 => Rest(call[w]) = Idle
      BY DEF Rest
    <3>3. CASE Len(call[w].todo) = 1
      BY <3>2, <3>3 DEF Idle
    <3>4. CASE Len(call[w].todo) # 1
      <4> DEFINE d == Tail(call[w].todo)
      <4>1. Rest(call[w]) = [todo |-> d, new |-> call[w].new, st |-> call[w].st,
                             rows |-> call[w].rows, locked |-> call[w].locked]
        BY <3>1, <3>4
      <4> HIDE DEF d
      <4>2. Rest(call[w]).todo = d
        BY <4>1
      <4>3. QED
        BY <3>4, <4>2 DEF d
    <3>5. QED
      BY <3>3, <3>4
  <2>7. CASE had /\ head = "states" /\ call' = Done(w)
    <3>1. backend = "jsonl" /\ Len(call[w].todo) = 2 /\ Tail(call[w].todo) = <<"credits">>
      BY <2>3, <2>7
    <3>2. call'[w].todo = <<"credits">> /\ Head(<<"credits">>) = "credits" /\ <<"credits">> # <<>>
      <4>1. Head(<<"credits">>) = "credits" /\ <<"credits">> # <<>>
        OBVIOUS
      <4>2. Rest(call[w]).todo = <<"credits">>
        BY <2>6, <3>1
      <4>3. QED
        BY <2>5, <2>7, <4>1, <4>2
    <3>3. w \notin Owing(t)'
      BY <3>2 DEF Owing
    <3>4. call'[w].rows = call[w].rows
      <4>1. Rest(call[w]) = [todo |-> Tail(call[w].todo), new |-> call[w].new, st |-> call[w].st,
                             rows |-> call[w].rows, locked |-> call[w].locked]
        BY <1>1, <3>1, StageIsDone
      <4>2. QED
        BY <2>5, <2>7, <4>1
    <3>5. w \in Crediting(t)'
      BY <1>1, <2>7, <3>2, <3>4 DEF Crediting, Active
    <3>6. Cardinality(Owing(t)') <= Cardinality(Owing(t)) - 1
      BY <2>1, <2>7, <3>3
    <3> HIDE DEF had, owed, head
    <3>7. credited'[t] <= credited[t] + 1 /\ credited'[t] \in Nat
      BY <2>2, <2>4
    <3>8. QED
      BY <1>1, <2>1, <2>2, <3>1, <3>5, <3>6, <3>7
  <2>8. CASE had /\ head = "commit" /\ call' = Done(w)
    <3>1. backend # "jsonl" /\ Len(call[w].todo) = 1
      BY <2>3, <2>8
    <3>2. call'[w].todo = <<>>
      BY <2>5, <2>6, <2>8, <3>1
    <3>3. w \notin Owing(t)'
      BY <3>2 DEF Owing, Crediting, Active
    <3>4. Cardinality(Owing(t)') <= Cardinality(Owing(t)) - 1
      BY <2>1, <2>8, <3>3
    <3> HIDE DEF had, owed, head
    <3>5. credited'[t] <= credited[t] + 1 /\ credited'[t] \in Nat
      BY <2>2, <2>4
    <3>6. Unseen(t)' => credited'[t] = credited[t] /\ Unseen(t)
      BY <2>4, <2>8
    <3>7. QED
      BY <1>1, <2>1, <2>2, <3>1, <3>4, <3>5, <3>6
  <2>9. CASE credited'[t] = credited[t] /\ (Unseen(t)' => Unseen(t)) /\ (backend # "jsonl" \/ ~had \/ ~Unseen(t)')
    <3> HIDE DEF had, owed, head
    <3>1. QED
      BY <1>1, <2>1, <2>2, <2>9
  <2> HIDE DEF had, owed, head
  <2>10. QED
    BY <2>3, <2>4, <2>7, <2>8, <2>9
<1>5. QED
  BY <1>1, <1>2, <1>3, <1>4 DEF CreditInv

\* One that dies may have stored an effect that the ledger does not name: that
\* is its failure.
LEMMA CreditDies ==
  ASSUME CallsInv, CreditInv, NEW w \in Callers, Die(w)
  PROVE  CreditInv' /\ CallsInv'
<1>1. call' = [call EXCEPT ![w] = Idle] /\ UNCHANGED <<backend, ledger, credited>> /\ faults' = faults + 1
  BY DEF Die, Fault
<1>2. Idle.todo = <<>>
  BY DEF Idle
<1>3. /\ \A o \in Callers \ {w} : call'[o] = call[o]
      /\ Active' = Active \ {w}
      /\ call' = [o \in Callers |-> call'[o]]
  <2>1. Active' = (Active \ {w}) \cup (IF Idle.todo = <<>> THEN {} ELSE {w})
    BY <1>1, ActiveAfter
  <2>2. QED
    BY <1>1, <1>2, <2>1, ActiveAfter
<1>4. ASSUME NEW t PROVE Crediting(t)' = Crediting(t) \ {w} /\ Owing(t)' = Owing(t) \ {w}
  <2> DEFINE credits == Idle.todo # <<>> /\ \E row \in Idle.rows : row.trace = t
             owes    == credits /\ Head(Idle.todo) # "credits"
  <2>1. /\ Crediting(t)' = (Crediting(t) \ {w}) \cup (IF credits THEN {w} ELSE {})
        /\ Owing(t)' = (Owing(t) \ {w}) \cup (IF owes THEN {w} ELSE {})
    BY <1>1, CreditingAfter
  <2>2. QED
    BY <1>2, <2>1
<1>5. IsFiniteSet(Active') /\ faults \in Nat /\ faults' \in Nat /\ credited' \in [Traces -> Nat]
  <2>1. Active' \in SUBSET Active
    BY <1>3
  <2>2. QED
    BY <1>1, <2>1, OneMoreOrLess DEF CreditInv
<1>6. ASSUME NEW t \in Traces
      PROVE  /\ credited'[t] + Cardinality(Owing(t)') <= 1 + faults'
             /\ Unseen(t)' => IF backend' = "jsonl" THEN Crediting(t)' = {} => credited'[t] <= faults'
                              ELSE credited'[t] = 0
  <2>1. /\ credited[t] \in Nat /\ Cardinality(Owing(t)) \in Nat /\ IsFiniteSet(Owing(t))
        /\ credited[t] + Cardinality(Owing(t)) <= 1 + faults
        /\ Unseen(t) => IF backend = "jsonl" THEN Crediting(t) = {} => credited[t] <= faults ELSE credited[t] = 0
    BY OwingIsFinite DEF CreditInv
  <2>2. Owing(t)' \in SUBSET Owing(t)
    BY <1>4
  <2>3. Cardinality(Owing(t)') \in Nat /\ Cardinality(Owing(t)') <= Cardinality(Owing(t))
    BY <2>1, <2>2, OneMoreOrLess
  <2>4. Unseen(t)' <=> Unseen(t)
    BY <1>1 DEF Unseen
  <2>5. QED
    BY <1>1, <1>5, <2>1, <2>3, <2>4
<1>7. CreditInv'
  BY <1>5, <1>6 DEF CreditInv
<1>8. Active \subseteq Callers
  BY DEF Active
<1>9. CallsInv'
  <2>1. backend' = backend
    BY <1>1
  <2>2. QED
    BY <1>3, <1>8, <2>1 DEF CallsInv
<1>10. QED
  BY <1>7, <1>9

-----------------------------------------------------------------------------
(* The items.                                                               *)

\* What is written to the items is what the writes carry.
LEMMA ItemsStay ==
  ASSUME CallsInv, ItemsInv, NEW w, WriteStep(w)
  PROVE  ItemsInv'
<1>1. CASE UNCHANGED items
  <2>1. items' = [i \in Ids |-> items'[i]]
    BY <1>1 DEF ItemsInv
  <2>2. audit' = [i \in Ids |-> audit'[i]]
    BY DEF ItemsInv, WriteStep, WriteAudit, WriteItem, Announce, LockedOut, WriteStates, WriteCredits, Commit, RollBack,
           Audited
  <2>3. QED
    BY <1>1, <2>1, <2>2 DEF ItemsInv
<1>2. CASE items' = Put(w) /\ w \in Active
  <2>1. items' = [i \in Ids |-> items'[i]]
    BY <1>2 DEF Put
  <2>2. audit' = [i \in Ids |-> audit'[i]]
    BY DEF ItemsInv, WriteStep, WriteAudit, WriteItem, Announce, LockedOut, WriteStates, WriteCredits, Commit, RollBack,
           Audited
  <2>3. ASSUME NEW i \in Ids, items'[i] # NoItem
        PROVE  IsRecord(items'[i]) /\ (items'[i].authority = Self <=> i \notin Published)
    <3>1. items'[i] = CHOOSE r \in New(w, i) \cup {items[i]} : New(w, i) # {} => r \in New(w, i)
      BY <1>2 DEF Put
    <3>2. \E r \in New(w, i) \cup {items[i]} : New(w, i) # {} => r \in New(w, i)
      OBVIOUS
    <3>3. items'[i] \in New(w, i) \cup {items[i]} /\ (New(w, i) # {} => items'[i] \in New(w, i))
      BY <3>1, <3>2
    <3>4. CASE New(w, i) = {}
      BY <2>3, <3>3, <3>4 DEF ItemsInv
    <3>5. CASE items'[i] \in New(w, i)
      <4>1. PICK n \in call[w].new : n.id = i /\ n.record = items'[i]
        BY <3>5 DEF New
      <4>2. Carried(n)
        BY <1>2, <4>1 DEF CallsInv
      <4>3. QED
        BY <4>1, <4>2 DEF Carried
    <3>6. QED
      BY <3>3, <3>4, <3>5
  <2>4. QED
    BY <2>1, <2>2, <2>3 DEF ItemsInv
<1>3. QED
  BY <1>1, <1>2 DEF WriteStep, WriteAudit, WriteItem, Announce, LockedOut, WriteStates, WriteCredits, Commit, RollBack, To

\* At first nothing is there.
LEMMA MemoryBegins ==
  ASSUME MemoryInit
  PROVE  ItemsInv /\ CallsInv /\ CreditInv
<1>1. items = [i \in Ids |-> NoItem] /\ audit = [i \in Ids |-> <<>>] /\ ledger = {}
      /\ call = [w \in Callers |-> Idle] /\ credited = [t \in Traces |-> 0] /\ faults = 0
  BY DEF MemoryInit
<1>2. Active = {}
  BY <1>1 DEF Active, Idle
<1>3. ItemsInv
  BY <1>1 DEF ItemsInv
<1>4. CallsInv
  BY <1>1, <1>2 DEF CallsInv
<1>5. \A t : Crediting(t) = {} /\ Owing(t) = {}
  BY <1>2 DEF Crediting, Owing
<1>6. IsFiniteSet(Active) /\ Cardinality({}) = 0
  BY <1>2, FS_EmptySet
<1>7. CreditInv
  <2>1. \A t \in Traces : credited[t] + Cardinality(Owing(t)) <= 1 + faults
    <3>1. ASSUME NEW t \in Traces PROVE credited[t] = 0 /\ Cardinality(Owing(t)) = 0
      BY <1>1, <1>5, <1>6
    <3>2. QED
      BY <1>1, <3>1
  <2>2. \A t \in Traces : credited[t] = 0 /\ credited[t] <= faults
    BY <1>1
  <2>3. QED
    BY <1>1, <1>6, <2>1, <2>2 DEF CreditInv
<1>8. QED
  BY <1>3, <1>4, <1>7

\* And so it stays.
LEMMA MemoryStays ==
  ASSUME ItemsInv, CallsInv, CreditInv, [MemoryNext]_memoryVars
  PROVE  ItemsInv' /\ CallsInv' /\ CreditInv'
<1>1. CASE Rested
  <2>1. UNCHANGED <<backend, items, audit, call>>
    BY <1>1 DEF Rested
  <2>2. ItemsInv'
    BY <2>1 DEF ItemsInv
  <2>3. CallsInv'
    BY <2>1 DEF CallsInv, Active
  <2>4. QED
    BY <1>1, <2>2, <2>3, CreditRests
<1>2. ASSUME NEW w \in Callers, Begun(w)
      PROVE  ItemsInv' /\ CallsInv' /\ CreditInv'
  <2>1. UNCHANGED <<items, audit>>
    BY <1>2 DEF Begun, Opened
  <2>2. ItemsInv'
    BY <2>1 DEF ItemsInv
  <2>3. QED
    BY <1>2, <2>2, CallsBegin, CreditBegun
<1>3. ASSUME NEW w \in Callers, WriteStep(w)
      PROVE  ItemsInv' /\ CallsInv' /\ CreditInv'
  BY <1>3, WriteStepAdvances, CallsAdvance, CreditAdvanced, ItemsStay
<1>4. ASSUME NEW w \in Callers, Die(w)
      PROVE  ItemsInv' /\ CallsInv' /\ CreditInv'
  <2>1. ItemsInv'
    BY <1>4 DEF Die, ItemsInv
  <2>2. QED
    BY <1>4, <2>1, CreditDies
<1>5. QED
  BY <1>1, <1>2, <1>3, <1>4, MemorySteps

\* A trace is credited once, and once more for each death between the states
\* and the credits and each delivery beside another (record_trace).
THEOREM TracesCountOnce == MemorySpec => []CreditedOnce
<1>1. MemoryInit => ItemsInv /\ CallsInv /\ CreditInv
  BY MemoryBegins
<1>2. (ItemsInv /\ CallsInv /\ CreditInv) /\ [MemoryNext]_memoryVars => (ItemsInv /\ CallsInv /\ CreditInv)'
  BY MemoryStays
<1>3. CreditInv => CreditedOnce
  <2>1. SUFFICES ASSUME CreditInv, NEW t \in Traces PROVE credited[t] <= 1 + faults
    BY DEF CreditedOnce
  <2>2. credited[t] \in Nat /\ Cardinality(Owing(t)) \in Nat /\ faults \in Nat
        /\ credited[t] + Cardinality(Owing(t)) <= 1 + faults
    BY <2>1, OwingIsFinite DEF CreditInv
  <2>3. QED
    BY <2>2
<1>4. QED
  BY <1>1, <1>2, <1>3, PTL DEF MemorySpec

-----------------------------------------------------------------------------
(* Audits and histories.                                                    *)

\* Every set of numbers that has one has a least.
LEMMA LeastOfThem ==
  ASSUME NEW S \in SUBSET Nat, S # {}
  PROVE  \E n \in S : \A m \in S : n <= m
<1>1. PICK n \in S : \A m \in S : ~(<<m, n>> \in OpToRel(<, Nat))
  BY NatLessThanWellFounded, WFMin
<1>2. \A m \in S : ~(m < n)
  BY <1>1 DEF OpToRel
<1>3. QED
  BY <1>2

\* Every bounded set of numbers that has one has a greatest.
LEMMA GreatestOfThem ==
  ASSUME NEW k \in Nat, NEW S \in SUBSET (1..k), S # {}
  PROVE  \E n \in S : \A m \in S : m <= n
<1> DEFINE Caps == {x \in Nat : \A m \in S : m <= x}
<1>1. Caps # {}
  <2>1. k \in Caps
    OBVIOUS
  <2>2. QED
    BY <2>1
<1>2. PICK x \in Caps : \A y \in Caps : x <= y
  BY <1>1, LeastOfThem
<1>3. x \in S
  <2>1. SUFFICES ASSUME x \notin S PROVE FALSE
    OBVIOUS
  <2>2. x - 1 \in Nat
    <3>1. PICK m \in S : TRUE
      OBVIOUS
    <3>2. m \in 1..k /\ m <= x /\ x \in Nat
      BY <1>2, <3>1
    <3>3. QED
      BY <3>2
  <2>3. \A m \in S : m <= x - 1
    BY <1>2, <2>1
  <2>4. QED
    BY <1>2, <2>2, <2>3
<1>4. QED
  BY <1>2, <1>3

\* The greatest of them.
LEMMA MaxIs ==
  ASSUME NEW n \in Nat, NEW S \in SUBSET (1..n), S # {}
  PROVE  Max(S) \in S /\ \A m \in S : m <= Max(S)
<1>1. PICK x \in S : \A m \in S : m <= x
  BY GreatestOfThem
<1>2. \A m \in S : x >= m
  BY <1>1
<1>3. Max(S) \in S /\ \A m \in S : Max(S) >= m
  BY <1>1, <1>2 DEF Max
<1>4. QED
  BY <1>3

\* The rows of a version, and what an audit tells up to a version.
OfVersion(rows, u) == {k \in DOMAIN rows : rows[k].version = u}
Within(rows, v) == {k \in DOMAIN rows : rows[k].version <= v}
Tells(rows, v) ==
  [u \in {rows[k].version : k \in Within(rows, v)} |-> rows[Max({k \in Within(rows, v) : rows[k].version = u})]]

\* An audit in step with its item: of every version there is a row, the last of
\* the item's own is the item, and a row ahead of it is of the next version.
Trail(rows, it) ==
  /\ \E R : rows \in Seq(R)
  /\ it.version \in Nat
  /\ \A k \in DOMAIN rows : rows[k].version \in 1..(it.version + 1)
  /\ \A u \in 1..it.version : OfVersion(rows, u) # {}
  /\ it.version # 0 => rows[Max(OfVersion(rows, it.version))] = it

\* What such an audit tells.
LEMMA TrailTells ==
  ASSUME NEW rows, NEW it, Trail(rows, it)
  PROVE  /\ DOMAIN Tells(rows, it.version) = 1..it.version
         /\ \A u \in 1..it.version : Tells(rows, it.version)[u] = rows[Max(OfVersion(rows, u))]
         /\ it.version # 0 => Tells(rows, it.version)[it.version] = it
<1> DEFINE v == it.version
<1>1. v \in Nat /\ \A k \in DOMAIN rows : rows[k].version \in 1..(v + 1)
  BY DEF Trail
<1>2. \A u \in 1..v : OfVersion(rows, u) # {}
  BY DEF Trail
<1>3. v # 0 => rows[Max(OfVersion(rows, v))] = it
  BY DEF Trail
<1> HIDE DEF v
<1>4. {rows[k].version : k \in Within(rows, v)} = 1..v
  <2>1. ASSUME NEW k \in Within(rows, v) PROVE rows[k].version \in 1..v
    BY <1>1 DEF Within
  <2>2. ASSUME NEW u \in 1..v PROVE \E k \in Within(rows, v) : rows[k].version = u
    BY <1>1, <1>2 DEF Within, OfVersion
  <2>3. QED
    BY <2>1, <2>2
<1>5. \A u \in 1..v : {k \in Within(rows, v) : rows[k].version = u} = OfVersion(rows, u)
  BY <1>1 DEF Within, OfVersion
<1>6. DOMAIN Tells(rows, v) = 1..v /\ \A u \in 1..v : Tells(rows, v)[u] = rows[Max(OfVersion(rows, u))]
  BY <1>4, <1>5 DEF Tells
<1>7. v # 0 => v \in 1..v
  BY <1>1
<1>8. QED
  BY <1>3, <1>6, <1>7 DEF v

\* One row more.
LEMMA OneRowMore ==
  ASSUME NEW R, NEW rows \in Seq(R), NEW r
  PROVE  LET more == rows \o <<r>> IN
         /\ \E Q : more \in Seq(Q)
         /\ Len(rows) \in Nat /\ DOMAIN rows = 1..Len(rows)
         /\ Len(more) = Len(rows) + 1 /\ DOMAIN more = 1..(Len(rows) + 1) /\ more[Len(rows) + 1] = r
         /\ \A k \in DOMAIN rows : more[k] = rows[k]
<1> DEFINE Q == R \cup {r}
           more == rows \o <<r>>
<1>1. rows \in Seq(Q) /\ <<r>> \in Seq(Q) /\ Len(<<r>>) = 1 /\ <<r>>[1] = r
  OBVIOUS
<1>2. Len(rows) \in Nat /\ DOMAIN rows = 1..Len(rows)
  OBVIOUS
<1> DEFINE one == <<r>>
<1> HIDE DEF Q, one
<1>3. /\ rows \o one \in Seq(Q) /\ Len(rows \o one) = Len(rows) + Len(one)
      /\ \A i \in 1 .. Len(rows) + Len(one) : (rows \o one)[i] = IF i <= Len(rows) THEN rows[i] ELSE one[i - Len(rows)]
  BY <1>1, ConcatProperties DEF one
<1>4. Len(one) = 1 /\ one[1] = r
  BY <1>1 DEF one
<1>5. DOMAIN (rows \o one) = 1..(Len(rows) + 1)
  BY <1>2, <1>3, <1>4
<1>6. (rows \o one)[Len(rows) + 1] = r /\ \A k \in DOMAIN rows : (rows \o one)[k] = rows[k]
  BY <1>2, <1>3, <1>4
<1>7. QED
  BY <1>2, <1>3, <1>4, <1>5, <1>6 DEF one

\* What an item and its audit may become in a step: nothing new, the next
\* version's row, the item after its row, or both at once.
Grows(rows, it, more, next) ==
  \/ more = rows /\ next = it
  \/ \E r : /\ r.version = it.version + 1
            /\ \/ more = rows \o <<r>> /\ next \in {it, r}
               \/ more = rows /\ next = r /\ rows # <<>> /\ rows[Len(rows)] = r

\* It stays in step, and what it told it keeps telling.
LEMMA TrailGrows ==
  ASSUME NEW rows, NEW it, NEW more, NEW next, Trail(rows, it), Grows(rows, it, more, next)
  PROVE  /\ Trail(more, next) /\ it.version <= next.version
         /\ \A u \in 1..it.version : more[Max(OfVersion(more, u))] = rows[Max(OfVersion(rows, u))]
<1> DEFINE v == it.version
<1>1. /\ v \in Nat
      /\ \A k \in DOMAIN rows : rows[k].version \in 1..(v + 1)
      /\ \A u \in 1..v : OfVersion(rows, u) # {}
      /\ v # 0 => rows[Max(OfVersion(rows, v))] = it
  BY DEF Trail
<1>2. PICK R : rows \in Seq(R)
  BY DEF Trail
<1>3. Len(rows) \in Nat /\ DOMAIN rows = 1..Len(rows)
  BY <1>2
<1>4. \A u \in 1..v : Max(OfVersion(rows, u)) \in OfVersion(rows, u)
  <2>1. ASSUME NEW u \in 1..v PROVE OfVersion(rows, u) \in SUBSET (1..Len(rows))
    BY <1>3 DEF OfVersion
  <2>2. QED
    BY <1>1, <1>3, <2>1, MaxIs
<1>5. CASE more = rows /\ next = it
  BY <1>1, <1>5
<1>6. ASSUME NEW r, r.version = v + 1, more = rows \o <<r>>, next \in {it, r}
      PROVE  /\ Trail(more, next) /\ v <= next.version
             /\ \A u \in 1..v : more[Max(OfVersion(more, u))] = rows[Max(OfVersion(rows, u))]
  <2> DEFINE n == Len(rows)
  <2>1. /\ \E Q : more \in Seq(Q)
        /\ DOMAIN more = 1..(n + 1) /\ more[n + 1] = r /\ \A k \in 1..n : more[k] = rows[k]
    BY <1>2, <1>3, <1>6, OneRowMore
  <2>2. n \in Nat /\ DOMAIN rows = 1..n
    BY <1>3
  <2> HIDE DEF n
  <2>3. \A u \in 1..v : OfVersion(more, u) = OfVersion(rows, u)
    <3>1. ASSUME NEW u \in 1..v, NEW k \in 1..(n + 1) PROVE (more[k].version = u) <=> (k \in 1..n /\ rows[k].version = u)
      BY <1>1, <1>6, <2>1, <2>2, <3>1
    <3>2. QED
      BY <2>1, <2>2, <3>1 DEF OfVersion
  <2>4. \A u \in 1..v : more[Max(OfVersion(more, u))] = rows[Max(OfVersion(rows, u))]
    BY <1>4, <2>1, <2>2, <2>3 DEF OfVersion
  <2>5. \A k \in DOMAIN more : more[k].version \in 1..(v + 1)
    BY <1>1, <1>6, <2>1, <2>2
  <2>6. CASE next = it
    <3>1. v # 0 => more[Max(OfVersion(more, v))] = it
      BY <1>1, <2>4
    <3>2. QED
      BY <1>1, <2>1, <2>3, <2>4, <2>5, <2>6, <3>1 DEF Trail
  <2>7. CASE next = r
    <3>1. n + 1 \in OfVersion(more, v + 1) /\ OfVersion(more, v + 1) \in SUBSET (1..(n + 1)) /\ n + 1 \in Nat
      BY <1>6, <2>1, <2>2 DEF OfVersion
    <3>2. Max(OfVersion(more, v + 1)) = n + 1
      <4> DEFINE x == Max(OfVersion(more, v + 1))
      <4>1. x \in OfVersion(more, v + 1) /\ n + 1 <= x
        BY <3>1, MaxIs
      <4>2. x \in 1..(n + 1)
        BY <3>1, <4>1
      <4> HIDE DEF x
      <4>3. x = n + 1
        BY <2>2, <4>1, <4>2
      <4>4. QED
        BY <4>3 DEF x
    <3>3. \A u \in 1..(v + 1) : OfVersion(more, u) # {}
      BY <1>1, <2>3, <3>1
    <3>4. next.version = v + 1 /\ v + 1 \in Nat
      BY <1>1, <1>6, <2>7
    <3>5. \A k \in DOMAIN more : more[k].version \in 1..(v + 2)
      BY <1>1, <2>5
    <3>6. Trail(more, next)
      BY <2>1, <2>7, <3>2, <3>3, <3>4, <3>5 DEF Trail
    <3>7. QED
      BY <1>1, <2>4, <3>4, <3>6
  <2>8. QED
    BY <1>6, <2>6, <2>7
<1>7. ASSUME NEW r, r.version = v + 1, more = rows, next = r, rows # <<>>, rows[Len(rows)] = r
      PROVE  Trail(more, next) /\ v <= next.version
  <2> DEFINE n == Len(rows)
  <2>1. n \in Nat /\ n >= 1 /\ DOMAIN rows = 1..n /\ rows[n] = r
    BY <1>2, <1>3, <1>7
  <2> HIDE DEF n
  <2>2. n \in OfVersion(rows, v + 1) /\ OfVersion(rows, v + 1) \in SUBSET (1..n)
    BY <1>7, <2>1 DEF OfVersion
  <2>3. Max(OfVersion(rows, v + 1)) = n
    <3> DEFINE x == Max(OfVersion(rows, v + 1))
    <3>1. x \in OfVersion(rows, v + 1) /\ n <= x
      BY <2>1, <2>2, MaxIs
    <3>2. x \in 1..n
      BY <2>2, <3>1
    <3> HIDE DEF x
    <3>3. x = n
      BY <2>1, <3>1, <3>2
    <3>4. QED
      BY <3>3 DEF x
  <2>4. \A u \in 1..(v + 1) : OfVersion(rows, u) # {}
    BY <1>1, <2>2
  <2>5. \A k \in DOMAIN rows : rows[k].version \in 1..(v + 2)
    BY <1>1
  <2>6. next.version = v + 1 /\ v + 1 \in Nat
    BY <1>1, <1>7
  <2>7. QED
    BY <1>1, <1>2, <1>7, <2>1, <2>3, <2>4, <2>5, <2>6 DEF Trail
<1>8. QED
  BY <1>5, <1>6, <1>7 DEF Grows

-----------------------------------------------------------------------------
(* The histories stand.                                                     *)

\* A write of an item of this hub: on files it brings the next version until
\* the item is put, and by then the version's row is the last; in a transaction
\* it does to the end, and holds the item's row, if there is one, on Postgres.
NextUp(b, c, n, it, rows) ==
  /\ IF b = "jsonl"
     THEN /\ Head(c.todo) \in {"audit", "put"} => n.record.version = it.version + 1
          /\ Head(c.todo) = "put" => rows # <<>> /\ rows[Len(rows)] = n.record
     ELSE n.record.version = it.version + 1
  /\ b = "postgres" /\ it # NoItem => n.id \in c.locked
InStep(w, n) == NextUp(backend, call[w], n, items[n.id], audit[n.id])

\* No two have the same item in hand.
HistInv ==
  /\ \A i \in Ids \ Published : Trail(audit[i], items[i])
  /\ \A w \in Active : \A n \in call[w].new : n.id \notin Published => InStep(w, n)
  /\ \A w, o \in Active : \A n \in call[w].new, m \in call[o].new :
       n.id = m.id /\ n.id \notin Published => w = o

\* A set of one as a sequence.
LEMMA OneInSeq ==
  ASSUME NEW r
  PROVE  SetToSeq({r}) = <<r>>
<1>1. IsFiniteSet({r}) /\ Cardinality({r}) = 1
  BY FS_Singleton
<1>2. SetToSeq({r}) = CHOOSE f \in [1..1 -> {r}] : IsInjective(f)
  BY <1>1 DEF SetToSeq
<1>3. <<r>> \in [1..1 -> {r}] /\ IsInjective(<<r>>)
  BY DEF IsInjective
<1>4. SetToSeq({r}) \in [1..1 -> {r}]
  BY <1>2, <1>3
<1>5. QED
  BY <1>4

\* And of none.
LEMMA NoneInSeq == SetToSeq({}) = <<>>
<1>1. Cardinality({}) = 0
  BY FS_EmptySet
<1>2. SetToSeq({}) = CHOOSE f \in [1..0 -> {}] : IsInjective(f)
  BY <1>1 DEF SetToSeq
<1>3. <<>> \in [1..0 -> {}] /\ IsInjective(<<>>)
  BY DEF IsInjective
<1>4. SetToSeq({}) \in [1..0 -> {}]
  BY <1>2, <1>3
<1>5. QED
  BY <1>4

\* What a write brings for an item: nothing, or its one record.
Brought(w, i) ==
  \/ Put(w)[i] = items[i] /\ Audited(w)[i] = audit[i]
  \/ \E n \in call[w].new : /\ n.id = i /\ call[w].new = {n}
                            /\ Put(w)[i] = n.record /\ Audited(w)[i] = audit[i] \o <<n.record>>

\* Each write has one record or none.
LEMMA Brings ==
  ASSUME CallsInv, NEW w \in Active, NEW i \in Ids, NEW R, audit[i] \in Seq(R)
  PROVE  Brought(w, i)
<1>1. /\ Put(w)[i] = CHOOSE r \in New(w, i) \cup {items[i]} : New(w, i) # {} => r \in New(w, i)
      /\ Audited(w)[i] = audit[i] \o SetToSeq(New(w, i))
  BY DEF Put, Audited
<1>2. CASE New(w, i) = {}
  <2>1. Put(w)[i] = items[i]
    BY <1>1, <1>2
  <2>2. Audited(w)[i] = audit[i]
    BY <1>1, <1>2, NoneInSeq, ConcatEmptySeq
  <2>3. QED
    BY <2>1, <2>2 DEF Brought
<1>3. CASE New(w, i) # {}
  <2>1. PICK n \in call[w].new : n.id = i
    BY <1>3 DEF New
  <2>2. call[w].new = {n}
    BY DEF CallsInv
  <2>3. New(w, i) = {n.record}
    BY <2>1, <2>2 DEF New
  <2>4. Put(w)[i] = n.record
    BY <1>1, <2>3
  <2>5. Audited(w)[i] = audit[i] \o <<n.record>>
    BY <1>1, <2>3, OneInSeq
  <2>6. QED
    BY <2>1, <2>2, <2>4, <2>5 DEF Brought
<1>4. QED
  BY <1>2, <1>3

\* A step that writes rows or items belongs to one write: on files to the only
\* one, which has more to do, in a transaction to its end.
Writes(w) == WriteAudit(w) \/ WriteItem(w) \/ Commit(w)

\* It makes of each item and its audit what may become of them.
LEMMA ItemsGrow ==
  ASSUME CallsInv, HistInv, NEW w, Writes(w), NEW i \in Ids \ Published
  PROVE  /\ Grows(audit[i], items[i], audit'[i], items'[i])
         /\ (audit'[i] = audit[i] /\ items'[i] = items[i]) \/ (\E n \in call[w].new : n.id = i)
<1>1. w \in Active /\ i \in Ids
  BY DEF Writes, WriteAudit, WriteItem, Commit, To
<1>2. PICK R : audit[i] \in Seq(R)
  BY DEF HistInv, Trail
<1>3. /\ audit'[i] \in {audit[i], Audited(w)[i]} /\ items'[i] \in {items[i], Put(w)[i]}
      /\ WriteAudit(w) => items'[i] = items[i]
  BY DEF Writes, WriteAudit, WriteItem, Commit
<1>4. CASE Put(w)[i] = items[i] /\ Audited(w)[i] = audit[i]
  BY <1>3, <1>4 DEF Grows
<1>5. ASSUME NEW n \in call[w].new, n.id = i, call[w].new = {n},
             Put(w)[i] = n.record, Audited(w)[i] = audit[i] \o <<n.record>>
      PROVE  Grows(audit[i], items[i], audit'[i], items'[i])
  <2>1. InStep(w, n) /\ call[w].new # {}
    BY <1>1, <1>5 DEF HistInv
  <2>2. CASE WriteAudit(w)
    <3>1. Head(call[w].todo) = "audit" /\ items'[i] = items[i] /\ audit'[i] = audit[i] \o <<n.record>>
      BY <1>5, <2>2 DEF WriteAudit, To
    <3>2. n.record.version = items[i].version + 1
      BY <1>5, <2>1, <3>1 DEF InStep, NextUp
    <3>3. QED
      BY <3>1, <3>2 DEF Grows
  <2>3. CASE WriteItem(w)
    <3>1. Head(call[w].todo) = "put" /\ items'[i] = n.record /\ audit'[i] = audit[i]
      BY <1>5, <2>3 DEF WriteItem, To
    <3>2. backend = "jsonl"
      BY <1>1, <2>1, <3>1, StageIsDone
    <3>3. n.record.version = items[i].version + 1 /\ audit[i] # <<>> /\ audit[i][Len(audit[i])] = n.record
      BY <1>5, <2>1, <3>1, <3>2 DEF InStep, NextUp
    <3>4. QED
      BY <3>1, <3>3 DEF Grows
  <2>4. CASE Commit(w)
    <3>1. Head(call[w].todo) = "commit" /\ items'[i] = n.record /\ audit'[i] = audit[i] \o <<n.record>>
      BY <1>5, <2>4 DEF Commit, To
    <3>2. backend # "jsonl"
      BY <1>1, <2>1, <3>1, StageIsDone
    <3>3. n.record.version = items[i].version + 1
      BY <1>5, <2>1, <3>2 DEF InStep, NextUp
    <3>4. QED
      BY <3>1, <3>3 DEF Grows
  <2>5. QED
    BY <2>2, <2>3, <2>4 DEF Writes
<1>6. Brought(w, i)
  BY <1>1, <1>2, Brings
<1>7. QED
  BY <1>3, <1>4, <1>5, <1>6 DEF Brought

\* One caller's write becomes c.
LEMMA HistFrom ==
  ASSUME CallsInv, HistInv, NEW w \in Callers, NEW c, call' = [call EXCEPT ![w] = c], backend' = backend,
         \A i \in Ids \ Published : Trail(audit'[i], items'[i]),
         \A o \in Active \ {w} : \A m \in call[o].new : m.id \notin Published =>
           items'[m.id] = items[m.id] /\ audit'[m.id] = audit[m.id],
         c.todo # <<>> => \A n \in c.new : n.id \notin Published =>
           /\ NextUp(backend, c, n, items'[n.id], audit'[n.id])
           /\ \A o \in Active \ {w} : \A m \in call[o].new : n.id # m.id
  PROVE  HistInv'
<1>1. /\ call'[w] = c /\ \A o \in Callers \ {w} : call'[o] = call[o]
      /\ Active' = (Active \ {w}) \cup (IF c.todo = <<>> THEN {} ELSE {w})
  BY ActiveAfter
<1>2. Active \subseteq Callers
  BY DEF Active
<1>3. \A o \in Active' : (o = w /\ c.todo # <<>> /\ call'[o] = c) \/ (o \in Active \ {w} /\ call'[o] = call[o])
  BY <1>1, <1>2
<1>4. ASSUME NEW o \in Active', NEW n \in call'[o].new, n.id \notin Published
      PROVE  InStep(o, n)'
  <2>1. InStep(o, n)' <=> NextUp(backend', call'[o], n, items'[n.id], audit'[n.id])
    BY DEF InStep
  <2>2. CASE o = w /\ c.todo # <<>> /\ call'[o] = c
    BY <1>4, <2>1, <2>2
  <2>3. CASE o \in Active \ {w} /\ call'[o] = call[o]
    <3>1. InStep(o, n)
      BY <1>4, <2>3 DEF HistInv
    <3>2. items'[n.id] = items[n.id] /\ audit'[n.id] = audit[n.id]
      BY <1>4, <2>3
    <3>3. QED
      BY <2>1, <2>3, <3>1, <3>2 DEF InStep
  <2>4. QED
    BY <1>3, <2>2, <2>3
<1>5. ASSUME NEW o \in Active', NEW p \in Active', NEW n \in call'[o].new, NEW m \in call'[p].new,
             n.id = m.id, n.id \notin Published
      PROVE  o = p
  <2>1. CASE o \in Active \ {w} /\ call'[o] = call[o] /\ p \in Active \ {w} /\ call'[p] = call[p]
    BY <1>5, <2>1 DEF HistInv
  <2>2. CASE o = w \/ p = w
    <3>1. (w \in Active' /\ c.todo # <<>>) \/ (o # w /\ p # w)
      BY <1>3, <2>2
    <3>2. QED
      BY <1>3, <1>5, <2>2
  <2>3. QED
    BY <1>3, <2>1, <2>2
<1>6. \A i \in Ids \ Published : Trail(audit[i], items[i])'
  OBVIOUS
<1>7. QED
  BY <1>4, <1>5, <1>6 DEF HistInv

\* A write begins.
LEMMA HistBegun ==
  ASSUME CallsInv, HistInv, NEW w \in Callers, Begun(w)
  PROVE  HistInv'
<1>1. PICK ids, c : Opened(w, ids, c) /\ Drafted(c, ids) /\ Credited(c)
  BY DEF Begun
<1>2. /\ call' = [call EXCEPT ![w] = c] /\ backend' = backend /\ items' = items /\ audit' = audit
      /\ Free(w, ids) /\ c.locked = {i \in ids : Held(i)}
  BY <1>1 DEF Opened
<1>3. ASSUME c.todo # <<>>, NEW n \in c.new, n.id \notin Published
      PROVE  /\ NextUp(backend, c, n, items[n.id], audit[n.id])
             /\ \A o \in Active \ {w} : \A m \in call[o].new : n.id # m.id
  <2>1. ids = {n.id} /\ Follows(n) /\ c.new # {}
    BY <1>1 DEF Drafted
  <2>2. n.record.version = items[n.id].version + 1 /\ (Held(n.id) \/ Alone(n.id))
    BY <1>3, <2>1 DEF Follows
  <2>3. backend = "jsonl" => Head(c.todo) = "audit"
    BY <1>1, <1>3, <2>1, BegunIsCall
  <2>4. items[n.id] # NoItem => n.id \in c.locked
    BY <1>2, <2>1 DEF Held
  <2>5. NextUp(backend, c, n, items[n.id], audit[n.id])
    BY <2>2, <2>3, <2>4 DEF NextUp
  <2>6. ASSUME NEW o \in Active \ {w}, NEW m \in call[o].new, n.id = m.id
        PROVE  FALSE
    <3>1. Held(n.id)
      BY <2>2, <2>6 DEF Alone
    <3>2. backend = "postgres" /\ n.id \notin call[o].locked
      BY <1>2, <2>1, <2>6 DEF Free
    <3>3. InStep(o, m)
      BY <1>3, <2>6 DEF HistInv
    <3>4. QED
      BY <2>6, <3>1, <3>2, <3>3 DEF InStep, NextUp, Held
  <2>7. QED
    BY <2>5, <2>6
<1>4. \A i \in Ids \ Published : Trail(audit'[i], items'[i])
  BY <1>2 DEF HistInv
<1>5. QED
  BY <1>2, <1>3, <1>4, HistFrom

\* A step that gives a write up or does another stage of it.
LEMMA HistAdvances ==
  ASSUME CallsInv, HistInv, NEW w \in Callers, UNCHANGED <<backend, items, audit>>,
         (Advances(w) /\ Head(call[w].todo) # "audit") \/ call' = [call EXCEPT ![w] = Idle]
  PROVE  HistInv'
<1>1. PICK c : /\ call' = [call EXCEPT ![w] = c]
               /\ \/ c.todo = <<>>
                  \/ /\ w \in Active /\ c = Rest(call[w]) /\ Len(call[w].todo) # 1
                     /\ Head(call[w].todo) # "audit"
  <2>1. Idle.todo = <<>>
    BY DEF Idle
  <2>2. CASE call' = [call EXCEPT ![w] = Idle]
    BY <2>1, <2>2
  <2>3. CASE Advances(w) /\ Head(call[w].todo) # "audit"
    BY <2>3, AdvancesTo DEF Advances
  <2>4. QED
    BY <2>2, <2>3
<1>2. ASSUME c.todo # <<>>, NEW n \in c.new, n.id \notin Published
      PROVE  /\ NextUp(backend, c, n, items[n.id], audit[n.id])
             /\ \A o \in Active \ {w} : \A m \in call[o].new : n.id # m.id
  <2>1. w \in Active /\ c = Rest(call[w]) /\ Len(call[w].todo) # 1 /\ Head(call[w].todo) # "audit"
    BY <1>1, <1>2
  <2>2. c = [todo |-> Tail(call[w].todo), new |-> call[w].new, st |-> call[w].st, rows |-> call[w].rows,
             locked |-> call[w].locked]
    BY <2>1, StageIsDone
  <2>3. c.todo = Tail(call[w].todo) /\ c.new = call[w].new /\ c.locked = call[w].locked
    BY <2>2
  <2>4. InStep(w, n)
    BY <1>2, <2>1, <2>3 DEF HistInv
  <2>5. backend = "jsonl" => Head(c.todo) \notin {"audit", "put"}
    <3>1. call[w].new # {}
      BY <1>2, <2>3
    <3>2. QED
      BY <2>1, <2>3, <3>1, StageIsDone
  <2>6. NextUp(backend, c, n, items[n.id], audit[n.id])
    BY <2>3, <2>4, <2>5 DEF InStep, NextUp
  <2>7. \A o \in Active \ {w} : \A m \in call[o].new : n.id # m.id
    BY <1>2, <2>1, <2>3 DEF HistInv
  <2>8. QED
    BY <2>6, <2>7
<1>3. \A i \in Ids \ Published : Trail(audit'[i], items'[i])
  BY DEF HistInv
<1>4. backend' = backend /\ items' = items /\ audit' = audit
  OBVIOUS
<1>5. QED
  BY <1>1, <1>2, <1>3, <1>4, HistFrom

\* A step that writes rows or items.
LEMMA HistWritten ==
  ASSUME CallsInv, HistInv, NEW w, Writes(w)
  PROVE  HistInv'
<1>1. w \in Active /\ w \in Callers /\ Advances(w) /\ backend' = backend
  <2>1. WriteStep(w)
    BY DEF Writes, WriteStep
  <2>2. QED
    BY <2>1, WriteStepAdvances DEF Advances, Active
<1>2. PICK c : /\ call' = [call EXCEPT ![w] = c]
               /\ c.todo = <<>> \/ (c = Rest(call[w]) /\ Len(call[w].todo) # 1)
  BY <1>1, AdvancesTo
<1>3. \A i \in Ids \ Published : Trail(audit'[i], items'[i])
  <2>1. ASSUME NEW i \in Ids \ Published PROVE Trail(audit'[i], items'[i])
    <3>1. Trail(audit[i], items[i]) /\ Grows(audit[i], items[i], audit'[i], items'[i])
      BY ItemsGrow DEF HistInv
    <3>2. QED
      BY <3>1, TrailGrows
  <2>2. QED
    BY <2>1
<1>4. ASSUME NEW o \in Active \ {w}, NEW m \in call[o].new, m.id \notin Published
      PROVE  items'[m.id] = items[m.id] /\ audit'[m.id] = audit[m.id]
  <2>1. m.id \in Ids \ Published
    BY <1>4 DEF CallsInv, Carried
  <2>2. ~\E n \in call[w].new : n.id = m.id
    BY <1>1, <1>4 DEF HistInv
  <2>3. QED
    BY <2>1, <2>2, ItemsGrow
<1>5. ASSUME c.todo # <<>>, NEW n \in c.new, n.id \notin Published
      PROVE  /\ NextUp(backend, c, n, items'[n.id], audit'[n.id])
             /\ \A o \in Active \ {w} : \A m \in call[o].new : n.id # m.id
  <2>1. c = Rest(call[w]) /\ Len(call[w].todo) # 1
    BY <1>2, <1>5
  <2>2. c = [todo |-> Tail(call[w].todo), new |-> call[w].new, st |-> call[w].st, rows |-> call[w].rows,
             locked |-> call[w].locked]
    BY <1>1, <2>1, StageIsDone
  <2>3. c.todo = Tail(call[w].todo) /\ c.new = call[w].new
    BY <2>2
  <2>4. InStep(w, n) /\ call[w].new # {} /\ n.id \in Ids \ Published
    BY <1>1, <1>5, <2>3 DEF HistInv, CallsInv, Carried
  <2>5. \A o \in Active \ {w} : \A m \in call[o].new : n.id # m.id
    BY <1>1, <1>5, <2>3 DEF HistInv
  <2>6. backend = "jsonl"
    <3>1. Head(call[w].todo) \in {"audit", "put", "commit"}
      BY DEF Writes, WriteAudit, WriteItem, Commit, To
    <3>2. QED
      BY <1>1, <2>1, <2>4, <3>1, StageIsDone
  <2>7. CASE Head(call[w].todo) # "audit"
    <3>1. Head(c.todo) \notin {"audit", "put"}
      BY <1>1, <2>1, <2>3, <2>4, <2>6, <2>7, StageIsDone
    <3>2. QED
      BY <2>5, <2>6, <3>1 DEF NextUp
  <2>8. CASE Head(call[w].todo) = "audit"
    <3>1. Head(c.todo) = "put"
      BY <1>1, <2>3, <2>4, <2>6, <2>8, StageIsDone
    <3>2. WriteAudit(w)
      BY <2>8 DEF Writes, WriteItem, Commit, To
    <3>3. items' = items /\ audit' = Audited(w)
      BY <3>2 DEF WriteAudit
    <3>4. PICK R : audit[n.id] \in Seq(R)
      BY <2>4 DEF HistInv, Trail
    <3>5. audit'[n.id] = audit[n.id] \o <<n.record>>
      <4>1. call[w].new = {n}
        BY <1>1, <1>5, <2>3 DEF CallsInv
      <4>2. New(w, n.id) = {n.record}
        BY <4>1 DEF New
      <4>3. audit'[n.id] = audit[n.id] \o SetToSeq({n.record})
        BY <2>4, <3>3, <4>2 DEF Audited
      <4>4. QED
        BY <4>3, OneInSeq
    <3>6. audit'[n.id] # <<>> /\ audit'[n.id][Len(audit'[n.id])] = n.record
      <4> DEFINE more == audit[n.id] \o <<n.record>>
      <4>1. Len(audit[n.id]) \in Nat /\ Len(more) = Len(audit[n.id]) + 1 /\ more[Len(audit[n.id]) + 1] = n.record
        BY <3>4, OneRowMore
      <4>2. Len(<<>>) = 0
        OBVIOUS
      <4> HIDE DEF more
      <4>3. more # <<>> /\ more[Len(more)] = n.record
        BY <4>1, <4>2
      <4>4. QED
        BY <3>5, <4>3 DEF more
    <3>7. n.record.version = items[n.id].version + 1
      BY <2>4, <2>6, <2>8 DEF InStep, NextUp
    <3>8. QED
      BY <2>5, <2>6, <3>3, <3>6, <3>7 DEF NextUp
  <2>9. QED
    BY <2>7, <2>8
<1>6. QED
  BY <1>1, <1>2, <1>3, <1>4, <1>5, HistFrom

\* At first nothing was written.
LEMMA HistBegins ==
  ASSUME MemoryInit
  PROVE  HistInv
<1>1. items = [i \in Ids |-> NoItem] /\ audit = [i \in Ids |-> <<>>] /\ call = [w \in Callers |-> Idle]
  BY DEF MemoryInit
<1>2. Active = {}
  BY <1>1 DEF Active, Idle
<1>3. <<>> \in Seq({}) /\ DOMAIN <<>> = {} /\ NoItem.version = 0 /\ 1..0 = {}
  BY DEF NoItem
<1>4. Trail(<<>>, NoItem)
  BY <1>3 DEF Trail
<1>5. QED
  BY <1>1, <1>2, <1>4 DEF HistInv

\* And in step they stay.
LEMMA HistStays ==
  ASSUME ItemsInv, CallsInv, HistInv, [MemoryNext]_memoryVars
  PROVE  HistInv' /\ (UNCHANGED <<items, audit>> \/ \E w \in Callers : Writes(w))
<1>1. CASE Rested
  <2>1. UNCHANGED <<backend, items, audit, call>>
    BY <1>1 DEF Rested
  <2>2. QED
    BY <2>1 DEF HistInv, Active, InStep
<1>2. ASSUME NEW w \in Callers, Begun(w)
      PROVE  HistInv' /\ UNCHANGED <<items, audit>>
  BY <1>2, HistBegun DEF Begun, Opened
<1>3. ASSUME NEW w \in Callers, WriteStep(w), ~Writes(w)
      PROVE  HistInv' /\ UNCHANGED <<items, audit>>
  <2>1. Head(call[w].todo) # "audit" \/ call' = [call EXCEPT ![w] = Idle]
    BY <1>3 DEF WriteStep, Writes, Announce, LockedOut, WriteStates, WriteCredits, RollBack, To
  <2>2. UNCHANGED <<backend, items, audit>>
    BY <1>3 DEF WriteStep, Writes, Announce, LockedOut, WriteStates, WriteCredits, RollBack
  <2>3. Advances(w)
    BY <1>3, WriteStepAdvances
  <2>4. QED
    BY <2>1, <2>2, <2>3, HistAdvances
<1>4. ASSUME NEW w \in Callers, Die(w)
      PROVE  HistInv' /\ UNCHANGED <<items, audit>>
  <2>1. UNCHANGED <<backend, items, audit>> /\ call' = [call EXCEPT ![w] = Idle]
    BY <1>4 DEF Die
  <2>2. QED
    BY <2>1, HistAdvances
<1>5. QED
  BY <1>1, <1>2, <1>3, <1>4, HistWritten, MemorySteps DEF Rested

\* What a history is told by.
LEMMA HistoryIs == \A i : History(i) = Tells(audit[i], items[i].version)
BY DEF History, Reached, Tells, Within

\* What a step that writes makes of an item's history.
LEMMA HistoryGrows ==
  ASSUME ItemsInv, ItemsInv', CallsInv, HistInv, NEW w \in Callers, Writes(w), NEW i \in Ids
  PROVE  /\ Whole(i)'
         /\ Mine(i) => \A v \in DOMAIN History(i) : v \in DOMAIN History(i)' /\ History(i)'[v] = History(i)[v]
<1>1. Mine(i) => i \notin Published
  BY DEF Mine, Held, ItemsInv
<1>2. Mine(i)' => i \notin Published /\ items'[i].version # 0
  <2>1. SUFFICES ASSUME items'[i] # NoItem, items'[i].authority = Self
        PROVE  i \notin Published /\ items'[i].version # 0
    BY DEF Mine, Held
  <2>2. IsRecord(items'[i]) /\ i \notin Published
    BY <2>1 DEF ItemsInv
  <2>3. QED
    BY <2>2 DEF IsRecord
<1>3. CASE i \in Published
  BY <1>1, <1>2, <1>3 DEF Whole
<1>4. CASE i \notin Published
  <2> DEFINE rows == audit[i]
             it   == items[i]
             more == audit'[i]
             next == items'[i]
  <2>1. Trail(rows, it) /\ Grows(rows, it, more, next)
    BY <1>4, ItemsGrow DEF HistInv
  <2>2. History(i) = Tells(rows, it.version) /\ History(i)' = Tells(more, next.version)
    <3>1. History(i)' = Tells(more, next.version)
      BY DEF History, Reached, Tells, Within
    <3>2. QED
      BY <3>1, HistoryIs
  <2> HIDE DEF rows, it, more, next
  <2>3. /\ Trail(more, next) /\ it.version <= next.version
        /\ \A u \in 1..it.version : more[Max(OfVersion(more, u))] = rows[Max(OfVersion(rows, u))]
    BY <2>1, TrailGrows
  <2>4. it.version \in Nat /\ next.version \in Nat
    BY <2>1, <2>3 DEF Trail
  <2>5. /\ DOMAIN Tells(rows, it.version) = 1..it.version
        /\ \A u \in 1..it.version : Tells(rows, it.version)[u] = rows[Max(OfVersion(rows, u))]
    BY <2>1, TrailTells
  <2>6. /\ DOMAIN Tells(more, next.version) = 1..next.version
        /\ \A u \in 1..next.version : Tells(more, next.version)[u] = more[Max(OfVersion(more, u))]
        /\ next.version # 0 => Tells(more, next.version)[next.version] = next
    BY <2>3, TrailTells
  <2>7. \A v \in DOMAIN History(i) : v \in DOMAIN History(i)' /\ History(i)'[v] = History(i)[v]
    BY <2>2, <2>3, <2>4, <2>5, <2>6
  <2>8. Whole(i)'
    BY <1>2, <2>2, <2>6 DEF Whole, next
  <2>9. QED
    BY <2>7, <2>8
<1>5. QED
  BY <1>3, <1>4

\* The history of an item of this hub names every version it had and ends in
\* the item, whoever writes beside whom and wherever a writer dies, and what it
\* has once told it keeps telling (MemoryStore._record, _audits).
THEOREM HistoriesStand == MemorySpec => HistoryStands
<1> DEFINE Inv == ItemsInv /\ CallsInv /\ CreditInv /\ HistInv
<1>1. MemoryInit => Inv
  BY MemoryBegins, HistBegins
<1>2. Inv /\ [MemoryNext]_memoryVars => Inv'
  BY MemoryStays, HistStays
<1>3. Inv /\ [MemoryNext]_memoryVars =>
        [\A i \in Ids :
           /\ Whole(i)'
           /\ Mine(i) => \A v \in DOMAIN History(i) :
                           v \in DOMAIN History(i)' /\ History(i)'[v] = History(i)[v]]_<<items, audit>>
  <2>1. SUFFICES ASSUME Inv, [MemoryNext]_memoryVars
        PROVE  \/ UNCHANGED <<items, audit>>
               \/ \A i \in Ids :
                    /\ Whole(i)'
                    /\ Mine(i) => \A v \in DOMAIN History(i) :
                                    v \in DOMAIN History(i)' /\ History(i)'[v] = History(i)[v]
    OBVIOUS
  <2>2. ItemsInv'
    BY <2>1, MemoryStays
  <2>3. QED
    BY <2>1, <2>2, HistStays, HistoryGrows
<1>4. QED
  BY <1>1, <1>2, <1>3, PTL DEF MemorySpec, HistoryStands
=============================================================================
