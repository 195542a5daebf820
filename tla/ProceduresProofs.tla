-------------------------- MODULE ProceduresProofs --------------------------
(***************************************************************************)
(* What holds of the library, its pass, its chains and the filing of runs  *)
(* for any procedures, lessons, people, stores and trees of steps.         *)
(***************************************************************************)
EXTENDS ProceduresProps, SequenceTheorems, WellFoundedInduction, TLAPS

-----------------------------------------------------------------------------
(* The library's state.                                                     *)

Keys == {v \in Asops \X Nat : v[2] \in 1..MaxVersion[v[1]]}
VersionRecords ==
  [status : {"draft", "active", "superseded", "retired"}, human : BOOLEAN,
   entries : SUBSET Entries, chosen : BOOLEAN]
Store(vs) ==
  /\ vs = [v \in DOMAIN vs |-> vs[v]]
  /\ DOMAIN vs \subseteq Keys
  /\ \A v \in DOMAIN vs : vs[v] \in VersionRecords

LessonStates == {Unjudged, Pending} \cup [state : {"consumed", "dismissed"}, in : Nat]
PassStates ==
  {NoPass}
    \cup [stage : {"planning"}, pending : SUBSET Lessons]
    \cup [stage : {"drafting"}, entries : SUBSET Entries, todo : SUBSET Lessons, gone : SUBSET Lessons]
    \cup [stage : {"marking"}, version : Nat, todo : SUBSET Lessons, gone : SUBSET Lessons]

\* No store but Postgres lets an author read while another is at work.
OneAtATime == backend # "postgres" => asked = {} /\ overtaken = {}

LibraryTyped ==
  /\ Store(versions) /\ torn \subseteq DOMAIN versions
  /\ \A v \in DOMAIN versions : v[1] \in minted
  /\ OneAtATime
  /\ lesson \in [Lessons -> LessonStates]
  /\ pass \in [Passes -> PassStates]

\* The versions an author's write keeps: all of them, unless the read before
\* it came back empty.
Kept(w) == IF w \in overtaken THEN {} ELSE DOMAIN versions

\* What an author's read returns is a part of the library, as it is.
LEMMA ViewIsAPart ==
  ASSUME LibraryTyped, NEW w
  PROVE  /\ Store(View(w)) /\ DOMAIN View(w) = Kept(w) \ torn
         /\ \A v \in DOMAIN View(w) : View(w)[v] = versions[v]
         /\ Quarantined(w) = Kept(w) \cap torn
<1>1. CASE w \in overtaken
  <2>1. View(w) = <<>> /\ DOMAIN View(w) = {}
    BY <1>1 DEF View
  <2>2. QED
    BY <1>1, <2>1 DEF Store, Kept, Quarantined
<1>2. CASE w \notin overtaken
  <2>1. View(w) = [v \in DOMAIN versions \ torn |-> versions[v]]
    BY <1>2 DEF View, Readable
  <2>2. DOMAIN View(w) = DOMAIN versions \ torn /\ \A v \in DOMAIN View(w) : View(w)[v] = versions[v]
    BY <2>1
  <2>3. Store(View(w))
    BY <2>1, <2>2 DEF Store, LibraryTyped
  <2>4. QED
    BY <1>2, <2>2, <2>3 DEF Kept, Quarantined, LibraryTyped
<1>3. QED
  BY <1>1, <1>2

\* What WriteAll leaves behind.
LEMMA WritesAll ==
  ASSUME LibraryTyped, NEW w, NEW new, Store(new), WriteAll(w, new)
  PROVE  /\ Store(versions') /\ DOMAIN versions' = DOMAIN new \cup (Kept(w) \cap torn)
         /\ \A v \in DOMAIN new : versions'[v] = new[v]
         /\ \A v \in (Kept(w) \cap torn) \ DOMAIN new : versions'[v] = versions[v]
         /\ torn' = Kept(w) \cap torn
         /\ (backend' = backend => OneAtATime')
<1> DEFINE odd == Kept(w) \cap torn
<1>1. Quarantined(w) = odd
  BY ViewIsAPart
<1>2. versions' = [v \in (DOMAIN new) \cup odd |-> IF v \in DOMAIN new THEN new[v] ELSE versions[v]]
  BY <1>1 DEF WriteAll
<1>4. /\ DOMAIN versions' = DOMAIN new \cup odd
      /\ \A v \in DOMAIN new : versions'[v] = new[v]
      /\ \A v \in odd \ DOMAIN new : versions'[v] = versions[v]
  BY <1>2
<1>5. odd \subseteq DOMAIN versions
  BY DEF LibraryTyped, Kept
<1>6. versions' = [v \in DOMAIN versions' |-> versions'[v]]
  BY <1>2
<1> HIDE DEF odd
<1>7. Store(versions')
  BY <1>4, <1>5, <1>6 DEF Store, LibraryTyped
<1>8. backend' = backend => OneAtATime'
  BY DEF WriteAll, LibraryTyped, OneAtATime
<1>9. torn' = odd
  BY <1>1 DEF WriteAll
<1>10. QED
  BY <1>4, <1>7, <1>8, <1>9 DEF odd

\* A draft is added and nothing else is touched.
LEMMA DraftIsAdded ==
  ASSUME LibraryTyped, NEW w, NEW a \in Asops, NEW n \in 1..MaxVersion[a], NEW e \in SUBSET Entries,
         WriteAll(w, With(View(w), <<a, n>>, Draft(w, e)))
  PROVE  /\ Store(versions') /\ DOMAIN versions' = Kept(w) \cup {<<a, n>>}
         /\ versions'[<<a, n>>] = Draft(w, e)
         /\ \A v \in Kept(w) \ {<<a, n>>} : versions'[v] = versions[v]
         /\ torn' = Kept(w) \cap torn
         /\ (backend' = backend => OneAtATime')
<1> DEFINE view == View(w)
           t == <<a, n>>
           new == With(view, t, Draft(w, e))
<1>1. Store(view) /\ DOMAIN view = Kept(w) \ torn /\ \A v \in DOMAIN view : view[v] = versions[v]
  BY ViewIsAPart
<1>2. new = [v \in DOMAIN view \cup {t} |-> IF v = t THEN Draft(w, e) ELSE view[v]]
  BY DEF With
<1> HIDE DEF view
<1>3. t \in Keys
  BY LibraryAssumption DEF Keys
<1>4. Draft(w, e) \in VersionRecords
  BY DEF Draft, VersionRecords
<1>5. /\ DOMAIN new = {t} \cup DOMAIN view
      /\ new[t] = Draft(w, e) /\ \A v \in DOMAIN view \ {t} : new[v] = view[v]
      /\ new = [v \in DOMAIN new |-> new[v]]
  BY <1>2
<1>6. WriteAll(w, new)
  BY DEF view
<1> HIDE DEF new, t
<1>7. Store(new)
  BY <1>1, <1>3, <1>4, <1>5 DEF Store
<1>8. /\ Store(versions') /\ DOMAIN versions' = DOMAIN new \cup (Kept(w) \cap torn)
      /\ \A v \in DOMAIN new : versions'[v] = new[v]
      /\ \A v \in (Kept(w) \cap torn) \ DOMAIN new : versions'[v] = versions[v]
      /\ torn' = Kept(w) \cap torn
      /\ (backend' = backend => OneAtATime')
  BY <1>6, <1>7, WritesAll
<1>9. QED
  BY <1>1, <1>5, <1>8 DEF t

\* What becomes of a version when one of its procedure is activated, or retired.
AsActivated(w, a, n, v) ==
  IF v = <<a, n>> THEN [versions[v] EXCEPT !.status = "active", !.chosen = w \in Persons]
  ELSE IF v \notin torn /\ v[1] = a /\ versions[v].status = "active"
    THEN [versions[v] EXCEPT !.status = "superseded"] ELSE versions[v]
AsRetired(a, n, v) ==
  IF v = <<a, n>> THEN [versions[v] EXCEPT !.status = "retired"] ELSE versions[v]

\* Activating a version touches statuses alone, and of its procedure alone.
LEMMA OneIsActivated ==
  ASSUME LibraryTyped, NEW w, NEW a \in Asops, NEW n, Activate(w, a, n)
  PROVE  /\ <<a, n>> \in Kept(w) \ torn
         /\ Store(versions') /\ DOMAIN versions' = Kept(w)
         /\ \A v \in Kept(w) : versions'[v] = AsActivated(w, a, n, v)
         /\ torn' = Kept(w) \cap torn
         /\ OneAtATime'
<1> DEFINE view == View(w)
           t == <<a, n>>
           new == [v \in DOMAIN view |->
                     IF v = t THEN [view[v] EXCEPT !.status = "active", !.chosen = w \in Persons]
                     ELSE IF v[1] = a /\ view[v].status = "active"
                       THEN [view[v] EXCEPT !.status = "superseded"] ELSE view[v]]
<1>1. Store(view) /\ DOMAIN view = Kept(w) \ torn /\ \A v \in DOMAIN view : view[v] = versions[v]
  BY ViewIsAPart
<1>2. t \in DOMAIN view /\ WriteAll(w, new) /\ backend' = backend
  BY DEF Activate
<1> HIDE DEF view
<1>3. /\ DOMAIN new = DOMAIN view /\ new = [v \in DOMAIN new |-> new[v]]
      /\ \A v \in DOMAIN view :
            new[v] = IF v = t THEN [versions[v] EXCEPT !.status = "active", !.chosen = w \in Persons]
                     ELSE IF v[1] = a /\ versions[v].status = "active"
                       THEN [versions[v] EXCEPT !.status = "superseded"] ELSE versions[v]
  BY <1>1
<1> HIDE DEF new
<1>4. Store(new)
  <2>1. ASSUME NEW v \in DOMAIN view PROVE new[v] \in VersionRecords
    <3>1. versions[v] \in VersionRecords /\ (w \in Persons) \in BOOLEAN
      BY <1>1 DEF Store
    <3>2. QED
      BY <1>3, <3>1 DEF VersionRecords
  <2>2. QED
    BY <1>1, <1>3, <2>1 DEF Store
<1>5. /\ Store(versions') /\ DOMAIN versions' = DOMAIN new \cup (Kept(w) \cap torn)
      /\ \A v \in DOMAIN new : versions'[v] = new[v]
      /\ \A v \in (Kept(w) \cap torn) \ DOMAIN new : versions'[v] = versions[v]
      /\ torn' = Kept(w) \cap torn
      /\ OneAtATime'
  BY <1>2, <1>4, WritesAll
<1> HIDE DEF t
<1>6. \A v \in Kept(w) : versions'[v] = AsActivated(w, a, n, v)
  <2>1. ASSUME NEW v \in Kept(w), v \in torn
        PROVE  versions'[v] = versions[v] /\ v # t
    BY <1>1, <1>2, <1>3, <1>5, <2>1
  <2>2. ASSUME NEW v \in Kept(w), v \notin torn
        PROVE  v \in DOMAIN view /\ versions'[v] = new[v]
    BY <1>1, <1>3, <1>5, <2>2
  <2>3. QED
    BY <1>3, <2>1, <2>2 DEF AsActivated, t
<1>7. QED
  BY <1>1, <1>2, <1>3, <1>5, <1>6 DEF t

\* What retire() leaves behind.
LEMMA OneIsRetired ==
  ASSUME LibraryTyped, NEW w, NEW a \in Asops, Retire(w, a)
  PROVE  \E n \in 1..MaxVersion[a] :
         /\ <<a, n>> \in Kept(w) \ torn /\ versions[<<a, n>>].status = "active"
         /\ Store(versions') /\ DOMAIN versions' = Kept(w)
         /\ \A v \in Kept(w) : versions'[v] = AsRetired(a, n, v)
         /\ torn' = Kept(w) \cap torn
         /\ OneAtATime'
<1> DEFINE view == View(w)
<1>1. Store(view) /\ DOMAIN view = Kept(w) \ torn /\ \A v \in DOMAIN view : view[v] = versions[v]
  BY ViewIsAPart
<1>2. PICK n \in Active(view, a) : WriteAll(w, [view EXCEPT ![<<a, n>>].status = "retired"])
  BY DEF Retire
<1> DEFINE t == <<a, n>>
           new == [view EXCEPT ![t].status = "retired"]
<1>3. n \in 1..MaxVersion[a] /\ t \in DOMAIN view /\ view[t].status = "active" /\ backend' = backend
  BY <1>2 DEF Active, Numbers, Retire
<1>4. WriteAll(w, new)
  BY <1>2
<1> HIDE DEF view
<1>5. /\ DOMAIN new = DOMAIN view /\ new = [v \in DOMAIN new |-> new[v]]
      /\ \A v \in DOMAIN view :
            new[v] = IF v = t THEN [versions[v] EXCEPT !.status = "retired"] ELSE versions[v]
  BY <1>1, <1>3 DEF Store
<1> HIDE DEF new
<1>6. Store(new)
  <2>1. ASSUME NEW v \in DOMAIN view PROVE new[v] \in VersionRecords
    <3>1. versions[v] \in VersionRecords
      BY <1>1 DEF Store
    <3>2. QED
      BY <1>5, <3>1 DEF VersionRecords
  <2>2. QED
    BY <1>1, <1>5, <2>1 DEF Store
<1>7. /\ Store(versions') /\ DOMAIN versions' = DOMAIN new \cup (Kept(w) \cap torn)
      /\ \A v \in DOMAIN new : versions'[v] = new[v]
      /\ \A v \in (Kept(w) \cap torn) \ DOMAIN new : versions'[v] = versions[v]
      /\ torn' = Kept(w) \cap torn
      /\ OneAtATime'
  BY <1>3, <1>4, <1>6, WritesAll
<1> HIDE DEF t
<1>8. \A v \in Kept(w) : versions'[v] = AsRetired(a, n, v)
  <2>1. ASSUME NEW v \in Kept(w), v \in torn
        PROVE  versions'[v] = versions[v] /\ v # t
    BY <1>1, <1>3, <1>5, <1>7, <2>1
  <2>2. ASSUME NEW v \in Kept(w), v \notin torn
        PROVE  v \in DOMAIN view /\ versions'[v] = new[v]
    BY <1>1, <1>5, <1>7, <2>2
  <2>3. QED
    BY <1>5, <2>1, <2>2 DEF AsRetired, t
<1>9. QED
  BY <1>1, <1>3, <1>5, <1>7, <1>8 DEF t

\* Every set of numbers that has one has a least.
LEMMA LeastOfThem ==
  ASSUME NEW S \in SUBSET Nat, S # {}
  PROVE  \E n \in S : \A m \in S : n <= m
<1>1. PICK n \in S : \A m \in S : ~(<<m, n>> \in OpToRel(<, Nat))
  BY NatLessThanWellFounded, WFMin
<1>2. \A m \in S : ~(m < n)
  BY <1>1 DEF OpToRel
<1>3. QED
  BY <1>2

\* Every bounded set of numbers that has one has a greatest.
LEMMA GreatestOfThem ==
  ASSUME NEW k \in Nat, NEW S \in SUBSET (1..k), S # {}
  PROVE  \E n \in S : \A m \in S : m <= n
<1> DEFINE Caps == {x \in Nat : \A m \in S : m <= x}
<1>1. Caps # {}
  <2>1. k \in Caps
    OBVIOUS
  <2>2. QED
    BY <2>1
<1>2. PICK x \in Caps : \A y \in Caps : x <= y
  BY <1>1, LeastOfThem
<1>3. x \in S
  <2>1. SUFFICES ASSUME x \notin S PROVE FALSE
    OBVIOUS
  <2>2. x - 1 \in Nat
    <3>1. PICK m \in S : TRUE
      OBVIOUS
    <3>2. m \in 1..k /\ m <= x /\ x \in Nat
      BY <1>2, <3>1
    <3>3. QED
      BY <3>2
  <2>3. \A m \in S : m <= x - 1
    BY <1>2, <2>1
  <2>4. QED
    BY <1>2, <2>2, <2>3
<1>4. QED
  BY <1>2, <1>3

\* Latest is the last number there is.
LEMMA LatestIsLast ==
  ASSUME NEW view, NEW a \in Asops, Numbers(view, a) # {}
  PROVE  /\ Latest(view, a) \in Numbers(view, a) /\ Latest(view, a) \in 1..MaxVersion[a]
         /\ <<a, Latest(view, a)>> \in DOMAIN view
         /\ \A m \in Numbers(view, a) : m <= Latest(view, a)
<1>1. Numbers(view, a) \in SUBSET (1..MaxVersion[a]) /\ MaxVersion[a] \in Nat
  BY LibraryAssumption DEF Numbers
<1>2. \E n \in Numbers(view, a) : \A m \in Numbers(view, a) : m <= n
  BY <1>1, GreatestOfThem
<1>3. /\ Latest(view, a) \in Numbers(view, a)
      /\ \A m \in Numbers(view, a) : m <= Latest(view, a)
  BY <1>2 DEF Latest, Newest
<1>4. QED
  BY <1>1, <1>3 DEF Numbers

\* Where revise() goes on, the next version is a number of this instance, and
\* its read came back with the whole library.
LEMMA RevisedAdds ==
  ASSUME LibraryTyped, NEW w, NEW a \in Asops, NEW e \in SUBSET Entries, Revised(w, a, e)
  PROVE  LET n == Latest(View(w), a) IN
         /\ w \notin overtaken /\ torn = {} /\ n \in 1..MaxVersion[a] /\ n + 1 \in 1..MaxVersion[a]
         /\ <<a, n>> \in DOMAIN versions /\ <<a, n + 1>> \notin DOMAIN versions
         /\ Policed(w, View(w), a, versions[<<a, n>>].entries, e)
         /\ Store(versions') /\ DOMAIN versions' = DOMAIN versions \cup {<<a, n + 1>>}
         /\ versions'[<<a, n + 1>>] = Draft(w, e)
         /\ \A v \in DOMAIN versions : versions'[v] = versions[v]
         /\ torn' = torn
         /\ (backend' = backend => OneAtATime')
<1> DEFINE n == Latest(View(w), a)
<1>1. Numbers(View(w), a) # {} /\ n < MaxVersion[a] /\ Quarantined(w) = {}
  BY DEF Revised, ClearHistory
<1>2. /\ n \in Numbers(View(w), a) /\ n \in 1..MaxVersion[a] /\ <<a, n>> \in DOMAIN View(w)
      /\ \A m \in Numbers(View(w), a) : m <= n
  BY <1>1, LatestIsLast
<1>3. /\ DOMAIN View(w) = Kept(w) \ torn /\ Quarantined(w) = Kept(w) \cap torn
      /\ \A v \in DOMAIN View(w) : View(w)[v] = versions[v]
  BY ViewIsAPart
<1>4. w \notin overtaken
  BY <1>2, <1>3 DEF Kept
<1>5. Kept(w) = DOMAIN versions /\ torn = {} /\ DOMAIN View(w) = DOMAIN versions
  BY <1>1, <1>3, <1>4 DEF Kept, LibraryTyped
<1>6. /\ Policed(w, View(w), a, View(w)[<<a, n>>].entries, e)
      /\ WriteAll(w, With(View(w), <<a, n + 1>>, Draft(w, e)))
  BY DEF Revised
<1>7. MaxVersion[a] \in Nat
  BY LibraryAssumption
<1>8. n + 1 \in 1..MaxVersion[a]
  BY <1>1, <1>2, <1>7
<1>9. <<a, n + 1>> \notin DOMAIN versions
  <2>1. n + 1 \notin Numbers(View(w), a)
    BY <1>2, <1>7
  <2>2. QED
    BY <1>5, <1>8, <2>1 DEF Numbers
<1> DEFINE t == <<a, n + 1>>
<1>10. /\ Store(versions') /\ DOMAIN versions' = Kept(w) \cup {t}
       /\ versions'[t] = Draft(w, e)
       /\ \A v \in Kept(w) \ {t} : versions'[v] = versions[v]
       /\ torn' = Kept(w) \cap torn
       /\ (backend' = backend => OneAtATime')
  <2> HIDE DEF n
  <2>1. QED
    BY <1>6, <1>8, DraftIsAdded
<1>11. View(w)[<<a, n>>].entries = versions[<<a, n>>].entries
  BY <1>2, <1>3
<1> HIDE DEF n
<1>12. QED
  BY <1>2, <1>4, <1>5, <1>6, <1>8, <1>9, <1>10, <1>11 DEF n

\* A new procedure's first version.
LEMMA ProcedureIsAdded ==
  ASSUME LibraryTyped, NEW w, NEW a \in Asops, NEW e \in SUBSET Entries, NewProcedure(w, a, e)
  PROVE  /\ <<a, 1>> \notin DOMAIN versions /\ a \notin minted /\ minted' = minted \cup {a}
         /\ Store(versions') /\ DOMAIN versions' = Kept(w) \cup {<<a, 1>>}
         /\ versions'[<<a, 1>>] = Draft(w, e)
         /\ \A v \in Kept(w) : versions'[v] = versions[v]
         /\ torn' = Kept(w) \cap torn
         /\ OneAtATime'
<1>1. /\ a \notin minted /\ minted' = minted \cup {a} /\ backend' = backend
      /\ WriteAll(w, With(View(w), <<a, 1>>, Draft(w, e)))
  BY DEF NewProcedure
<1>2. 1 \in 1..MaxVersion[a]
  BY LibraryAssumption
<1>3. <<a, 1>> \notin DOMAIN versions /\ Kept(w) \subseteq DOMAIN versions
  BY <1>1 DEF LibraryTyped, Kept
<1>4. /\ Store(versions') /\ DOMAIN versions' = Kept(w) \cup {<<a, 1>>}
      /\ versions'[<<a, 1>>] = Draft(w, e)
      /\ \A v \in Kept(w) \ {<<a, 1>>} : versions'[v] = versions[v]
      /\ torn' = Kept(w) \cap torn
      /\ (backend' = backend => OneAtATime')
  BY <1>1, <1>2, DraftIsAdded
<1>5. QED
  BY <1>1, <1>3, <1>4

\* Every action of the library in one list.
LEMMA LibrarySteps ==
  ASSUME ProceduresNext
  PROVE  \/ UNCHANGED libraryVars
         \/ \E w \in Writers : Ask(w) \/ Refused(w) \/ PromoteLook(w)
         \/ \E w \in Writers, a \in Asops, e \in Bodies : Create(w, a, e) \/ Promote(w, a, e) \/ Revise(w, a, e)
         \/ \E w \in Writers, a \in Asops : \E n \in 1..MaxVersion[a] : Activate(w, a, n)
         \/ \E w \in Writers, a \in Asops : Retire(w, a)
         \/ \E v \in DOMAIN versions : Tear(v) \/ Repair(v)
         \/ \E l \in Lessons : Adjudicate(l)
         \/ \E p \in Passes : PassStep(p) \/ PassDies(p)
<1>1. CASE \E w \in Writers : Author(w)
  BY <1>1 DEF Author, Reviser
<1>2. CASE \E w \in Writers : Reviser(w)
  BY <1>2 DEF Reviser
<1>3. CASE PassNext
  BY <1>3 DEF PassNext
<1>4. CASE Damage
  BY <1>4 DEF Damage
<1>5. QED
  BY <1>1, <1>2, <1>3, <1>4 DEF ProceduresNext, Authoring, Learning, Chaining

\* The library starts well formed.
LEMMA TypedAtFirst == ProceduresInit => LibraryTyped
<1> SUFFICES ASSUME ProceduresInit PROVE LibraryTyped
  OBVIOUS
<1> DEFINE t == <<Taught, 1>>
           first == [status |-> "active", human |-> TRUE, entries |-> Steps, chosen |-> TRUE]
<1>1. /\ versions = [v \in {t} |-> first] /\ torn = {} /\ minted = {Taught} /\ asked = {} /\ overtaken = {}
      /\ lesson = [l \in Lessons |-> Unjudged] /\ pass = [p \in Passes |-> NoPass]
  BY DEF ProceduresInit, LibraryInit
<1>2. first \in VersionRecords
  BY DEF VersionRecords, Entries
<1>3. t \in Keys
  BY LibraryAssumption DEF Keys
<1> HIDE DEF first
<1>4. Store(versions)
  BY <1>1, <1>2, <1>3 DEF Store
<1>5. QED
  BY <1>1, <1>4 DEF LibraryTyped, OneAtATime, LessonStates, PassStates

\* What reads, refuses, damages or mends leaves it well formed.
LEMMA OthersKeepTyped ==
  ASSUME LibraryTyped,
         \/ \E w \in Writers : Ask(w) \/ Refused(w) \/ PromoteLook(w)
         \/ \E v \in DOMAIN versions : Tear(v) \/ Repair(v)
  PROVE  LibraryTyped'
<1>1. ASSUME NEW w \in Writers, Ask(w) \/ Refused(w) \/ PromoteLook(w) PROVE LibraryTyped'
  BY <1>1 DEF LibraryTyped, Store, OneAtATime, Ask, Refused, PromoteLook
<1>2. ASSUME NEW v \in DOMAIN versions, Tear(v) \/ Repair(v) PROVE LibraryTyped'
  BY <1>2 DEF LibraryTyped, Store, OneAtATime, Tear, Repair
<1>3. QED
  BY <1>1, <1>2

\* So does what people and agents write.
LEMMA AuthorsKeepTyped ==
  ASSUME LibraryTyped, NEW w \in Writers, NEW a \in Asops,
         \/ \E e \in Bodies : Create(w, a, e) \/ Promote(w, a, e) \/ Revise(w, a, e)
         \/ \E n \in 1..MaxVersion[a] : Activate(w, a, n)
         \/ Retire(w, a)
  PROVE  LibraryTyped'
<1>0. Kept(w) \subseteq DOMAIN versions /\ \A v \in Kept(w) : v[1] \in minted
  BY DEF Kept, LibraryTyped
<1>1. ASSUME NEW e \in Bodies, Create(w, a, e) \/ Promote(w, a, e) PROVE LibraryTyped'
  <2>1. NewProcedure(w, a, e) /\ e \in SUBSET Entries
    BY <1>1, LibraryAssumption DEF Create, Promote, Entries
  <2>2. /\ minted' = minted \cup {a} /\ Store(versions') /\ DOMAIN versions' = Kept(w) \cup {<<a, 1>>}
        /\ torn' = Kept(w) \cap torn /\ OneAtATime'
    BY <2>1, ProcedureIsAdded
  <2>3. lesson' = lesson /\ pass' = pass
    BY <2>1 DEF NewProcedure
  <2>4. QED
    BY <1>0, <2>2, <2>3 DEF LibraryTyped
<1>2. ASSUME NEW e \in Bodies, Revise(w, a, e) PROVE LibraryTyped'
  <2> DEFINE n == Latest(View(w), a)
  <2>1. Revised(w, a, e) /\ e \in SUBSET Entries
    BY <1>2, LibraryAssumption DEF Revise, Entries
  <2>2. /\ <<a, n>> \in DOMAIN versions
        /\ Store(versions') /\ DOMAIN versions' = DOMAIN versions \cup {<<a, n + 1>>}
        /\ torn' = torn /\ (backend' = backend => OneAtATime')
    BY <2>1, RevisedAdds
  <2>3. lesson' = lesson /\ pass' = pass /\ backend' = backend /\ minted' = minted
    BY <1>2 DEF Revise
  <2> HIDE DEF n
  <2>4. QED
    BY <2>2, <2>3 DEF LibraryTyped
<1>3. ASSUME NEW n \in 1..MaxVersion[a], Activate(w, a, n) PROVE LibraryTyped'
  <2>1. Store(versions') /\ DOMAIN versions' = Kept(w) /\ torn' = Kept(w) \cap torn /\ OneAtATime'
    BY <1>3, OneIsActivated
  <2>2. lesson' = lesson /\ pass' = pass /\ minted' = minted
    BY <1>3 DEF Activate
  <2>3. QED
    BY <1>0, <2>1, <2>2 DEF LibraryTyped
<1>4. ASSUME Retire(w, a) PROVE LibraryTyped'
  <2>1. Store(versions') /\ DOMAIN versions' = Kept(w) /\ torn' = Kept(w) \cap torn /\ OneAtATime'
    BY <1>4, OneIsRetired
  <2>2. lesson' = lesson /\ pass' = pass /\ minted' = minted
    BY <1>4 DEF Retire
  <2>3. QED
    BY <1>0, <2>1, <2>2 DEF LibraryTyped
<1>5. QED
  BY <1>1, <1>2, <1>3, <1>4

\* What a pass drafts from: the latest version it can read, and what it makes
\* of each lesson pending there.
LEMMA PlanDrafts ==
  ASSUME LibraryTyped, NEW p \in Passes, Plan(p)
  PROVE  LET view == Readable(versions)
             n    == Latest(view, Taught)
             base == view[<<Taught, n>>].entries
             here == {l \in pass[p].pending : StepOf[l] \in base}
             gone == here \cap Dismissed(view, Taught)
         IN  /\ pass[p].stage = "planning" /\ n \in 1..MaxVersion[Taught]
             /\ <<Taught, n>> \in DOMAIN versions /\ base \in SUBSET Entries
             /\ base = versions[<<Taught, n>>].entries
             /\ \E new \in SUBSET Entries, taken \in SUBSET Lessons :
                  /\ base \subseteq new /\ new \subseteq base \cup (here \ gone)
                  /\ gone \subseteq taken /\ taken \subseteq here /\ taken \ gone \subseteq new
                  /\ OnlyPass(p,
                       IF new # base
                         THEN [stage |-> "drafting", entries |-> new, todo |-> taken, gone |-> gone]
                       ELSE IF taken # {} /\ (taken = here \/ gone # {})
                         THEN [stage |-> "marking", version |-> n, todo |-> taken, gone |-> gone]
                       ELSE NoPass)
<1> DEFINE view == Readable(versions)
           n    == Latest(view, Taught)
           base == view[<<Taught, n>>].entries
           here == {l \in pass[p].pending : StepOf[l] \in base}
           gone == here \cap Dismissed(view, Taught)
           there == (here \cap base) \ gone
           rest  == here \ (gone \cup there)
<1>1. pass[p].stage = "planning" /\ Numbers(view, Taught) # {}
  BY DEF Plan
<1>2. pass[p].pending \subseteq Lessons
  BY <1>1 DEF LibraryTyped, PassStates, NoPass
<1>3. n \in 1..MaxVersion[Taught] /\ <<Taught, n>> \in DOMAIN view
  BY <1>1, LatestIsLast, LibraryAssumption
<1>4. DOMAIN view = DOMAIN versions \ torn /\ view[<<Taught, n>>] = versions[<<Taught, n>>]
  BY <1>3 DEF Readable
<1>5. /\ <<Taught, n>> \in DOMAIN versions /\ base \in SUBSET Entries
      /\ base = versions[<<Taught, n>>].entries
  BY <1>3, <1>4 DEF LibraryTyped, Store, VersionRecords
<1>6. PICK room \in SUBSET (rest \ Good) :
        LET new   == base \cup (rest \cap Good) \cup room
            taken == gone \cup there \cup (rest \cap Good) \cup room
        IN  OnlyPass(p,
              IF new # base
                THEN [stage |-> "drafting", entries |-> new, todo |-> taken, gone |-> gone]
              ELSE IF taken # {} /\ (taken = here \/ gone # {})
                THEN [stage |-> "marking", version |-> n, todo |-> taken, gone |-> gone]
              ELSE NoPass)
  BY DEF Plan, Marked, KnownDismissals
<1> DEFINE new   == base \cup (rest \cap Good) \cup room
           taken == gone \cup there \cup (rest \cap Good) \cup room
<1>7. /\ new \in SUBSET Entries /\ taken \in SUBSET Lessons
      /\ base \subseteq new /\ new \subseteq base \cup (here \ gone)
      /\ gone \subseteq taken /\ taken \subseteq here /\ taken \ gone \subseteq new
  <2>1. here \subseteq Lessons
    BY <1>2
  <2> HIDE DEF here, base
  <2>2. QED
    BY <1>5, <2>1 DEF Entries
<1>8. OnlyPass(p,
        IF new # base
          THEN [stage |-> "drafting", entries |-> new, todo |-> taken, gone |-> gone]
        ELSE IF taken # {} /\ (taken = here \/ gone # {})
          THEN [stage |-> "marking", version |-> n, todo |-> taken, gone |-> gone]
        ELSE NoPass)
  BY <1>6
<1> HIDE DEF new, taken
<1>9. QED
  BY <1>1, <1>3, <1>5, <1>7, <1>8

\* So does an adjudication.
LEMMA LessonsKeepTyped ==
  ASSUME LibraryTyped, NEW l \in Lessons, Adjudicate(l)
  PROVE  LibraryTyped'
<1>1. lesson' = [lesson EXCEPT ![l] = Pending] /\ UNCHANGED <<versions, torn, minted, backend, asked, overtaken, pass>>
  BY DEF Adjudicate
<1>2. lesson' \in [Lessons -> LessonStates]
  BY <1>1 DEF LibraryTyped, LessonStates
<1>3. QED
  BY <1>1, <1>2 DEF LibraryTyped, Store, OneAtATime

\* So does every step of the pass.
LEMMA PassKeepsTyped ==
  ASSUME LibraryTyped, NEW p \in Passes, PassStep(p) \/ PassDies(p)
  PROVE  LibraryTyped'
<1>1. ASSUME NEW next \in PassStates, OnlyPass(p, next) PROVE LibraryTyped'
  <2>1. /\ pass' = [pass EXCEPT ![p] = next]
        /\ UNCHANGED <<versions, torn, minted, backend, asked, overtaken, lesson>>
    BY <1>1 DEF OnlyPass
  <2>2. pass' \in [Passes -> PassStates]
    BY <2>1 DEF LibraryTyped
  <2>3. QED
    BY <2>1, <2>2 DEF LibraryTyped, Store, OneAtATime
<1>2. CASE Look(p)
  <2> DEFINE pending == {l \in Lessons : lesson[l] = Pending}
  <2>1. OnlyPass(p, [stage |-> "planning", pending |-> pending])
    BY <1>2 DEF Look
  <2>2. [stage |-> "planning", pending |-> pending] \in PassStates
    BY DEF PassStates
  <2> HIDE DEF pending
  <2>3. QED
    BY <1>1, <2>1, <2>2
<1>3. CASE Plan(p)
  <2> DEFINE view == Readable(versions)
             n    == Latest(view, Taught)
             base == view[<<Taught, n>>].entries
             here == {l \in pass[p].pending : StepOf[l] \in base}
             gone == here \cap Dismissed(view, Taught)
  <2>1. n \in 1..MaxVersion[Taught]
    BY <1>3, PlanDrafts
  <2>2. PICK new \in SUBSET Entries, taken \in SUBSET Lessons :
          /\ gone \subseteq taken
          /\ OnlyPass(p,
               IF new # base
                 THEN [stage |-> "drafting", entries |-> new, todo |-> taken, gone |-> gone]
               ELSE IF taken # {} /\ (taken = here \/ gone # {})
                 THEN [stage |-> "marking", version |-> n, todo |-> taken, gone |-> gone]
               ELSE NoPass)
    BY <1>3, PlanDrafts
  <2>3. gone \in SUBSET Lessons /\ n \in Nat
    BY <2>1, <2>2
  <2> HIDE DEF gone, n, base, here
  <2>4. /\ [stage |-> "drafting", entries |-> new, todo |-> taken, gone |-> gone] \in PassStates
        /\ [stage |-> "marking", version |-> n, todo |-> taken, gone |-> gone] \in PassStates
        /\ NoPass \in PassStates
    BY <2>3 DEF PassStates
  <2>5. QED
    BY <1>1, <2>2, <2>4
<1>4. CASE PlanFails(p)
  <2>1. OnlyPass(p, NoPass) /\ NoPass \in PassStates
    BY <1>4 DEF PlanFails, PassStates
  <2>2. QED
    BY <1>1, <2>1
<1>5. CASE DraftNext(p)
  <2> DEFINE n == Latest(View(p), Taught)
             next == [stage |-> "marking", version |-> n + 1, todo |-> pass[p].todo, gone |-> pass[p].gone]
  <2>1. /\ pass[p].stage = "drafting" /\ Revised(p, Taught, pass[p].entries)
        /\ pass' = [pass EXCEPT ![p] = next]
        /\ UNCHANGED <<minted, backend, lesson>>
    BY <1>5 DEF DraftNext
  <2>2. pass[p].entries \in SUBSET Entries /\ pass[p].todo \in SUBSET Lessons /\ pass[p].gone \in SUBSET Lessons
    BY <2>1 DEF LibraryTyped, PassStates, NoPass
  <2>3. /\ n \in 1..MaxVersion[Taught] /\ <<Taught, n>> \in DOMAIN versions
        /\ Store(versions') /\ DOMAIN versions' = DOMAIN versions \cup {<<Taught, n + 1>>}
        /\ torn' = torn /\ (backend' = backend => OneAtATime')
    BY <2>1, <2>2, RevisedAdds, LibraryAssumption
  <2>4. n + 1 \in Nat
    BY <2>3
  <2> HIDE DEF n
  <2>5. next \in PassStates
    BY <2>2, <2>4 DEF PassStates
  <2> HIDE DEF next
  <2>6. pass' \in [Passes -> PassStates]
    BY <2>1, <2>5 DEF LibraryTyped
  <2>7. QED
    BY <2>1, <2>3, <2>6 DEF LibraryTyped
<1>6. CASE DraftRefused(p) \/ PassDies(p)
  <2>1. /\ pass' = [pass EXCEPT ![p] = NoPass]
        /\ asked' = asked \ {p} /\ overtaken' = overtaken \ {p}
        /\ UNCHANGED <<versions, torn, minted, backend, lesson>>
    BY <1>6 DEF DraftRefused, PassDies
  <2>2. pass' \in [Passes -> PassStates]
    BY <2>1 DEF LibraryTyped, PassStates
  <2>3. QED
    BY <2>1, <2>2 DEF LibraryTyped, Store, OneAtATime
<1>7. ASSUME NEW l \in Lessons, Mark(p, l) PROVE LibraryTyped'
  <2> DEFINE mark == [state |-> IF l \in pass[p].gone THEN "dismissed" ELSE "consumed", in |-> pass[p].version]
             todo == pass[p].todo \ {l}
             next == IF todo = {} THEN NoPass ELSE [pass[p] EXCEPT !.todo = todo]
  <2>1. /\ pass[p].stage = "marking"
        /\ lesson' = [lesson EXCEPT ![l] = mark]
        /\ pass' = [pass EXCEPT ![p] = next]
        /\ UNCHANGED <<versions, torn, minted, backend, asked, overtaken>>
    BY <1>7 DEF Mark
  <2>2. pass[p] \in [stage : {"marking"}, version : Nat, todo : SUBSET Lessons, gone : SUBSET Lessons]
    BY <2>1 DEF LibraryTyped, PassStates, NoPass
  <2>3. mark \in LessonStates
    BY <2>2 DEF LessonStates
  <2>4. next \in PassStates
    BY <2>2 DEF PassStates
  <2> HIDE DEF mark, next
  <2>5. lesson' \in [Lessons -> LessonStates] /\ pass' \in [Passes -> PassStates]
    BY <2>1, <2>3, <2>4 DEF LibraryTyped
  <2>6. QED
    BY <2>1, <2>5 DEF LibraryTyped, Store, OneAtATime
<1>8. QED
  BY <1>2, <1>3, <1>4, <1>5, <1>6, <1>7 DEF PassStep

\* The library's versions, its damaged lines, its authors under way, its
\* lessons and its passes are what they should be, whoever writes.
LEMMA StaysTyped ==
  ASSUME LibraryTyped, [ProceduresNext]_proceduresVars
  PROVE  LibraryTyped'
<1>1. CASE UNCHANGED libraryVars
  BY <1>1 DEF LibraryTyped, Store, OneAtATime, libraryVars
<1>2. CASE ProceduresNext
  <2>1. CASE \E w \in Writers : Ask(w) \/ Refused(w) \/ PromoteLook(w)
    BY <2>1, OthersKeepTyped
  <2>2. CASE \E w \in Writers, a \in Asops, e \in Bodies : Create(w, a, e) \/ Promote(w, a, e) \/ Revise(w, a, e)
    BY <2>2, AuthorsKeepTyped
  <2>3. CASE \E w \in Writers, a \in Asops : \E n \in 1..MaxVersion[a] : Activate(w, a, n)
    BY <2>3, AuthorsKeepTyped
  <2>4. CASE \E w \in Writers, a \in Asops : Retire(w, a)
    BY <2>4, AuthorsKeepTyped
  <2>5. CASE \E v \in DOMAIN versions : Tear(v) \/ Repair(v)
    BY <2>5, OthersKeepTyped
  <2>6. CASE \E l \in Lessons : Adjudicate(l)
    BY <2>6, LessonsKeepTyped
  <2>7. CASE \E p \in Passes : PassStep(p) \/ PassDies(p)
    BY <2>7, PassKeepsTyped
  <2>8. QED
    BY <1>1, <1>2, <2>1, <2>2, <2>3, <2>4, <2>5, <2>6, <2>7, LibrarySteps
<1>3. QED
  BY <1>1, <1>2 DEF proceduresVars

-----------------------------------------------------------------------------
(* Pins.                                                                    *)

\* What no step of an author takes away: a version, its text, and that it is
\* no draft any more.
Stays(v) ==
  /\ v \in DOMAIN versions' /\ versions'[v].entries = versions[v].entries
  /\ versions[v].status # "draft" => versions'[v].status # "draft"

\* Where an author reads what is there, whatever is damaged, no version goes.
LEMMA WritersKeepVersions ==
  ASSUME LibraryTyped, overtaken = {}, [ProceduresNext]_proceduresVars
  PROVE  \A v \in DOMAIN versions : Stays(v)
<1>1. CASE UNCHANGED versions
  BY <1>1 DEF Stays
<1>2. ASSUME NEW w PROVE Kept(w) = DOMAIN versions
  BY DEF Kept
<1>3. ASSUME NEW w \in Writers, NEW a \in Asops, NEW e \in Bodies, Create(w, a, e) \/ Promote(w, a, e)
      PROVE  \A v \in DOMAIN versions : Stays(v)
  <2>1. NewProcedure(w, a, e) /\ e \in SUBSET Entries
    BY <1>3, LibraryAssumption DEF Create, Promote, Entries
  <2>2. DOMAIN versions' = DOMAIN versions \cup {<<a, 1>>} /\ \A v \in DOMAIN versions : versions'[v] = versions[v]
    BY <1>2, <2>1, ProcedureIsAdded
  <2>3. QED
    BY <2>2 DEF Stays
<1>4. ASSUME NEW w, NEW a \in Asops, NEW e \in SUBSET Entries, Revised(w, a, e)
      PROVE  \A v \in DOMAIN versions : Stays(v)
  <2>1. /\ DOMAIN versions \subseteq DOMAIN versions'
        /\ \A v \in DOMAIN versions : versions'[v] = versions[v]
    <3> DEFINE n == Latest(View(w), a)
    <3>1. DOMAIN versions' = DOMAIN versions \cup {<<a, n + 1>>} /\ \A v \in DOMAIN versions : versions'[v] = versions[v]
      BY <1>4, RevisedAdds
    <3>2. QED
      BY <3>1
  <2>2. QED
    BY <2>1 DEF Stays
<1>5. ASSUME NEW w \in Writers, NEW a \in Asops, NEW n, Activate(w, a, n)
      PROVE  \A v \in DOMAIN versions : Stays(v)
  <2>1. /\ DOMAIN versions' = Kept(w)
        /\ \A v \in Kept(w) : versions'[v] = AsActivated(w, a, n, v)
    BY <1>5, OneIsActivated
  <2>2. ASSUME NEW v \in DOMAIN versions PROVE Stays(v)
    <3>1. versions[v] \in VersionRecords
      BY DEF LibraryTyped, Store
    <3>2. QED
      BY <1>2, <2>1, <3>1 DEF Stays, VersionRecords, AsActivated
  <2>3. QED
    BY <2>2
<1>6. ASSUME NEW w \in Writers, NEW a \in Asops, Retire(w, a)
      PROVE  \A v \in DOMAIN versions : Stays(v)
  <2>1. PICK n \in 1..MaxVersion[a] :
          /\ DOMAIN versions' = Kept(w)
          /\ \A v \in Kept(w) : versions'[v] = AsRetired(a, n, v)
    BY <1>6, OneIsRetired
  <2>2. ASSUME NEW v \in DOMAIN versions PROVE Stays(v)
    <3>1. versions[v] \in VersionRecords
      BY DEF LibraryTyped, Store
    <3>2. QED
      BY <1>2, <2>1, <3>1 DEF Stays, VersionRecords, AsRetired
  <2>3. QED
    BY <2>2
<1>7. ASSUME NEW p \in Passes, PassStep(p) \/ PassDies(p)
      PROVE  \A v \in DOMAIN versions : Stays(v)
  <2>1. CASE DraftNext(p)
    <3>1. pass[p].stage = "drafting" /\ Revised(p, Taught, pass[p].entries)
      BY <2>1 DEF DraftNext
    <3>2. pass[p].entries \in SUBSET Entries
      BY <3>1 DEF LibraryTyped, PassStates, NoPass
    <3>3. QED
      BY <1>4, <3>1, <3>2, LibraryAssumption
  <2>2. CASE ~DraftNext(p)
    BY <1>1, <1>7, <2>2 DEF PassStep, PassDies, Look, Plan, PlanFails, DraftRefused, Mark, OnlyPass
  <2>3. QED
    BY <2>1, <2>2
<1>8. ASSUME NEW w \in Writers, NEW a \in Asops, NEW e \in Bodies, Revise(w, a, e)
      PROVE  \A v \in DOMAIN versions : Stays(v)
  BY <1>4, <1>8, LibraryAssumption DEF Revise, Entries
<1>9. CASE ProceduresNext
  <2>1. CASE \/ UNCHANGED libraryVars
             \/ \E w \in Writers : Ask(w) \/ Refused(w) \/ PromoteLook(w)
             \/ \E v \in DOMAIN versions : Tear(v) \/ Repair(v)
             \/ \E l \in Lessons : Adjudicate(l)
    BY <1>1, <2>1 DEF libraryVars, Ask, Refused, PromoteLook, Tear, Repair, Adjudicate
  <2>2. CASE \E w \in Writers, a \in Asops, e \in Bodies : Create(w, a, e) \/ Promote(w, a, e) \/ Revise(w, a, e)
    BY <1>3, <1>8, <2>2
  <2>3. CASE \E w \in Writers, a \in Asops : \E n \in 1..MaxVersion[a] : Activate(w, a, n)
    BY <1>5, <2>3
  <2>4. CASE \E w \in Writers, a \in Asops : Retire(w, a)
    BY <1>6, <2>4
  <2>5. CASE \E p \in Passes : PassStep(p) \/ PassDies(p)
    BY <1>7, <2>5
  <2>6. QED
    BY <1>9, <2>1, <2>2, <2>3, <2>4, <2>5, LibrarySteps
<1>10. QED
  BY <1>1, <1>9 DEF proceduresVars, libraryVars

\* Only a chain records manifests and runs under them; its library is in a
\* store where an author reads what is there.
ReadsWhatIsThere == part = "chains" => backend # "postgres"
PinInv ==
  /\ part # "chains" => manifests = {} /\ ran = NoRun
  /\ ReadsWhatIsThere
  /\ PinsStand

\* At first nothing is pinned.
LEMMA PinsBegin == ProceduresInit /\ ReadsWhatIsThere => PinInv
<1> SUFFICES ASSUME ProceduresInit, ReadsWhatIsThere PROVE PinInv
  OBVIOUS
<1>1. manifests = {} /\ ran = NoRun
  BY DEF ProceduresInit, ChainInit
<1>2. QED
  BY <1>1 DEF PinInv, PinsStand

\* What kind of store the library is in is never changed.
LEMMA StoreStays ==
  ASSUME [ProceduresNext]_proceduresVars
  PROVE  part' = part /\ backend' = backend
<1>1. CASE UNCHANGED proceduresVars
  BY <1>1 DEF proceduresVars, libraryVars
<1>2. CASE ProceduresNext
  <2>1. part' = part
    BY <1>2 DEF ProceduresNext, Authoring, Learning, Chaining
  <2>2. backend' = backend
    <3>1. CASE \/ UNCHANGED libraryVars
               \/ \E w \in Writers : Ask(w) \/ Refused(w) \/ PromoteLook(w)
               \/ \E v \in DOMAIN versions : Tear(v) \/ Repair(v)
               \/ \E l \in Lessons : Adjudicate(l)
      BY <3>1 DEF libraryVars, Ask, Refused, PromoteLook, Tear, Repair, Adjudicate
    <3>2. CASE \E w \in Writers, a \in Asops, e \in Bodies : Create(w, a, e) \/ Promote(w, a, e) \/ Revise(w, a, e)
      BY <3>2 DEF Create, Promote, NewProcedure, Revise, Revised
    <3>3. CASE \E w \in Writers, a \in Asops : Retire(w, a) \/ \E n \in 1..MaxVersion[a] : Activate(w, a, n)
      BY <3>3 DEF Activate, Retire
    <3>4. CASE \E p \in Passes : PassStep(p) \/ PassDies(p)
      <4>1. PICK p \in Passes : PassStep(p) \/ PassDies(p)
        BY <3>4
      <4>2. CASE Look(p) \/ Plan(p) \/ PlanFails(p)
        BY <4>2 DEF Look, Plan, PlanFails, OnlyPass
      <4>3. CASE DraftNext(p)
        BY <4>3 DEF DraftNext
      <4>4. CASE DraftRefused(p) \/ PassDies(p) \/ \E l \in Lessons : Mark(p, l)
        BY <4>4 DEF DraftRefused, PassDies, Mark
      <4>5. QED
        BY <4>1, <4>2, <4>3, <4>4 DEF PassStep
    <3>5. QED
      BY <1>2, <3>1, <3>2, <3>3, <3>4, LibrarySteps
  <2>3. QED
    BY <2>1, <2>2
<1>3. QED
  BY <1>1, <1>2

\* No step takes away what is pinned.
LEMMA PinsAreKept ==
  ASSUME LibraryTyped, PinInv, [ProceduresNext]_proceduresVars
  PROVE  PinInv'
<1>1. part' = part /\ backend' = backend
  BY StoreStays
<1>2. CASE part # "chains"
  <2>1. UNCHANGED chainVars
    BY <1>2 DEF ProceduresNext, Authoring, Learning, Chaining, proceduresVars
  <2>2. QED
    BY <1>1, <1>2, <2>1 DEF PinInv, PinsStand, ReadsWhatIsThere, chainVars
<1>3. CASE part = "chains"
  <2>1. overtaken = {}
    BY <1>3 DEF PinInv, ReadsWhatIsThere, LibraryTyped, OneAtATime
  <2>2. \A v \in DOMAIN versions : Stays(v)
    BY <2>1, WritersKeepVersions
  <2>3. ASSUME NEW m \in manifests, NEW a \in DOMAIN m, NEW v, v = <<a, m[a].version>>
        PROVE  /\ v \in DOMAIN versions'
               /\ versions'[v].entries = m[a].digest /\ versions'[v].status # "draft"
    BY <2>2, <2>3 DEF PinInv, PinsStand, Stays
  <2>4. ran # NoRun => /\ <<ran.asop, ran.version>> \in DOMAIN versions'
                       /\ versions'[<<ran.asop, ran.version>>].entries = ran.says
    BY <2>2 DEF PinInv, PinsStand, Stays
  <2>5. CASE UNCHANGED <<manifests, ran>>
    <3>1. PinsStand'
      BY <2>3, <2>4, <2>5 DEF PinsStand
    <3>2. QED
      BY <1>1, <1>3, <3>1 DEF PinInv, ReadsWhatIsThere
  <2>6. ASSUME NEW e \in Engines, NEW members \in [{Taught} -> 1..MaxVersion[Taught]], RecordManifest(e, members)
        PROVE  PinInv'
    <3> DEFINE m == [a \in DOMAIN members |-> [version |-> members[a], digest |-> Digest(<<a, members[a]>>)]]
    <3>1. /\ \A a \in DOMAIN members : Pinnable(<<a, members[a]>>)
          /\ manifests' = manifests \cup {m} /\ ran' = ran
      BY <2>6 DEF RecordManifest
    <3>2. DOMAIN m = DOMAIN members
      OBVIOUS
    <3>3. ASSUME NEW a \in DOMAIN m, NEW v, v = <<a, m[a].version>>
          PROVE  /\ v \in DOMAIN versions'
                 /\ versions'[v].entries = m[a].digest /\ versions'[v].status # "draft"
      <4>1. m[a].version = members[a] /\ m[a].digest = versions[v].entries
        BY <3>3 DEF Digest
      <4>2. v \in DOMAIN versions /\ versions[v].status # "draft"
        BY <3>1, <3>2, <3>3, <4>1 DEF Pinnable
      <4>3. QED
        BY <2>2, <4>1, <4>2 DEF Stays
    <3> HIDE DEF m
    <3>4. PinsStand'
      BY <2>3, <2>4, <3>1, <3>3 DEF PinsStand
    <3>5. QED
      BY <1>1, <1>3, <3>4 DEF PinInv, ReadsWhatIsThere
  <2>7. ASSUME NEW e \in Engines, RunPinned(e) PROVE PinInv'
    <3> DEFINE pin == pinning[e]
               v   == <<pin.asop, pin.manifest[pin.asop].version>>
    <3>1. manifests' = manifests
      BY <2>7 DEF RunPinned
    <3>2. CASE v \in DOMAIN versions \ torn /\ versions[v].status \notin {"draft", "retired"}
      <4>1. ran' = [asop |-> pin.asop, version |-> v[2], says |-> Digest(v)]
        BY <2>7, <3>2 DEF RunPinned
      <4>2. <<ran'.asop, ran'.version>> = v /\ ran'.says = versions[v].entries
        BY <4>1 DEF Digest
      <4> HIDE DEF v
      <4>3. v \in DOMAIN versions' /\ versions'[v].entries = ran'.says
        BY <2>2, <3>2, <4>2 DEF Stays
      <4>4. PinsStand'
        BY <2>3, <3>1, <4>2, <4>3 DEF PinsStand
      <4>5. QED
        BY <1>1, <1>3, <4>4 DEF PinInv, ReadsWhatIsThere
    <3>3. CASE ~(v \in DOMAIN versions \ torn /\ versions[v].status \notin {"draft", "retired"})
      <4>1. ran' = ran
        BY <2>7, <3>3 DEF RunPinned
      <4>2. QED
        BY <2>5, <3>1, <4>1
    <3>4. QED
      BY <3>2, <3>3
  <2>8. CASE ChainNext
    BY <2>5, <2>6, <2>7, <2>8 DEF ChainNext, ResolvePin, Adopt, ReadImpact
  <2>9. CASE UNCHANGED chainVars
    BY <2>5, <2>9 DEF chainVars
  <2>10. ChainNext \/ UNCHANGED chainVars
    BY <1>3 DEF ProceduresNext, Authoring, Learning, Chaining, proceduresVars
  <2>11. QED
    BY <2>8, <2>9, <2>10
<1>4. QED
  BY <1>2, <1>3

\* What a manifest pins and what a run of the chain was filed at is held as it
\* was and is no draft, whatever is damaged and whoever writes meanwhile, in a
\* store where an author reads what is there (chains.record_manifest,
\* chains.pin_for_run, SopLibrary.revise).
THEOREM PinsAreHeld == ProceduresSpec /\ ReadsWhatIsThere => []PinsStand
<1>1. ProceduresInit /\ ReadsWhatIsThere => LibraryTyped /\ PinInv
  BY TypedAtFirst, PinsBegin
<1>2. (LibraryTyped /\ PinInv) /\ [ProceduresNext]_proceduresVars => (LibraryTyped /\ PinInv)'
  BY StaysTyped, PinsAreKept
<1>3. PinInv => PinsStand
  BY DEF PinInv
<1>4. QED
  BY <1>1, <1>2, <1>3, PTL DEF ProceduresSpec

\* There, no version is ever lost and none says something else than when it
\* was written, whoever authors, learns or damages a line of the store
\* (SopLibrary.create, revise, activate, retire, promote; sop_learning).
THEOREM VersionsAreKept == ProceduresSpec /\ backend # "postgres" => VersionsStand
<1>1. ProceduresInit /\ backend # "postgres" => LibraryTyped /\ backend # "postgres"
  BY TypedAtFirst
<1>2. (LibraryTyped /\ backend # "postgres") /\ [ProceduresNext]_proceduresVars
        => (LibraryTyped /\ backend # "postgres")'
  BY StaysTyped, StoreStays
<1>3. LibraryTyped /\ backend # "postgres" /\ [ProceduresNext]_proceduresVars
        => [\A v \in DOMAIN versions :
              v \in DOMAIN versions' /\ versions'[v].entries = versions[v].entries]_proceduresVars
  BY WritersKeepVersions DEF LibraryTyped, OneAtATime, Stays
<1>4. QED
  BY <1>1, <1>2, <1>3, PTL DEF ProceduresSpec, VersionsStand

-----------------------------------------------------------------------------
(* A person's word.                                                         *)

\* Undamaged, the library reads as it is.
LEMMA ReadsAsItIs ==
  ASSUME LibraryTyped, torn = {}, NEW w
  PROVE  Readable(versions) = versions /\ (w \notin overtaken => View(w) = versions)
<1>1. Readable(versions) = [v \in DOMAIN versions |-> versions[v]]
  BY DEF Readable
<1>2. QED
  BY <1>1 DEF LibraryTyped, Store, View

\* Apart from an activation no step gives an author's readers anything new.
Given(v) == v \in DOMAIN versions' /\ versions'[v].status = "active"
Had(v)   == v \in DOMAIN versions /\ versions[v].status = "active" /\ versions'[v].entries = versions[v].entries

\* No write but an activation makes a version the one people follow.
LEMMA OnlyActivationGives ==
  ASSUME LibraryTyped, [ProceduresNext]_proceduresVars, NEW v, Given(v), ~Had(v)
  PROVE  \E w \in Writers, a \in Asops : \E n \in 1..MaxVersion[a] : v = <<a, n>> /\ Activate(w, a, n)
<1>1. ASSUME UNCHANGED versions PROVE FALSE
  BY <1>1 DEF Given, Had
<1>3. \A w : Kept(w) \subseteq DOMAIN versions
  BY DEF Kept
<1>4. ASSUME NEW w \in Writers, NEW a \in Asops, NEW e \in Bodies, Create(w, a, e) \/ Promote(w, a, e)
      PROVE  FALSE
  <2>1. NewProcedure(w, a, e) /\ e \in SUBSET Entries
    BY <1>4, LibraryAssumption DEF Create, Promote, Entries
  <2>2. /\ DOMAIN versions' = Kept(w) \cup {<<a, 1>>} /\ \A u \in Kept(w) : versions'[u] = versions[u]
        /\ versions'[<<a, 1>>] = Draft(w, e)
    BY <2>1, ProcedureIsAdded
  <2>3. QED
    BY <1>3, <2>2 DEF Given, Had, Draft
<1>5. ASSUME NEW w, NEW a \in Asops, NEW e \in SUBSET Entries, Revised(w, a, e)
      PROVE  FALSE
  <2> DEFINE n == Latest(View(w), a)
  <2>1. /\ DOMAIN versions' = DOMAIN versions \cup {<<a, n + 1>>} /\ \A u \in DOMAIN versions : versions'[u] = versions[u]
        /\ versions'[<<a, n + 1>>] = Draft(w, e)
    BY <1>5, RevisedAdds
  <2> HIDE DEF n
  <2>2. QED
    BY <2>1 DEF Given, Had, Draft
<1>6. ASSUME NEW w \in Writers, NEW a \in Asops, NEW n, Activate(w, a, n), v # <<a, n>>
      PROVE  FALSE
  <2>1. DOMAIN versions' = Kept(w) /\ \A u \in Kept(w) : versions'[u] = AsActivated(w, a, n, u)
    BY <1>6, OneIsActivated
  <2>2. v \in DOMAIN versions /\ versions[v] \in VersionRecords
    BY <1>3, <2>1 DEF Given, LibraryTyped, Store
  <2>3. QED
    BY <1>6, <2>1, <2>2 DEF AsActivated, Given, Had, VersionRecords
<1>7. ASSUME NEW w \in Writers, NEW a \in Asops, Retire(w, a)
      PROVE  FALSE
  <2>1. PICK n \in 1..MaxVersion[a] : DOMAIN versions' = Kept(w) /\ \A u \in Kept(w) : versions'[u] = AsRetired(a, n, u)
    BY <1>7, OneIsRetired
  <2>2. v \in DOMAIN versions /\ versions[v] \in VersionRecords
    BY <1>3, <2>1 DEF Given, LibraryTyped, Store
  <2>3. QED
    BY <2>1, <2>2 DEF AsRetired, Given, Had, VersionRecords
<1>8. ASSUME NEW p \in Passes, PassStep(p) \/ PassDies(p)
      PROVE  FALSE
  <2>1. CASE DraftNext(p)
    <3>1. pass[p].stage = "drafting" /\ Revised(p, Taught, pass[p].entries)
      BY <2>1 DEF DraftNext
    <3>2. pass[p].entries \in SUBSET Entries
      BY <3>1 DEF LibraryTyped, PassStates, NoPass
    <3>3. QED
      BY <1>5, <3>1, <3>2, LibraryAssumption
  <2>2. CASE ~DraftNext(p)
    BY <1>1, <1>8, <2>2 DEF PassStep, PassDies, Look, Plan, PlanFails, DraftRefused, Mark, OnlyPass
  <2>3. QED
    BY <2>1, <2>2
<1>9. ASSUME NEW w \in Writers, NEW a \in Asops, NEW e \in Bodies, Revise(w, a, e)
      PROVE  FALSE
  BY <1>5, <1>9, LibraryAssumption DEF Revise, Entries
<1>10. ProceduresNext
  BY <1>1 DEF proceduresVars, libraryVars
<1>11. CASE \/ UNCHANGED libraryVars
            \/ \E w \in Writers : Ask(w) \/ Refused(w) \/ PromoteLook(w)
            \/ \E u \in DOMAIN versions : Tear(u) \/ Repair(u)
            \/ \E l \in Lessons : Adjudicate(l)
  BY <1>1, <1>11 DEF libraryVars, Ask, Refused, PromoteLook, Tear, Repair, Adjudicate
<1>12. CASE \E w \in Writers, a \in Asops, e \in Bodies : Create(w, a, e) \/ Promote(w, a, e) \/ Revise(w, a, e)
  BY <1>4, <1>9, <1>12
<1>13. CASE \E w \in Writers, a \in Asops : \E n \in 1..MaxVersion[a] : Activate(w, a, n)
  BY <1>6, <1>13
<1>14. CASE \E w \in Writers, a \in Asops : Retire(w, a)
  BY <1>7, <1>14
<1>15. CASE \E p \in Passes : PassStep(p) \/ PassDies(p)
  BY <1>8, <1>15
<1>16. QED
  BY <1>10, <1>11, <1>12, <1>13, <1>14, <1>15, LibrarySteps

\* An agent's activation brings back nothing a person took out.
LEMMA WordIsKept ==
  ASSUME LibraryTyped, [ProceduresNext]_proceduresVars,
         NEW e \in Followed' \ Followed, torn = {}, Followed # {}, e \in Dismissed(versions, Taught)
  PROVE  \E n \in Active(versions', Taught) : versions'[<<Taught, n>>].chosen
<1>1. PICK n \in Active(versions', Taught) : e \in versions'[<<Taught, n>>].entries
  BY DEF Followed
<1> DEFINE t == <<Taught, n>>
<1>2. n \in 1..MaxVersion[Taught] /\ Given(t)
  BY <1>1 DEF Active, Numbers, Given
<1>3. ~Had(t)
  <2>1. SUFFICES ASSUME Had(t) PROVE e \in Followed
    OBVIOUS
  <2>2. n \in Active(versions, Taught) /\ e \in versions[t].entries
    BY <1>1, <1>2, <2>1 DEF Active, Numbers, Had
  <2>3. QED
    BY <2>2 DEF Followed
<1>4. PICK w \in Writers : Activate(w, Taught, n)
  <2>1. PICK w \in Writers, a \in Asops : \E k \in 1..MaxVersion[a] : t = <<a, k>> /\ Activate(w, a, k)
    BY <1>2, <1>3, OnlyActivationGives
  <2>2. QED
    BY <2>1
<1>5. /\ t \in Kept(w) \ torn /\ DOMAIN versions' = Kept(w)
      /\ \A v \in Kept(w) : versions'[v] = AsActivated(w, Taught, n, v)
  BY <1>4, OneIsActivated, LibraryAssumption
<1>6. w \notin overtaken /\ t \in DOMAIN versions /\ versions[t] \in VersionRecords
  BY <1>5 DEF Kept, LibraryTyped, Store
<1>7. versions'[t] = [versions[t] EXCEPT !.status = "active", !.chosen = w \in Persons]
  BY <1>5 DEF AsActivated
<1>8. CASE w \in Persons
  BY <1>1, <1>6, <1>7, <1>8 DEF VersionRecords
<1>9. CASE w \notin Persons
  <2> DEFINE b == Baseline(versions, Taught)
  <2>1. View(w) = versions
    BY <1>6, ReadsAsItIs
  <2>2. (versions[t].entries \ versions[<<Taught, b>>].entries) \cap Dismissed(versions, Taught) = {}
    BY <1>4, <1>9, <2>1 DEF Activate, Policed
  <2>3. e \in versions[t].entries
    BY <1>1, <1>6, <1>7 DEF VersionRecords
  <2>4. b \in Active(versions, Taught)
    <3>1. Active(versions, Taught) # {} /\ Active(versions, Taught) \in SUBSET Nat
      BY DEF Followed, Active, Numbers
    <3>2. \E k \in Active(versions, Taught) : \A m \in Active(versions, Taught) : k <= m
      BY <3>1, LeastOfThem
    <3>3. QED
      BY <3>1, <3>2 DEF Baseline
  <2>5. e \notin versions[<<Taught, b>>].entries
    BY <2>4 DEF Followed
  <2>6. QED
    BY <2>2, <2>3, <2>5
<1>10. QED
  BY <1>8, <1>9

\* What a person took out of the procedure comes back into the version people
\* follow only if a person activates it, whatever an agent drafts or goes back
\* to (asop.revision.check_policy, SopLibrary.activate).
THEOREM AWordIsKept == ProceduresSpec => PersonsWordStands
<1>1. ProceduresInit => LibraryTyped
  BY TypedAtFirst
<1>2. LibraryTyped /\ [ProceduresNext]_proceduresVars => LibraryTyped'
  BY StaysTyped
<1>3. LibraryTyped /\ [ProceduresNext]_proceduresVars
        => [\A e \in Followed' \ Followed :
              (torn = {} /\ Followed # {} /\ e \in Dismissed(versions, Taught))
                => \E n \in Active(versions', Taught) : versions'[<<Taught, n>>].chosen]_proceduresVars
  BY WordIsKept
<1>4. QED
  BY <1>1, <1>2, <1>3, PTL DEF ProceduresSpec, PersonsWordStands

-----------------------------------------------------------------------------
(* What the adjudications say of themselves.                                *)

\* The history of the procedure the runs follow, up to a version.
UpTo(k) == {<<Taught, n>> : n \in 1..k}
Told(vs, k) == [v \in UpTo(k) |-> vs[v]]
Text(vs, k) == vs[<<Taught, k>>].entries
Extends(old, vs, k) == \A v \in UpTo(k) : vs[v] = old[v]

\* While the pass learns, the library is that procedure's versions, one after
\* the other; what people took out of it is not in the last, and what they put
\* in is.
HistoryTo(k) ==
  /\ k \in 1..MaxVersion[Taught] /\ torn = {} /\ DOMAIN versions = UpTo(k)
  /\ Dismissed(versions, Taught) \cap Text(versions, k) = {}
  /\ Insisted(versions, Taught) \subseteq Text(versions, k)

\* A mark names a version that is there, and says what is true of it.
MarkTrue(vs, k, l, mark) ==
  /\ mark.state = "consumed" => mark.in \in 1..k /\ l \in Text(vs, mark.in)
  /\ mark.state = "dismissed" => mark.in \in 1..k /\ l \in Dismissed(Told(vs, mark.in), Taught)
Marks(k) == \A l \in Lessons : MarkTrue(versions, k, l, lesson[l])

\* So do the marks a pass has still to make.  What it holds for dismissed a
\* person did move once: taken out it is dismissed, put back it is insisted on,
\* and then no draft that leaves it out gets through.
Moved(vs) == Dismissed(vs, Taught) \cup Insisted(vs, Taught)
Honest(vs, k, hand) ==
  /\ hand.stage = "drafting" =>
       /\ hand.gone \cap hand.entries = {} /\ hand.todo \ hand.gone \subseteq hand.entries
       /\ hand.gone \subseteq Moved(vs)
  /\ hand.stage = "marking" =>
       /\ hand.version \in 1..k /\ hand.todo \ hand.gone \subseteq Text(vs, hand.version)
       /\ hand.gone \subseteq Dismissed(Told(vs, hand.version), Taught)
Intentions(k) == \A p \in Passes : Honest(versions, k, pass[p])

LearnInv ==
  /\ part = "learning" => \E k \in Nat : HistoryTo(k) /\ Marks(k) /\ Intentions(k)
  /\ part # "learning" => lesson = [l \in Lessons |-> Unjudged]

\* In an unbroken history the version before n is n - 1.
LEMMA NewestBelow ==
  ASSUME NEW k \in Nat, NEW n \in 2..k
  PROVE  Newest({m \in 1..k : m < n}) = n - 1
<1> DEFINE S == {m \in 1..k : m < n}
<1>1. n - 1 \in S /\ \A m \in S : m <= n - 1 /\ m \in Nat
  OBVIOUS
<1>2. \A x \in S : (\A m \in S : m <= x) => x = n - 1
  BY <1>1
<1> HIDE DEF S
<1>3. Newest(S) = n - 1
  BY <1>1, <1>2 DEF Newest
<1>4. QED
  BY <1>3 DEF S

\* A history and the same with one version more; and what that version does to
\* what people took out and put in: a person's moves it, an agent's does not.
OneMore(view, more, k) ==
  /\ DOMAIN view = UpTo(k) /\ DOMAIN more = UpTo(k + 1)
  /\ \A v \in UpTo(k) : more[v] = view[v]
  /\ more[<<Taught, k + 1>>].human \in BOOLEAN
MovesWith(view, more, k) ==
  LET base == view[<<Taught, k>>].entries
      new  == more[<<Taught, k + 1>>].entries
  IN  IF more[<<Taught, k + 1>>].human
        THEN /\ Dismissed(more, Taught) = (Dismissed(view, Taught) \ (new \ base)) \cup (base \ new)
             /\ Insisted(more, Taught) = (Insisted(view, Taught) \ (base \ new)) \cup (new \ base)
        ELSE /\ Dismissed(more, Taught) = Dismissed(view, Taught)
             /\ Insisted(more, Taught) = Insisted(view, Taught)

\* A revision's move is the last of its history, and overrides those before it.
LEMMA HistoryGrows ==
  ASSUME NEW k \in Nat \ {0}, k + 1 \in 1..MaxVersion[Taught], NEW view, NEW more, OneMore(view, more, k)
  PROVE  MovesWith(view, more, k)
<1> USE DEF OneMore
<1> DEFINE base == view[<<Taught, k>>].entries
           new  == more[<<Taught, k + 1>>].entries
<1>1. MaxVersion[Taught] \in Nat /\ k + 1 <= MaxVersion[Taught]
  BY LibraryAssumption
<1>2. \A n : <<Taught, n>> \in UpTo(k) <=> n \in 1..k
  BY DEF UpTo
<1>3. \A n : <<Taught, n>> \in UpTo(k + 1) <=> n \in 1..(k + 1)
  BY DEF UpTo
<1>4. Numbers(view, Taught) = 1..k /\ Numbers(more, Taught) = 1..(k + 1)
  BY <1>1, <1>2, <1>3 DEF Numbers
<1>5. \A n \in 2..k : Before(view, Taught, n) = view[<<Taught, n - 1>>].entries
  BY <1>4, NewestBelow DEF Before
<1>6. \A n \in 2..(k + 1) : Before(more, Taught, n) = more[<<Taught, n - 1>>].entries
  <2>1. k + 1 \in Nat
    OBVIOUS
  <2>2. QED
    BY <1>4, <2>1, NewestBelow DEF Before
<1>7. \A n \in 2..k : /\ TookOut(more, Taught, n) = TookOut(view, Taught, n)
                      /\ PutIn(more, Taught, n) = PutIn(view, Taught, n)
  <2>1. ASSUME NEW n \in 2..k
        PROVE  /\ Before(more, Taught, n) = Before(view, Taught, n)
               /\ more[<<Taught, n>>].entries = view[<<Taught, n>>].entries
    <3>1. n \in 1..k /\ n - 1 \in 1..k /\ n \in 2..(k + 1)
      OBVIOUS
    <3>2. more[<<Taught, n>>] = view[<<Taught, n>>] /\ more[<<Taught, n - 1>>] = view[<<Taught, n - 1>>]
      BY <1>2, <3>1
    <3>3. QED
      BY <1>5, <1>6, <3>1, <3>2
  <2>2. QED
    BY <2>1 DEF TookOut, PutIn
<1> DEFINE last == k + 1
           hers == more[<<Taught, last>>].human
<1>8. last \in 2..last /\ last - 1 = k /\ k \in 1..k /\ k \in 1..last /\ k < last /\ last \in 1..last
  OBVIOUS
<1>9. TookOut(more, Taught, last) = base \ new /\ PutIn(more, Taught, last) = new \ base
  <2>1. Before(more, Taught, last) = base
    BY <1>2, <1>6, <1>8
  <2>2. QED
    BY <2>1 DEF TookOut, PutIn
<1>10. ByPerson(view, Taught) \subseteq 2..k
  BY <1>4 DEF ByPerson
<1>11. ByPerson(more, Taught) = ByPerson(view, Taught) \cup (IF hers THEN {last} ELSE {})
  <2>1. ASSUME NEW n \in 1..k PROVE n \in ByPerson(more, Taught) <=> n \in ByPerson(view, Taught)
    <3>1. more[<<Taught, n>>] = view[<<Taught, n>>] /\ n \in 1..last
      BY <1>2
    <3>2. (\E m \in 1..last : m < n) <=> (\E m \in 1..k : m < n)
      OBVIOUS
    <3>3. QED
      BY <1>4, <3>1, <3>2 DEF ByPerson
  <2>2. last \in ByPerson(more, Taught) <=> hers
    BY <1>4, <1>8 DEF ByPerson
  <2>3. ByPerson(more, Taught) \subseteq 1..last /\ ByPerson(view, Taught) \subseteq 1..k
    BY <1>4 DEF ByPerson
  <2>4. QED
    BY <2>1, <2>2, <2>3
<1>12. \A n \in ByPerson(view, Taught) :
         /\ n < last /\ n # last
         /\ TookOut(more, Taught, n) = TookOut(view, Taught, n) /\ PutIn(more, Taught, n) = PutIn(view, Taught, n)
  BY <1>7, <1>10
<1> HIDE DEF last, hers, base, new
<1>13. CASE ~hers
  <2>1. ByPerson(more, Taught) = ByPerson(view, Taught)
    BY <1>11, <1>13
  <2>2. Dismissed(more, Taught) = Dismissed(view, Taught)
    BY <1>12, <2>1 DEF Dismissed
  <2>3. Insisted(more, Taught) = Insisted(view, Taught)
    BY <1>12, <2>1 DEF Insisted
  <2>4. QED
    BY <1>13, <2>2, <2>3 DEF hers, last, base, new, MovesWith
<1>14. CASE hers
  <2>1. /\ ByPerson(more, Taught) = ByPerson(view, Taught) \cup {last}
        /\ last \notin ByPerson(view, Taught)
    BY <1>11, <1>12, <1>14
  <2>2. \A m \in ByPerson(more, Taught) : ~(m > last)
    BY <1>10, <1>12, <2>1 DEF last
  <2>3. \A n \in ByPerson(view, Taught) : last > n
    BY <1>10 DEF last
  <2>4. ASSUME NEW e
        PROVE  e \in Dismissed(more, Taught) <=>
                 e \in base \ new \/ (e \in Dismissed(view, Taught) /\ e \notin new \ base)
    <3>1. ASSUME NEW n \in ByPerson(view, Taught)
          PROVE  (/\ e \in TookOut(more, Taught, n)
                  /\ \A m \in ByPerson(more, Taught) : m > n => e \notin PutIn(more, Taught, m))
             <=> (/\ e \in TookOut(view, Taught, n) /\ e \notin new \ base
                  /\ \A m \in ByPerson(view, Taught) : m > n => e \notin PutIn(view, Taught, m))
      BY <1>9, <1>12, <2>1, <2>3
    <3>2. (/\ e \in TookOut(more, Taught, last)
           /\ \A m \in ByPerson(more, Taught) : m > last => e \notin PutIn(more, Taught, m))
             <=> e \in base \ new
      BY <1>9, <2>2
    <3>3. e \in Dismissed(more, Taught) <=>
            \E n \in ByPerson(more, Taught) :
               /\ e \in TookOut(more, Taught, n)
               /\ \A m \in ByPerson(more, Taught) : m > n => e \notin PutIn(more, Taught, m)
      BY DEF Dismissed
    <3>4. e \in Dismissed(view, Taught) <=>
            \E n \in ByPerson(view, Taught) :
               /\ e \in TookOut(view, Taught, n)
               /\ \A m \in ByPerson(view, Taught) : m > n => e \notin PutIn(view, Taught, m)
      BY DEF Dismissed
    <3>5. QED
      BY <2>1, <3>1, <3>2, <3>3, <3>4
  <2>5. ASSUME NEW e
        PROVE  e \in Insisted(more, Taught) <=>
                 e \in new \ base \/ (e \in Insisted(view, Taught) /\ e \notin base \ new)
    <3>1. ASSUME NEW n \in ByPerson(view, Taught)
          PROVE  (/\ e \in PutIn(more, Taught, n)
                  /\ \A m \in ByPerson(more, Taught) : m > n => e \notin TookOut(more, Taught, m))
             <=> (/\ e \in PutIn(view, Taught, n) /\ e \notin base \ new
                  /\ \A m \in ByPerson(view, Taught) : m > n => e \notin TookOut(view, Taught, m))
      BY <1>9, <1>12, <2>1, <2>3
    <3>2. (/\ e \in PutIn(more, Taught, last)
           /\ \A m \in ByPerson(more, Taught) : m > last => e \notin TookOut(more, Taught, m))
             <=> e \in new \ base
      BY <1>9, <2>2
    <3>3. e \in Insisted(more, Taught) <=>
            \E n \in ByPerson(more, Taught) :
               /\ e \in PutIn(more, Taught, n)
               /\ \A m \in ByPerson(more, Taught) : m > n => e \notin TookOut(more, Taught, m)
      BY DEF Insisted
    <3>4. e \in Insisted(view, Taught) <=>
            \E n \in ByPerson(view, Taught) :
               /\ e \in PutIn(view, Taught, n)
               /\ \A m \in ByPerson(view, Taught) : m > n => e \notin TookOut(view, Taught, m)
      BY DEF Insisted
    <3>5. QED
      BY <2>1, <3>1, <3>2, <3>3, <3>4
  <2>6. Dismissed(more, Taught) = (Dismissed(view, Taught) \ (new \ base)) \cup (base \ new)
    BY <2>4
  <2>7. Insisted(more, Taught) = (Insisted(view, Taught) \ (base \ new)) \cup (new \ base)
    BY <2>5
  <2>8. QED
    BY <1>14, <2>6, <2>7 DEF hers, last, base, new, MovesWith
<1>15. QED
  BY <1>13, <1>14

\* A revision adds one version to the history.  What it leaves out of the
\* things people have moved was taken out.
LEMMA RevisionTells ==
  ASSUME LibraryTyped, NEW k \in Nat, HistoryTo(k), NEW w, NEW a \in Asops, NEW e \in SUBSET Entries,
         Revised(w, a, e)
  PROVE  /\ a = Taught /\ HistoryTo(k + 1)' /\ Latest(View(w), Taught) = k
         /\ Extends(versions, versions', k)
         /\ Text(versions', k + 1) = e
         /\ Moved(versions) \subseteq Moved(versions') /\ \A l \in Moved(versions) \ e : l \in Dismissed(versions', Taught)
<1> DEFINE n == Latest(View(w), a)
<1>1. /\ w \notin overtaken /\ n \in 1..MaxVersion[a] /\ n + 1 \in 1..MaxVersion[a]
      /\ <<a, n>> \in DOMAIN versions /\ <<a, n + 1>> \notin DOMAIN versions
      /\ Policed(w, View(w), a, versions[<<a, n>>].entries, e)
      /\ Store(versions') /\ DOMAIN versions' = DOMAIN versions \cup {<<a, n + 1>>}
      /\ versions'[<<a, n + 1>>] = Draft(w, e)
      /\ \A v \in DOMAIN versions : versions'[v] = versions[v]
      /\ torn' = torn
  BY RevisedAdds
<1>2. View(w) = versions /\ torn = {} /\ DOMAIN versions = UpTo(k) /\ k \in 1..MaxVersion[Taught]
  BY <1>1, ReadsAsItIs DEF HistoryTo
<1>3. \A b, m : <<b, m>> \in UpTo(k) <=> b = Taught /\ m \in 1..k
  BY DEF UpTo
<1>4. a = Taught /\ n = k
  BY <1>1, <1>2, <1>3
<1> DEFINE new  == <<Taught, k + 1>>
           base == Text(versions, k)
<1>5. DOMAIN versions' = UpTo(k + 1)
  <2>1. UpTo(k + 1) = UpTo(k) \cup {new}
    BY DEF UpTo
  <2>2. QED
    BY <1>1, <1>2, <1>4, <2>1
<1>6. versions'[new] = Draft(w, e)
  BY <1>1, <1>4
<1>7. versions'[new].human = (w \in Persons) /\ versions'[new].entries = e /\ versions'[new].human \in BOOLEAN
  BY <1>6 DEF Draft
<1>8. k + 1 \in 1..MaxVersion[Taught] /\ k \in Nat \ {0}
  BY <1>1, <1>2, <1>4
<1> DEFINE D == Dismissed(versions, Taught)
           I == Insisted(versions, Taught)
           D2 == Dismissed(versions', Taught)
           I2 == Insisted(versions', Taught)
<1>9. IF w \in Persons THEN D2 = (D \ (e \ base)) \cup (base \ e) /\ I2 = (I \ (base \ e)) \cup (e \ base)
                       ELSE D2 = D /\ I2 = I
  <2>1. base = versions[<<Taught, k>>].entries
    BY DEF Text
  <2>2. \A v \in UpTo(k) : versions'[v] = versions[v]
    BY <1>1, <1>2
  <2>3. versions'[new].human \in BOOLEAN /\ e = versions'[new].entries
    BY <1>7
  <2>4. DOMAIN versions = UpTo(k)
    BY <1>2
  <2> HIDE DEF base
  <2> DEFINE was  == versions[<<Taught, k>>].entries
             says == versions'[<<Taught, k + 1>>].entries
  <2>5. MovesWith(versions, versions', k)
    BY <1>5, <1>8, <2>2, <2>3, <2>4, HistoryGrows DEF OneMore
  <2>6. was = base /\ says = e
    BY <2>1, <2>3
  <2>7. QED
    BY <1>7, <2>5, <2>6 DEF MovesWith
<1>10. w \notin Persons => (e \ base) \cap D = {} /\ (base \ e) \cap I = {}
  BY <1>1, <1>2, <1>4 DEF Policed, Text
<1>11. D \cap base = {} /\ I \subseteq base
  BY DEF HistoryTo
<1>12. D2 \cap e = {} /\ I2 \subseteq e /\ D \cup I \subseteq D2 \cup I2 /\ \A l \in D \cup I : l \notin e => l \in D2
  <2> HIDE DEF D, I, D2, I2, base
  <2>1. CASE w \in Persons
    <3>1. D2 = (D \ (e \ base)) \cup (base \ e) /\ I2 = (I \ (base \ e)) \cup (e \ base)
      BY <1>9, <2>1
    <3>2. QED
      BY <1>11, <3>1
  <2>2. CASE w \notin Persons
    <3>1. D2 = D /\ I2 = I
      BY <1>9, <2>2
    <3>2. QED
      BY <1>10, <1>11, <2>2, <3>1
  <2>3. QED
    BY <2>1, <2>2
<1>13. Text(versions', k + 1) = e
  BY <1>7 DEF Text
<1>14. HistoryTo(k + 1)'
  BY <1>1, <1>2, <1>5, <1>8, <1>12, <1>13 DEF HistoryTo
<1>15. \A v \in UpTo(k) : versions'[v] = versions[v]
  BY <1>1, <1>2
<1>16. QED
  BY <1>2, <1>4, <1>12, <1>13, <1>14, <1>15 DEF Moved, Extends

\* What was told up to a version is told the same when another is added.
LEMMA ToldStands ==
  ASSUME NEW k \in Nat, NEW old, NEW vs, Extends(old, vs, k), NEW j \in 1..k
  PROVE  Told(vs, j) = Told(old, j) /\ Text(vs, j) = Text(old, j)
<1>1. UpTo(j) \subseteq UpTo(k) /\ <<Taught, j>> \in UpTo(k)
  BY DEF UpTo
<1>2. QED
  BY <1>1 DEF Told, Text, Extends

\* Marks stay true while the history they speak of only grows.
LEMMA MarksStand ==
  ASSUME NEW k \in Nat, Extends(versions, versions', k), NEW j \in {k, k + 1}, Marks(k),
         \A l \in Lessons : lesson'[l] = lesson[l] \/ MarkTrue(versions', j, l, lesson'[l])
  PROVE  Marks(j)'
<1>1. ASSUME NEW l \in Lessons, NEW mark, MarkTrue(versions, k, l, mark)
      PROVE  MarkTrue(versions', j, l, mark)
  <2>1. mark.in \in 1..k =>
          /\ mark.in \in 1..j
          /\ Told(versions', mark.in) = Told(versions, mark.in) /\ Text(versions', mark.in) = Text(versions, mark.in)
    BY ToldStands
  <2>2. QED
    BY <1>1, <2>1 DEF MarkTrue
<1>2. \A l \in Lessons : MarkTrue(versions', j, l, lesson'[l])
  BY <1>1 DEF Marks
<1>3. QED
  BY <1>2 DEF Marks

\* So do the marks still to make.
LEMMA IntentionsStand ==
  ASSUME NEW k \in Nat, Extends(versions, versions', k), NEW j \in {k, k + 1}, Intentions(k),
         Moved(versions) \subseteq Moved(versions'),
         \A p \in Passes : pass'[p] = pass[p] \/ Honest(versions', j, pass'[p])
  PROVE  Intentions(j)'
<1>1. ASSUME NEW hand, Honest(versions, k, hand)
      PROVE  Honest(versions', j, hand)
  <2>1. hand.version \in 1..k =>
          /\ hand.version \in 1..j
          /\ Told(versions', hand.version) = Told(versions, hand.version)
          /\ Text(versions', hand.version) = Text(versions, hand.version)
    BY ToldStands
  <2>2. QED
    BY <1>1, <2>1 DEF Honest
<1>2. \A p \in Passes : Honest(versions', j, pass'[p])
  BY <1>1 DEF Intentions
<1>3. QED
  BY <1>2 DEF Intentions

\* A step that writes no version changes no history.
LEMMA HistoryUnchanged ==
  ASSUME NEW k, HistoryTo(k), UNCHANGED <<versions, torn>>
  PROVE  HistoryTo(k)' /\ Extends(versions, versions', k) /\ Moved(versions) \subseteq Moved(versions')
BY DEF HistoryTo, Text, Moved, UpTo, Extends

\* The pass in the middle of its work: nobody writes the library.
LEMMA QuietPassIsHonest ==
  ASSUME LibraryTyped, NEW k \in Nat, HistoryTo(k), Marks(k), Intentions(k),
         NEW p \in Passes, Look(p) \/ Plan(p) \/ PlanFails(p) \/ DraftRefused(p) \/ PassDies(p)
  PROVE  HistoryTo(k)' /\ Marks(k)' /\ Intentions(k)'
<1>1. versions' = versions /\ torn' = torn /\ lesson' = lesson
  BY DEF Look, Plan, PlanFails, DraftRefused, PassDies, OnlyPass
<1>2. HistoryTo(k)' /\ Extends(versions, versions', k) /\ Moved(versions) \subseteq Moved(versions')
  BY <1>1, HistoryUnchanged
<1>3. Marks(k)'
  BY <1>1, <1>2, MarksStand
<1>4. ASSUME NEW next, pass' = [pass EXCEPT ![p] = next], Honest(versions, k, next) PROVE Intentions(k)'
  <2>1. \A q \in Passes : pass'[q] = pass[q] \/ Honest(versions', k, pass'[q])
    BY <1>1, <1>4 DEF LibraryTyped
  <2>2. QED
    BY <1>2, <2>1, IntentionsStand
<1>5. \A next : next = NoPass \/ next.stage = "planning" => Honest(versions, k, next)
  BY DEF Honest, NoPass
<1>6. CASE Look(p)
  <2> DEFINE next == [stage |-> "planning", pending |-> {l \in Lessons : lesson[l] = Pending}]
  <2>1. pass' = [pass EXCEPT ![p] = next] /\ next.stage = "planning"
    BY <1>6 DEF Look, OnlyPass
  <2> HIDE DEF next
  <2>2. QED
    BY <1>2, <1>3, <1>4, <1>5, <2>1
<1>7. CASE PlanFails(p) \/ DraftRefused(p) \/ PassDies(p)
  <2>1. pass' = [pass EXCEPT ![p] = NoPass]
    BY <1>7 DEF PlanFails, DraftRefused, PassDies, OnlyPass
  <2>2. QED
    BY <1>2, <1>3, <1>4, <1>5, <2>1
<1>8. CASE Plan(p)
  <2> DEFINE view == Readable(versions)
             n    == Latest(view, Taught)
             base == view[<<Taught, n>>].entries
             here == {l \in pass[p].pending : StepOf[l] \in base}
             gone == here \cap Dismissed(view, Taught)
  <2>1. view = versions
    BY ReadsAsItIs DEF HistoryTo
  <2>2. n \in 1..MaxVersion[Taught] /\ <<Taught, n>> \in DOMAIN versions
    BY <1>8, PlanDrafts
  <2>3. PICK new \in SUBSET Entries, taken \in SUBSET Lessons :
          /\ base \subseteq new /\ new \subseteq base \cup (here \ gone)
          /\ gone \subseteq taken /\ taken \subseteq here /\ taken \ gone \subseteq new
          /\ OnlyPass(p,
               IF new # base
                 THEN [stage |-> "drafting", entries |-> new, todo |-> taken, gone |-> gone]
               ELSE IF taken # {} /\ (taken = here \/ gone # {})
                 THEN [stage |-> "marking", version |-> n, todo |-> taken, gone |-> gone]
               ELSE NoPass)
    BY <1>8, PlanDrafts
  <2>4. n = k
    <3>1. <<Taught, k>> \in DOMAIN versions /\ k \in 1..MaxVersion[Taught]
      BY DEF HistoryTo, UpTo
    <3>2. k \in Numbers(versions, Taught)
      BY <3>1 DEF Numbers
    <3>3. k <= Latest(versions, Taught)
      BY <3>2, LatestIsLast, LibraryAssumption
    <3>4. n \in 1..k
      BY <2>2 DEF HistoryTo, UpTo
    <3>5. QED
      BY <2>1, <3>1, <3>3, <3>4
  <2>5. base = Text(versions, k) /\ k \in 1..k
    BY <2>1, <2>4 DEF Text, HistoryTo
  <2>6. gone \subseteq Dismissed(versions, Taught)
    BY <2>1
  <2> HIDE DEF n, base, here, gone
  <2>7. gone \cap base = {} /\ gone \subseteq Moved(versions)
    BY <2>5, <2>6 DEF HistoryTo, Moved
  <2>8. Told(versions, k) = versions
    BY DEF HistoryTo, Told, LibraryTyped, Store
  <2>9. Honest(versions, k, [stage |-> "drafting", entries |-> new, todo |-> taken, gone |-> gone])
    BY <2>3, <2>7 DEF Honest
  <2>10. new = base => Honest(versions, k, [stage |-> "marking", version |-> n, todo |-> taken, gone |-> gone])
    BY <2>3, <2>4, <2>5, <2>6, <2>8 DEF Honest
  <2>11. PICK next : pass' = [pass EXCEPT ![p] = next] /\ (next = NoPass \/ Honest(versions, k, next))
    BY <2>3, <2>9, <2>10 DEF OnlyPass
  <2>12. QED
    BY <1>2, <1>3, <1>4, <1>5, <2>11
<1>9. QED
  BY <1>6, <1>7, <1>8

\* The version the pass wrote says what it is about to mark.
LEMMA DraftIsHonest ==
  ASSUME LibraryTyped, NEW k \in Nat, HistoryTo(k), Marks(k), Intentions(k),
         NEW p \in Passes, DraftNext(p)
  PROVE  HistoryTo(k + 1)' /\ Marks(k + 1)' /\ Intentions(k + 1)'
<1> DEFINE e    == pass[p].entries
           todo == pass[p].todo
           gone == pass[p].gone
           next == [stage |-> "marking", version |-> k + 1, todo |-> todo, gone |-> gone]
<1>1. pass[p].stage = "drafting" /\ Revised(p, Taught, e) /\ lesson' = lesson
  BY DEF DraftNext
<1>2. e \in SUBSET Entries
  BY <1>1 DEF LibraryTyped, PassStates, NoPass
<1>3. /\ HistoryTo(k + 1)' /\ Latest(View(p), Taught) = k /\ Extends(versions, versions', k)
      /\ Text(versions', k + 1) = e
      /\ Moved(versions) \subseteq Moved(versions')
      /\ \A l \in Moved(versions) \ e : l \in Dismissed(versions', Taught)
  BY <1>1, <1>2, RevisionTells, LibraryAssumption
<1>4. Marks(k + 1)'
  BY <1>1, <1>3, MarksStand
<1>5. gone \cap e = {} /\ todo \ gone \subseteq e /\ gone \subseteq Moved(versions)
  BY <1>1 DEF Intentions, Honest
<1>6. Told(versions', k + 1) = versions'
  <2>1. versions' = [v \in DOMAIN versions' |-> versions'[v]]
    BY <1>1, <1>2, RevisedAdds, LibraryAssumption DEF Store
  <2>2. DOMAIN versions' = UpTo(k + 1)
    BY <1>3 DEF HistoryTo, UpTo
  <2>3. QED
    BY <2>1, <2>2 DEF Told
<1>7. gone \subseteq Dismissed(versions', Taught)
  BY <1>3, <1>5
<1>8. pass' = [pass EXCEPT ![p] = next]
  BY <1>3 DEF DraftNext
<1> HIDE DEF e, todo, gone
<1>9. Honest(versions', k + 1, next)
  <2>1. k + 1 \in 1..(k + 1)
    OBVIOUS
  <2>2. QED
    BY <1>3, <1>5, <1>6, <1>7, <2>1 DEF Honest
<1> HIDE DEF next
<1>10. \A q \in Passes : pass'[q] = pass[q] \/ Honest(versions', k + 1, pass'[q])
  BY <1>8, <1>9 DEF LibraryTyped
<1>11. Intentions(k + 1)'
  BY <1>3, <1>10, IntentionsStand
<1>12. QED
  BY <1>3, <1>4, <1>11

\* The pass writes marks that are true.
LEMMA MarkIsHonest ==
  ASSUME LibraryTyped, NEW k \in Nat, HistoryTo(k), Marks(k), Intentions(k),
         NEW p \in Passes, NEW l \in Lessons, Mark(p, l)
  PROVE  HistoryTo(k)' /\ Marks(k)' /\ Intentions(k)'
<1> DEFINE hand == pass[p]
           mark == [state |-> IF l \in hand.gone THEN "dismissed" ELSE "consumed", in |-> hand.version]
           todo == hand.todo \ {l}
           next == IF todo = {} THEN NoPass ELSE [hand EXCEPT !.todo = todo]
<1>1. /\ hand.stage = "marking" /\ l \in hand.todo
      /\ lesson' = [lesson EXCEPT ![l] = mark] /\ pass' = [pass EXCEPT ![p] = next]
      /\ versions' = versions /\ torn' = torn
  BY DEF Mark
<1>2. HistoryTo(k)' /\ Extends(versions, versions', k) /\ Moved(versions) \subseteq Moved(versions')
  BY <1>1, HistoryUnchanged
<1>3. /\ hand.version \in 1..k /\ hand.todo \ hand.gone \subseteq Text(versions, hand.version)
      /\ hand.gone \subseteq Dismissed(Told(versions, hand.version), Taught)
  BY <1>1 DEF Intentions, Honest
<1>4. MarkTrue(versions, k, l, mark)
  BY <1>1, <1>3 DEF MarkTrue
<1>5. Honest(versions, k, next)
  <2>1. hand \in [stage : {"marking"}, version : Nat, todo : SUBSET Lessons, gone : SUBSET Lessons]
    BY <1>1 DEF LibraryTyped, PassStates, NoPass
  <2> HIDE DEF hand
  <2>2. CASE todo = {}
    BY <2>2 DEF Honest, NoPass
  <2>3. CASE todo # {}
    BY <1>3, <2>1, <2>3 DEF Honest
  <2>4. QED
    BY <2>2, <2>3
<1> HIDE DEF mark, next
<1>6. Marks(k)'
  <2>1. \A m \in Lessons : lesson'[m] = lesson[m] \/ MarkTrue(versions', k, m, lesson'[m])
    BY <1>1, <1>4 DEF LibraryTyped
  <2>2. QED
    BY <1>2, <2>1, MarksStand
<1>7. Intentions(k)'
  <2>1. \A q \in Passes : pass'[q] = pass[q] \/ Honest(versions', k, pass'[q])
    BY <1>1, <1>5 DEF LibraryTyped
  <2>2. QED
    BY <1>2, <2>1, IntentionsStand
<1>8. QED
  BY <1>2, <1>6, <1>7

\* The others: an adjudication, and a reviser beside the pass.
LEMMA OthersAreHonest ==
  ASSUME LibraryTyped, NEW k \in Nat, HistoryTo(k), Marks(k), Intentions(k),
         \/ \E l \in Lessons : Adjudicate(l)
         \/ \E w \in Writers : Reviser(w)
         \/ UNCHANGED libraryVars
  PROVE  \E j \in Nat : HistoryTo(j)' /\ Marks(j)' /\ Intentions(j)'
<1>1. ASSUME versions' = versions, torn' = torn, pass' = pass,
             \A l \in Lessons : lesson'[l] = lesson[l] \/ lesson'[l] = Pending
      PROVE  HistoryTo(k)' /\ Marks(k)' /\ Intentions(k)'
  <2>1. HistoryTo(k)' /\ Extends(versions, versions', k) /\ Moved(versions) \subseteq Moved(versions')
    BY <1>1, HistoryUnchanged
  <2>2. \A l \in Lessons : MarkTrue(versions', k, l, Pending)
    BY DEF MarkTrue, Pending
  <2>3. Marks(k)'
    BY <1>1, <2>1, <2>2, MarksStand
  <2>4. Intentions(k)'
    BY <1>1, <2>1, IntentionsStand
  <2>5. QED
    BY <2>1, <2>3, <2>4
<1>2. ASSUME NEW l \in Lessons, Adjudicate(l)
      PROVE  HistoryTo(k)' /\ Marks(k)' /\ Intentions(k)'
  <2>1. lesson' = [lesson EXCEPT ![l] = Pending] /\ UNCHANGED <<versions, torn, pass>>
    BY <1>2 DEF Adjudicate
  <2>2. QED
    BY <1>1, <2>1 DEF LibraryTyped
<1>3. ASSUME NEW w \in Writers, NEW a \in Asops, NEW e \in Bodies, Revise(w, a, e)
      PROVE  HistoryTo(k + 1)' /\ Marks(k + 1)' /\ Intentions(k + 1)'
  <2>1. Revised(w, a, e) /\ e \in SUBSET Entries /\ lesson' = lesson /\ pass' = pass
    BY <1>3, LibraryAssumption DEF Revise, Entries
  <2>2. HistoryTo(k + 1)' /\ Extends(versions, versions', k) /\ Moved(versions) \subseteq Moved(versions')
    BY <2>1, RevisionTells
  <2>3. Marks(k + 1)'
    BY <2>1, <2>2, MarksStand
  <2>4. Intentions(k + 1)'
    BY <2>1, <2>2, IntentionsStand
  <2>5. QED
    BY <2>2, <2>3, <2>4
<1>4. k + 1 \in Nat
  OBVIOUS
<1>5. ASSUME NEW w \in Writers, Reviser(w)
      PROVE  \E j \in Nat : HistoryTo(j)' /\ Marks(j)' /\ Intentions(j)'
  <2>1. CASE Ask(w) \/ Refused(w)
    BY <1>1, <2>1 DEF Ask, Refused
  <2>2. CASE \E a \in Asops, e \in Bodies : Revise(w, a, e)
    BY <1>3, <1>4, <2>2
  <2>3. QED
    BY <1>5, <2>1, <2>2 DEF Reviser
<1>6. QED
  BY <1>1, <1>2, <1>5 DEF libraryVars

\* At first there is one version and no mark.
LEMMA LearningBegins == ProceduresInit => LearnInv
<1> SUFFICES ASSUME ProceduresInit PROVE LearnInv
  OBVIOUS
<1> DEFINE t == <<Taught, 1>>
<1>1. /\ versions = [v \in {t} |-> [status |-> "active", human |-> TRUE, entries |-> Steps, chosen |-> TRUE]]
      /\ torn = {} /\ lesson = [l \in Lessons |-> Unjudged] /\ pass = [p \in Passes |-> NoPass]
  BY DEF ProceduresInit, LibraryInit
<1>2. DOMAIN versions = UpTo(1) /\ 1 \in 1..MaxVersion[Taught]
  BY <1>1, LibraryAssumption DEF UpTo
<1>3. Numbers(versions, Taught) = {1}
  BY <1>2, LibraryAssumption DEF Numbers, UpTo
<1>4. ByPerson(versions, Taught) = {}
  BY <1>3 DEF ByPerson
<1>5. Dismissed(versions, Taught) = {} /\ Insisted(versions, Taught) = {}
  BY <1>4 DEF Dismissed, Insisted
<1>6. HistoryTo(1)
  BY <1>1, <1>2, <1>5 DEF HistoryTo
<1>7. Marks(1)
  BY <1>1 DEF Marks, MarkTrue, Unjudged
<1>8. Intentions(1)
  BY <1>1 DEF Intentions, Honest, NoPass
<1>9. QED
  BY <1>1, <1>6, <1>7, <1>8 DEF LearnInv

\* Every step keeps the history whole and the marks true.
LEMMA LearningStands ==
  ASSUME LibraryTyped, LearnInv, [ProceduresNext]_proceduresVars
  PROVE  LearnInv'
<1>1. part' = part
  BY DEF ProceduresNext, Authoring, Learning, Chaining, proceduresVars
<1>2. CASE part # "learning"
  <2>1. lesson' = lesson
    <3>1. CASE UNCHANGED libraryVars
      BY <3>1 DEF libraryVars
    <3>2. CASE \E w \in Writers : Author(w)
      <4>1. PICK w \in Writers : Author(w)
        BY <3>2
      <4>2. CASE Ask(w) \/ Refused(w) \/ PromoteLook(w)
        BY <4>2 DEF Ask, Refused, PromoteLook
      <4>3. CASE \E a \in Asops, e \in Bodies : Create(w, a, e) \/ Promote(w, a, e) \/ Revise(w, a, e)
        BY <4>3 DEF Create, Promote, NewProcedure, Revise
      <4>4. CASE \E a \in Asops : Retire(w, a) \/ \E n \in 1..MaxVersion[a] : Activate(w, a, n)
        BY <4>4 DEF Activate, Retire
      <4>5. QED
        BY <4>1, <4>2, <4>3, <4>4 DEF Author, Reviser
    <3>3. CASE Damage
      BY <3>3 DEF Damage, Tear, Repair
    <3>4. QED
      BY <1>2, <3>1, <3>2, <3>3 DEF ProceduresNext, Authoring, Learning, Chaining, proceduresVars
  <2>2. QED
    BY <1>1, <1>2, <2>1 DEF LearnInv
<1>3. CASE part = "learning"
  <2>1. PICK k \in Nat : HistoryTo(k) /\ Marks(k) /\ Intentions(k)
    BY <1>3 DEF LearnInv
  <2>2. \/ \E l \in Lessons : Adjudicate(l)
        \/ \E w \in Writers : Reviser(w)
        \/ UNCHANGED libraryVars
        \/ \E p \in Passes : PassStep(p) \/ PassDies(p)
    BY <1>3 DEF ProceduresNext, Authoring, Learning, Chaining, PassNext, proceduresVars
  <2>3. ASSUME NEW p \in Passes, PassStep(p) \/ PassDies(p)
        PROVE  \E j \in Nat : HistoryTo(j)' /\ Marks(j)' /\ Intentions(j)'
    <3>1. k + 1 \in Nat
      OBVIOUS
    <3>2. CASE DraftNext(p)
      BY <2>1, <3>1, <3>2, DraftIsHonest
    <3>3. CASE \E l \in Lessons : Mark(p, l)
      BY <2>1, <3>3, MarkIsHonest
    <3>4. CASE Look(p) \/ Plan(p) \/ PlanFails(p) \/ DraftRefused(p) \/ PassDies(p)
      BY <2>1, <3>4, QuietPassIsHonest
    <3>5. QED
      BY <2>3, <3>2, <3>3, <3>4 DEF PassStep
  <2>4. \E j \in Nat : HistoryTo(j)' /\ Marks(j)' /\ Intentions(j)'
    BY <2>1, <2>2, <2>3, OthersAreHonest
  <2>5. QED
    BY <1>1, <1>3, <2>4 DEF LearnInv
<1>4. QED
  BY <1>2, <1>3

\* Such marks say what is so.
LEMMA HonestMarks == LearnInv => MarksAreTrue
<1> SUFFICES ASSUME LearnInv PROVE MarksAreTrue
  OBVIOUS
<1>1. CASE part # "learning"
  BY <1>1 DEF LearnInv, MarksAreTrue, Unjudged
<1>2. CASE part = "learning"
  <2>1. PICK k \in Nat : Marks(k)
    BY <1>2 DEF LearnInv
  <2>2. ASSUME NEW l \in Lessons
        PROVE  /\ lesson[l].state = "consumed" => l \in versions[<<Taught, lesson[l].in>>].entries
               /\ lesson[l].state = "dismissed" =>
                    l \in Dismissed([v \in {<<Taught, n>> : n \in 1..lesson[l].in} |-> versions[v]], Taught)
    BY <2>1 DEF Marks, MarkTrue, Text, Told, UpTo
  <2>3. QED
    BY <2>2 DEF MarksAreTrue
<1>3. QED
  BY <1>1, <1>2

\* An adjudication counts as consumed only by a version that holds it, and as
\* dismissed only by one before which a person had taken it out, whoever
\* revises between the pass's look, its draft and its marks, and however often
\* a pass dies (learning_pass, draft_from_outcomes).
THEOREM MarksStayTrue == ProceduresSpec => []MarksAreTrue
<1>1. ProceduresInit => LibraryTyped /\ LearnInv
  BY TypedAtFirst, LearningBegins
<1>2. (LibraryTyped /\ LearnInv) /\ [ProceduresNext]_proceduresVars => (LibraryTyped /\ LearnInv)'
  BY StaysTyped, LearningStands
<1>3. LearnInv => MarksAreTrue
  BY HonestMarks
<1>4. QED
  BY <1>1, <1>2, <1>3, PTL DEF ProceduresSpec

-----------------------------------------------------------------------------
(* A chain moves along one path.                                            *)

\* A manifest names the chain's procedure, so it is not the empty one; a move
\* in hand leads to one that was recorded; a chain that has moved runs under
\* one, the last it was moved to.
MovesHold ==
  /\ \A m \in manifests : DOMAIN m = {Taught}
  /\ adopting = [w \in Persons |-> adopting[w]]
  /\ \A w \in Persons : adopting[w] # NoMove => adopting[w].to \in manifests
  /\ adoptions # <<>> => current \in manifests
  /\ \E Moves : adoptions \in Seq(Moves)

PathInv == MovesHold /\ ChainsNeverFork

\* At first the chain has not moved.
LEMMA PathBegins == ChainInit => PathInv
<1> SUFFICES ASSUME ChainInit PROVE PathInv
  OBVIOUS
<1>1. adoptions = <<>> /\ manifests = {} /\ adopting = [w \in Persons |-> NoMove]
  BY DEF ChainInit
<1>2. adoptions \in Seq({}) /\ Len(adoptions) = 0
  BY <1>1
<1>3. QED
  BY <1>1, <1>2 DEF PathInv, MovesHold, ChainsNeverFork

\* A manifest more: the chain takes it only if it has none, and then it has
\* never moved.
LEMMA RecordKeepsPath ==
  ASSUME PathInv, NEW e \in Engines, NEW members \in [{Taught} -> 1..MaxVersion[Taught]],
         RecordManifest(e, members)
  PROVE  PathInv'
<1> DEFINE m == [a \in DOMAIN members |-> [version |-> members[a], digest |-> Digest(<<a, members[a]>>)]]
<1>1. /\ manifests' = manifests \cup {m}
      /\ current' = IF current = NoManifest THEN m ELSE current
      /\ UNCHANGED <<adoptions, adopting>>
  BY DEF RecordManifest
<1>2. DOMAIN m = {Taught}
  OBVIOUS
<1>3. adoptions # <<>> => current' = current
  <2>1. DOMAIN NoManifest = {}
    BY DEF NoManifest
  <2>2. QED
    BY <1>1, <2>1 DEF PathInv, MovesHold
<1> HIDE DEF m
<1>4. MovesHold'
  BY <1>1, <1>2, <1>3 DEF PathInv, MovesHold
<1>5. ChainsNeverFork'
  BY <1>1, <1>3 DEF PathInv, ChainsNeverFork
<1>6. QED
  BY <1>4, <1>5 DEF PathInv

\* Who reads the impact of a move takes down where it starts.
LEMMA ImpactKeepsPath ==
  ASSUME PathInv, NEW w \in Persons, NEW to \in manifests, ReadImpact(w, to)
  PROVE  PathInv'
<1>1. /\ adopting' = [adopting EXCEPT ![w] = [from |-> current, to |-> to]]
      /\ UNCHANGED <<manifests, current, adoptions>>
  BY DEF ReadImpact
<1>2. \A u \in Persons : adopting'[u] = IF u = w THEN [from |-> current, to |-> to] ELSE adopting[u]
  BY <1>1 DEF PathInv, MovesHold
<1>3. MovesHold'
  <2>1. adopting' = [u \in Persons |-> adopting'[u]]
    BY <1>1 DEF PathInv, MovesHold
  <2>2. QED
    BY <1>1, <1>2, <2>1 DEF PathInv, MovesHold
<1>4. ChainsNeverFork'
  BY <1>1 DEF PathInv, ChainsNeverFork
<1>5. QED
  BY <1>3, <1>4 DEF PathInv

\* The move is added to the path where the path ends.
LEMMA AdoptKeepsPath ==
  ASSUME PathInv, NEW w \in Persons, Adopt(w)
  PROVE  PathInv'
<1>1. /\ adopting[w] # NoMove
      /\ adopting' = [adopting EXCEPT ![w] = NoMove]
      /\ UNCHANGED manifests
  BY DEF Adopt
<1>2. adopting' = [u \in Persons |-> adopting'[u]] /\ \A u \in Persons : adopting'[u] \in {NoMove, adopting[u]}
  BY <1>1 DEF PathInv, MovesHold
<1>3. CASE StillThere(w)
  <2> DEFINE move == adopting[w]
  <2>1. current' = move.to /\ adoptions' = Append(adoptions, move) /\ current = move.from
    BY <1>3 DEF Adopt, StillThere
  <2>2. move.to \in manifests
    BY <1>1 DEF PathInv, MovesHold
  <2>3. PICK Moves : adoptions \in Seq(Moves)
    BY DEF PathInv, MovesHold
  <2> DEFINE More == Moves \cup {move}
  <2>4. adoptions \in Seq(More) /\ move \in More
    BY <2>3
  <2> HIDE DEF More, move
  <2>5. /\ adoptions' \in Seq(More) /\ adoptions' # <<>>
        /\ Len(adoptions') = Len(adoptions) + 1 /\ Len(adoptions) \in Nat
        /\ \A i \in 1..Len(adoptions) : adoptions'[i] = adoptions[i]
        /\ adoptions'[Len(adoptions) + 1] = move
    BY <2>1, <2>4, AppendProperties
  <2>6. MovesHold'
    BY <1>1, <1>2, <2>1, <2>2, <2>5 DEF PathInv, MovesHold
  <2>7. ChainsNeverFork'
    <3>1. ASSUME NEW i \in 2..Len(adoptions')
          PROVE  adoptions'[i].from = adoptions'[i - 1].to
      <4>1. CASE i \in 2..Len(adoptions)
        BY <2>5, <4>1 DEF PathInv, ChainsNeverFork
      <4>2. CASE i = Len(adoptions) + 1
        <5>1. adoptions # <<>> /\ i - 1 = Len(adoptions) /\ i - 1 \in 1..Len(adoptions)
          BY <2>5, <4>2
        <5>2. QED
          BY <2>1, <2>5, <4>2, <5>1 DEF PathInv, ChainsNeverFork
      <4>3. QED
        BY <2>5, <4>1, <4>2
    <3>2. current' = adoptions'[Len(adoptions')].to
      BY <2>1, <2>5
    <3>3. QED
      BY <3>1, <3>2 DEF ChainsNeverFork
  <2>8. QED
    BY <2>6, <2>7 DEF PathInv
<1>4. CASE ~StillThere(w)
  <2>1. UNCHANGED <<current, adoptions>>
    BY <1>4 DEF Adopt
  <2>2. QED
    BY <1>1, <1>2, <2>1 DEF PathInv, MovesHold, ChainsNeverFork
<1>5. QED
  BY <1>3, <1>4

\* Whatever else happens leaves the chain where it is.
LEMMA PathKept ==
  ASSUME PathInv, [ProceduresNext]_proceduresVars
  PROVE  PathInv'
<1>1. CASE UNCHANGED <<manifests, current, adoptions, adopting>>
  BY <1>1 DEF PathInv, MovesHold, ChainsNeverFork
<1>2. CASE ChainNext
  <2>1. CASE \E e \in Engines, members \in [{Taught} -> 1..MaxVersion[Taught]] : RecordManifest(e, members)
    BY <2>1, RecordKeepsPath
  <2>2. CASE \E e \in Engines : RunPinned(e) \/ \E a \in Asops : ResolvePin(e, a)
    BY <1>1, <2>2 DEF RunPinned, ResolvePin
  <2>3. CASE \E w \in Persons : Adopt(w)
    BY <2>3, AdoptKeepsPath
  <2>4. CASE \E w \in Persons, to \in manifests : ReadImpact(w, to)
    BY <2>4, ImpactKeepsPath
  <2>5. QED
    BY <1>2, <2>1, <2>2, <2>3, <2>4 DEF ChainNext
<1>3. ChainNext \/ UNCHANGED chainVars
  BY DEF ProceduresNext, Authoring, Learning, Chaining, proceduresVars
<1>4. QED
  BY <1>1, <1>2, <1>3 DEF chainVars

\* However many people read the impact of a move at once, the chain's adoptions
\* form one path and it runs under the last (chains.adopt).
THEOREM ChainsKeepOnePath == ProceduresSpec => []ChainsNeverFork
<1>1. ProceduresInit => PathInv
  BY PathBegins DEF ProceduresInit
<1>2. PathInv /\ [ProceduresNext]_proceduresVars => PathInv'
  BY PathKept
<1>3. PathInv => ChainsNeverFork
  BY DEF PathInv
<1>4. QED
  BY <1>1, <1>2, <1>3, PTL DEF ProceduresSpec

-----------------------------------------------------------------------------
(* Walking up from a step.                                                  *)

\* A function of the steps that is given at some of them and at the others
\* made from its value at the step above.
Nested(n) == ParentOf[n] # Run
Walk(D, Ends, B, G) ==
  /\ Ends \in SUBSET Nodes /\ \A n \in Nodes \ Ends : Nested(n)
  /\ B \in [Nodes -> D] /\ G \in [Nodes -> [D -> D]]
Value(f, n, Ends, B, G) == IF n \in Ends THEN B[n] ELSE G[n][f[ParentOf[n]]]
Below(k) == {n \in Nodes : n < k}
Walked(f, k, D, Ends, B, G) ==
  /\ f \in [Below(k) -> D]
  /\ \A n \in Below(k) : f[n] = Value(f, n, Ends, B, G)

\* The step above comes first.
LEMMA ParentsAreBelow ==
  ASSUME NEW n \in Nodes, Nested(n)
  PROVE  ParentOf[n] \in Nodes /\ ParentOf[n] < n /\ n \in Nat /\ ParentOf[n] \in Nat
BY FilingAssumption DEF Nested

\* Two such functions agree where both are defined.
LEMMA WalkedOnce ==
  ASSUME NEW D, NEW Ends, NEW B, NEW G, Walk(D, Ends, B, G),
         NEW j \in Nat, NEW k \in Nat, NEW f, NEW g,
         Walked(f, j, D, Ends, B, G), Walked(g, k, D, Ends, B, G),
         NEW n \in Below(j) \cap Below(k)
  PROVE  f[n] = g[n]
<1> DEFINE Bad == {m \in Below(j) \cap Below(k) : f[m] # g[m]}
<1>1. SUFFICES ASSUME Bad # {} PROVE FALSE
  OBVIOUS
<1>2. Bad \in SUBSET Nat
  BY FilingAssumption DEF Below
<1>3. PICK m \in Bad : \A x \in Bad : m <= x
  BY <1>1, <1>2, LeastOfThem
<1>4. m \in Nodes /\ m \in Below(j) /\ m \in Below(k) /\ m \in Nat
  BY <1>2 DEF Below
<1>5. f[m] = Value(f, m, Ends, B, G) /\ g[m] = Value(g, m, Ends, B, G)
  BY <1>4 DEF Walked
<1>6. CASE m \in Ends
  BY <1>3, <1>5, <1>6 DEF Value
<1>7. CASE m \notin Ends
  <2>1. ParentOf[m] \in Nodes /\ ParentOf[m] < m /\ ParentOf[m] \in Nat
    BY <1>4, <1>7, ParentsAreBelow DEF Walk
  <2>2. ParentOf[m] \in Below(j) \cap Below(k)
    BY <1>4, <2>1 DEF Below
  <2>3. ParentOf[m] \notin Bad
    BY <1>3, <1>4, <2>1
  <2>4. f[ParentOf[m]] = g[ParentOf[m]]
    BY <2>2, <2>3
  <2>5. QED
    BY <1>3, <1>5, <1>7, <2>4 DEF Value
<1>8. QED
  BY <1>6, <1>7

\* There is one as far as any number.
LEMMA WalkedThatFar ==
  ASSUME NEW D, NEW Ends, NEW B, NEW G, Walk(D, Ends, B, G), NEW k \in Nat
  PROVE  \E f : Walked(f, k, D, Ends, B, G)
<1> DEFINE Bad == {j \in Nat : ~\E f : Walked(f, j, D, Ends, B, G)}
<1>1. SUFFICES ASSUME Bad # {} PROVE FALSE
  OBVIOUS
<1>2. PICK j \in Bad : \A x \in Bad : j <= x
  BY <1>1, LeastOfThem
<1>3. j # 0
  <2>1. Below(0) = {}
    <3>1. \A n \in Nodes : n \in Nat
      BY FilingAssumption
    <3>2. \A n \in Nat : ~(n < 0)
      OBVIOUS
    <3>3. QED
      BY <3>1, <3>2 DEF Below
  <2>2. Walked([n \in {} |-> 0], 0, D, Ends, B, G)
    BY <2>1 DEF Walked
  <2>3. QED
    BY <2>2
<1>4. j - 1 \in Nat /\ j - 1 \notin Bad
  BY <1>2, <1>3
<1>5. PICK f : Walked(f, j - 1, D, Ends, B, G)
  BY <1>4
<1> DEFINE g == [n \in Below(j) |-> IF n \in Below(j - 1) THEN f[n] ELSE Value(f, n, Ends, B, G)]
<1>6. ASSUME NEW n \in Below(j)
      PROVE  Value(f, n, Ends, B, G) \in D /\ Value(g, n, Ends, B, G) = Value(f, n, Ends, B, G)
  <2>0. n \in Nodes /\ n \in Nat /\ n < j /\ j \in Nat
    BY FilingAssumption DEF Below
  <2>1. CASE n \in Ends
    BY <2>0, <2>1 DEF Value, Walk
  <2>2. CASE n \notin Ends
    <3>1. ParentOf[n] \in Nodes /\ ParentOf[n] < n /\ ParentOf[n] \in Nat
      BY <2>0, <2>2, ParentsAreBelow DEF Walk
    <3>2. ParentOf[n] \in Below(j - 1) /\ ParentOf[n] \in Below(j)
      BY <2>0, <3>1 DEF Below
    <3>3. g[ParentOf[n]] = f[ParentOf[n]] /\ f[ParentOf[n]] \in D
      BY <1>5, <3>2 DEF Walked
    <3>4. G[n][f[ParentOf[n]]] \in D
      BY <2>0, <3>3 DEF Walk
    <3> HIDE DEF g
    <3>5. QED
      BY <2>2, <3>3, <3>4 DEF Value
  <2>3. QED
    BY <2>1, <2>2
<1>7. \A n \in Below(j) : g[n] = Value(f, n, Ends, B, G)
  BY <1>5 DEF Walked
<1>8. g \in [Below(j) -> D] /\ \A n \in Below(j) : g[n] = Value(g, n, Ends, B, G)
  <2>1. g = [n \in Below(j) |-> g[n]]
    OBVIOUS
  <2> HIDE DEF g
  <2>2. QED
    BY <1>6, <1>7, <2>1
<1> HIDE DEF g
<1>9. Walked(g, j, D, Ends, B, G)
  BY <1>8 DEF Walked
<1>10. QED
  BY <1>9

\* The whole function.
LEMMA WalkEnds ==
  ASSUME NEW D, NEW Ends, NEW B, NEW G, Walk(D, Ends, B, G)
  PROVE  \E f \in [Nodes -> D] : \A n \in Nodes : f[n] = Value(f, n, Ends, B, G)
<1> DEFINE Upto(n) == CHOOSE f : Walked(f, n + 1, D, Ends, B, G)
           F == [n \in Nodes |-> Upto(n)[n]]
<1>1. ASSUME NEW n \in Nodes
      PROVE  Walked(Upto(n), n + 1, D, Ends, B, G) /\ n \in Below(n + 1) /\ n + 1 \in Nat
  <2>1. n \in Nat /\ n + 1 \in Nat
    BY FilingAssumption
  <2>2. \E f : Walked(f, n + 1, D, Ends, B, G)
    BY <2>1, WalkedThatFar
  <2>3. QED
    BY <2>1, <2>2 DEF Below
<1>2. ASSUME NEW n \in Nodes PROVE F[n] = Upto(n)[n] /\ F[n] \in D
  BY <1>1 DEF Walked
<1> HIDE DEF Upto
<1>3. ASSUME NEW n \in Nodes PROVE F[n] = Value(F, n, Ends, B, G)
  <2>1. Upto(n)[n] = Value(Upto(n), n, Ends, B, G)
    BY <1>1 DEF Walked
  <2>2. CASE n \in Ends
    BY <1>2, <2>1, <2>2 DEF Value
  <2>3. CASE n \notin Ends
    <3>1. ParentOf[n] \in Nodes /\ ParentOf[n] < n /\ ParentOf[n] \in Nat /\ n \in Nat
      BY <2>3, ParentsAreBelow DEF Walk
    <3>2. ParentOf[n] \in Below(n + 1) \cap Below(ParentOf[n] + 1)
      BY <3>1 DEF Below
    <3>3. Upto(n)[ParentOf[n]] = Upto(ParentOf[n])[ParentOf[n]]
      BY <1>1, <3>1, <3>2, WalkedOnce
    <3>4. F[ParentOf[n]] = Upto(n)[ParentOf[n]]
      BY <1>2, <3>1, <3>3
    <3> HIDE DEF F
    <3>5. QED
      BY <1>2, <2>1, <2>3, <3>4 DEF Value
  <2>4. QED
    BY <2>2, <2>3
<1>4. F \in [Nodes -> D]
  BY <1>2
<1> HIDE DEF F
<1>5. QED
  BY <1>3, <1>4

\* The recursive Inherited satisfies its own equation.
LEMMA InheritedIs ==
  Inherited = [n \in Nodes |-> IF After[n] # {} THEN After[n]
                                  ELSE IF ParentOf[n] = Run THEN Blockers ELSE Inherited[ParentOf[n]]]
<1> DEFINE D == SUBSET (Nodes \cup Blockers)
           Ends == {n \in Nodes : After[n] # {} \/ ParentOf[n] = Run}
           B == [n \in Nodes |-> IF After[n] # {} THEN After[n] ELSE Blockers]
           G == [n \in Nodes |-> [s \in D |-> s]]
<1>1. Walk(D, Ends, B, G)
  BY FilingAssumption DEF Walk, Nested
<1>2. PICK f \in [Nodes -> D] : \A n \in Nodes : f[n] = Value(f, n, Ends, B, G)
  <2> HIDE DEF D, Ends, B, G
  <2>1. QED
    BY <1>1, WalkEnds
<1>3. ASSUME NEW n \in Nodes
      PROVE  f[n] = IF After[n] # {} THEN After[n] ELSE IF ParentOf[n] = Run THEN Blockers ELSE f[ParentOf[n]]
  <2>1. CASE n \in Ends
    BY <1>2, <2>1 DEF Value
  <2>2. CASE n \notin Ends
    <3>1. ParentOf[n] \in Nodes
      BY <2>2, ParentsAreBelow DEF Nested
    <3>2. f[ParentOf[n]] \in D
      BY <3>1
    <3>3. f[n] = f[ParentOf[n]]
      BY <1>2, <2>2, <3>2 DEF Value
    <3>4. QED
      BY <2>2, <3>3
  <2>3. QED
    BY <2>1, <2>2
<1>4. f = [n \in Nodes |-> IF After[n] # {} THEN After[n] ELSE IF ParentOf[n] = Run THEN Blockers ELSE f[ParentOf[n]]]
  BY <1>3
<1>5. QED
  BY <1>4 DEF Inherited

\* And so does the recursive Above.
LEMMA AboveIs ==
  Above = [n \in Nodes |-> IF ParentOf[n] = Run THEN {n} ELSE {n} \cup Above[ParentOf[n]]]
<1> DEFINE D == SUBSET Nodes
           Ends == {n \in Nodes : ParentOf[n] = Run}
           B == [n \in Nodes |-> {n}]
           G == [n \in Nodes |-> [s \in D |-> {n} \cup s]]
<1>1. Walk(D, Ends, B, G)
  BY FilingAssumption DEF Walk, Nested
<1>2. PICK f \in [Nodes -> D] : \A n \in Nodes : f[n] = Value(f, n, Ends, B, G)
  <2> HIDE DEF D, Ends, B, G
  <2>1. QED
    BY <1>1, WalkEnds
<1>3. ASSUME NEW n \in Nodes
      PROVE  f[n] = IF ParentOf[n] = Run THEN {n} ELSE {n} \cup f[ParentOf[n]]
  <2>1. CASE n \in Ends
    BY <1>2, <2>1 DEF Value
  <2>2. CASE n \notin Ends
    <3>1. ParentOf[n] \in Nodes
      BY <2>2, ParentsAreBelow DEF Nested
    <3>2. f[ParentOf[n]] \in D
      BY <3>1
    <3>3. f[n] = {n} \cup f[ParentOf[n]]
      BY <1>2, <2>2, <3>2 DEF Value
    <3>4. QED
      BY <2>2, <3>3
  <2>3. QED
    BY <2>1, <2>2
<1>4. f = [n \in Nodes |-> IF ParentOf[n] = Run THEN {n} ELSE {n} \cup f[ParentOf[n]]]
  BY <1>3
<1>5. QED
  BY <1>4 DEF Above

-----------------------------------------------------------------------------
(* A run's steps keep their order.                                          *)

Items == [status : {"unfiled", "pending", "in_progress", "done", "failed"}, blocked_by : SUBSET (Nodes \cup Blockers)]
DoneIn(its, i) == its[i].status = "done"
StartedIn(its, i) == its[i].status \in {"in_progress", "done", "failed"}
\* All that a step is after, at its level and above, and the run's blockers.
Behind(n) == Blockers \cup UNION {After[m] : m \in Above[n]}

\* A filed step has what it inherits among its blockers; one that has started
\* has all behind it that it is after.
Ordered(its) ==
  /\ its \in [Tree \cup Blockers -> Items]
  /\ \A n \in Nodes : its[n].status # "unfiled" => Inherited[n] \subseteq its[n].blocked_by
  /\ \A n \in Nodes : StartedIn(its, n) => \A b \in Behind(n) : DoneIn(its, b)

OrderInv ==
  /\ Ordered(item) /\ left \subseteq Nodes
  /\ \A n \in left : item[n].status = "unfiled"

\* Above a step there are steps.
LEMMA AboveIn ==
  ASSUME NEW n \in Nodes
  PROVE  Above[n] \subseteq Nodes
<1> DEFINE Bad == {m \in Nodes : ~(Above[m] \subseteq Nodes)}
<1>1. SUFFICES ASSUME Bad # {} PROVE FALSE
  OBVIOUS
<1>2. Bad \in SUBSET Nat
  BY FilingAssumption
<1>3. PICK m \in Bad : \A x \in Bad : m <= x
  BY <1>1, <1>2, LeastOfThem
<1>4. Above[m] = IF ParentOf[m] = Run THEN {m} ELSE {m} \cup Above[ParentOf[m]]
  BY AboveIs
<1>5. ParentOf[m] # Run => ParentOf[m] \in Nodes /\ ParentOf[m] < m /\ m \in Nat /\ ParentOf[m] \in Nat
  BY ParentsAreBelow DEF Nested
<1>6. ParentOf[m] # Run => ParentOf[m] \notin Bad
  BY <1>3, <1>5
<1>7. QED
  BY <1>3, <1>4, <1>5, <1>6

\* A step is after steps of the run and its blockers.
LEMMA BeforeStays ==
  ASSUME NEW n \in Nodes
  PROVE  Behind(n) \subseteq Nodes \cup Blockers
<1>1. \A m \in Above[n] : After[m] \subseteq Nodes
  BY AboveIn, FilingAssumption
<1>2. QED
  BY <1>1 DEF Behind

\* A step is after its own predecessors and what the step above it is after.
LEMMA AboveOf ==
  ASSUME NEW n \in Nodes
  PROVE  IF ParentOf[n] = Run THEN Behind(n) = Blockers \cup After[n]
         ELSE ParentOf[n] \in Nodes /\ Behind(n) = After[n] \cup Behind(ParentOf[n])
<1>1. Above[n] = IF ParentOf[n] = Run THEN {n} ELSE {n} \cup Above[ParentOf[n]]
  BY AboveIs
<1>2. ParentOf[n] # Run => ParentOf[n] \in Nodes
  BY FilingAssumption
<1>3. CASE ParentOf[n] = Run
  BY <1>1, <1>3 DEF Behind
<1>4. CASE ParentOf[n] # Run
  BY <1>1, <1>2, <1>4 DEF Behind
<1>5. QED
  BY <1>3, <1>4

\* What a step inherits is among the run's steps and its blockers.
LEMMA BeforeIsInTree ==
  ASSUME NEW n \in Nodes
  PROVE  Inherited[n] \subseteq Nodes \cup Blockers /\ After[n] \subseteq Nodes
<1> DEFINE Bad == {m \in Nodes : ~(Inherited[m] \subseteq Nodes \cup Blockers)}
<1>1. \A m \in Nodes : After[m] \subseteq Nodes
  BY FilingAssumption
<1>2. SUFFICES ASSUME Bad # {} PROVE FALSE
  BY <1>1
<1>3. Bad \in SUBSET Nat
  BY FilingAssumption
<1>4. PICK m \in Bad : \A x \in Bad : m <= x
  BY <1>2, <1>3, LeastOfThem
<1>5. Inherited[m] = IF After[m] # {} THEN After[m] ELSE IF ParentOf[m] = Run THEN Blockers ELSE Inherited[ParentOf[m]]
  BY InheritedIs
<1>6. CASE After[m] # {} \/ ParentOf[m] = Run
  BY <1>1, <1>4, <1>5, <1>6
<1>7. CASE After[m] = {} /\ ParentOf[m] # Run
  <2>1. ParentOf[m] \in Nodes /\ ParentOf[m] < m /\ m \in Nat /\ ParentOf[m] \in Nat
    BY <1>7, ParentsAreBelow DEF Nested
  <2>2. ParentOf[m] \notin Bad
    BY <1>4, <2>1
  <2>3. QED
    BY <1>4, <1>5, <1>7, <2>1, <2>2
<1>8. QED
  BY <1>6, <1>7

\* When all a step inherits is done, so is all it is after: what its elder
\* siblings waited for, or what the step above does.
LEMMA InheritedSuffices ==
  ASSUME NEW its, Ordered(its), NEW n \in Nodes, \A b \in Inherited[n] : DoneIn(its, b)
  PROVE  \A b \in Behind(n) : DoneIn(its, b)
<1> DEFINE Bad == {m \in Nodes : (\A b \in Inherited[m] : DoneIn(its, b)) /\ ~\A b \in Behind(m) : DoneIn(its, b)}
<1>1. SUFFICES ASSUME Bad # {} PROVE FALSE
  OBVIOUS
<1>2. Bad \in SUBSET Nat
  BY FilingAssumption
<1>3. PICK m \in Bad : \A x \in Bad : m <= x
  BY <1>1, <1>2, LeastOfThem
<1>4. Inherited[m] = IF After[m] # {} THEN After[m] ELSE IF ParentOf[m] = Run THEN Blockers ELSE Inherited[ParentOf[m]]
  BY InheritedIs
<1>5. IF ParentOf[m] = Run THEN Behind(m) = Blockers \cup After[m]
      ELSE ParentOf[m] \in Nodes /\ Behind(m) = After[m] \cup Behind(ParentOf[m])
  BY AboveOf
<1>6. CASE After[m] # {}
  <2>1. PICK e \in After[m] : TRUE
    BY <1>6
  <2>2. e \in Nodes /\ ParentOf[e] = ParentOf[m]
    BY FilingAssumption
  <2>3. \A b \in After[m] : DoneIn(its, b)
    BY <1>3, <1>4, <1>6
  <2>4. StartedIn(its, e)
    BY <2>3 DEF DoneIn, StartedIn
  <2>5. \A b \in Behind(e) : DoneIn(its, b)
    BY <2>2, <2>4 DEF Ordered
  <2>6. IF ParentOf[m] = Run THEN Behind(e) = Blockers \cup After[e]
        ELSE Behind(e) = After[e] \cup Behind(ParentOf[m])
    BY <2>2, AboveOf
  <2>7. \A b \in Behind(m) : DoneIn(its, b)
    BY <1>5, <2>3, <2>5, <2>6
  <2>8. QED
    BY <1>3, <2>7
<1>7. CASE After[m] = {} /\ ParentOf[m] = Run
  BY <1>3, <1>4, <1>5, <1>7
<1>8. CASE After[m] = {} /\ ParentOf[m] # Run
  <2>1. ParentOf[m] \in Nodes /\ ParentOf[m] < m /\ m \in Nat /\ ParentOf[m] \in Nat
    BY <1>8, ParentsAreBelow DEF Nested
  <2>2. ParentOf[m] \notin Bad
    BY <1>3, <2>1
  <2>3. QED
    BY <1>3, <1>4, <1>5, <1>8, <2>1, <2>2
<1>9. QED
  BY <1>6, <1>7, <1>8

\* What no move of the run takes back.
Onward(its, next) ==
  /\ next \in [Tree \cup Blockers -> Items]
  /\ \A i \in Tree \cup Blockers :
       /\ its[i].blocked_by \subseteq next[i].blocked_by
       /\ DoneIn(its, i) => DoneIn(next, i)

\* A move keeps the order if what it starts has what it is after behind it.
LEMMA OrderMovesOn ==
  ASSUME NEW its, Ordered(its), NEW next, Onward(its, next),
         \A n \in Nodes : its[n].status = "unfiled" /\ next[n].status # "unfiled"
                            => Inherited[n] \subseteq next[n].blocked_by,
         \A n \in Nodes : StartedIn(next, n) /\ ~StartedIn(its, n) => \A b \in Behind(n) : DoneIn(its, b)
  PROVE  Ordered(next)
<1>1. \A n \in Nodes : Behind(n) \subseteq Tree \cup Blockers
  BY BeforeStays DEF Tree
<1>2. ASSUME NEW n \in Nodes, StartedIn(next, n), NEW b \in Behind(n) PROVE DoneIn(next, b)
  <2>1. DoneIn(its, b)
    BY <1>2 DEF Ordered
  <2>2. QED
    BY <1>1, <2>1 DEF Onward
<1>3. ASSUME NEW n \in Nodes, next[n].status # "unfiled" PROVE Inherited[n] \subseteq next[n].blocked_by
  <2>1. n \in Tree \cup Blockers
    BY DEF Tree
  <2>2. QED
    BY <1>3, <2>1 DEF Ordered, Onward
<1>4. QED
  BY <1>2, <1>3 DEF Ordered, Onward

\* A container closes when a step inside it, which had started, is done.
LEMMA ClosingKeepsOrder ==
  ASSUME NEW its, Ordered(its)
  PROVE  /\ Ordered(Shut(its)) /\ DOMAIN Shut(its) = DOMAIN its
         /\ \A i \in DOMAIN its : its[i].status = "unfiled" => Shut(its)[i] = its[i]
<1> DEFINE next == Shut(its)
<1>1. DOMAIN its = Tree \cup Blockers
  BY DEF Ordered
<1>2. next = [i \in Tree \cup Blockers |-> IF i \in Closes(its) THEN [its[i] EXCEPT !.status = "done"] ELSE its[i]]
  BY <1>1 DEF Shut
<1> HIDE DEF next
<1>3. ASSUME NEW i \in Tree \cup Blockers
      PROVE  /\ next[i] \in Items /\ next[i].blocked_by = its[i].blocked_by
             /\ next[i].status = IF i \in Closes(its) THEN "done" ELSE its[i].status
             /\ (its[i].status = "unfiled" => next[i] = its[i])
  <2>1. its[i] \in Items
    BY DEF Ordered
  <2>2. i \in Closes(its) => its[i].status = "pending"
    BY DEF Closes
  <2>3. QED
    BY <1>2, <2>1, <2>2 DEF Items
<1>4. Onward(its, next)
  BY <1>2, <1>3 DEF Onward, DoneIn
<1>5. ASSUME NEW n \in Nodes, StartedIn(next, n), ~StartedIn(its, n)
      PROVE  \A b \in Behind(n) : DoneIn(its, b)
  <2>1. n \in Closes(its)
    BY <1>3, <1>5 DEF StartedIn, Tree
  <2>2. PICK k \in Kids(its, n) : its[k].status = "done"
    BY <2>1 DEF Closes
  <2>3. k \in Nodes /\ ParentOf[k] = n /\ StartedIn(its, k) /\ ParentOf[k] # Run
    BY <2>2, FilingAssumption DEF Kids, StartedIn
  <2>4. \A b \in Behind(k) : DoneIn(its, b)
    BY <2>3 DEF Ordered
  <2>5. Behind(k) = After[k] \cup Behind(n)
    BY <2>3, AboveOf
  <2>6. QED
    BY <2>4, <2>5
<1>6. \A n \in Nodes : its[n].status = "unfiled" => next[n].status = "unfiled"
  BY <1>3 DEF Tree
<1>7. Ordered(next)
  BY <1>4, <1>5, <1>6, OrderMovesOn
<1>8. QED
  BY <1>1, <1>2, <1>3, <1>7 DEF next

\* Closing level after level keeps the order.
LEMMA CascadeKeepsOrder ==
  ASSUME NEW its, Ordered(its)
  PROVE  /\ Ordered(Cascade(its))
         /\ \A i \in Tree \cup Blockers : its[i].status = "unfiled" => Cascade(its)[i] = its[i]
<1> DEFINE once  == Shut(its)
           twice == Shut(once)
<1>1. /\ Ordered(once) /\ DOMAIN once = DOMAIN its
      /\ \A i \in DOMAIN its : its[i].status = "unfiled" => once[i] = its[i]
  BY ClosingKeepsOrder
<1> HIDE DEF once
<1>2. /\ Ordered(twice) /\ DOMAIN twice = DOMAIN once
      /\ \A i \in DOMAIN once : once[i].status = "unfiled" => twice[i] = once[i]
  BY <1>1, ClosingKeepsOrder
<1> HIDE DEF twice
<1>3. /\ Ordered(Shut(twice))
      /\ \A i \in DOMAIN twice : twice[i].status = "unfiled" => Shut(twice)[i] = twice[i]
  BY <1>2, ClosingKeepsOrder
<1>4. Cascade(its) = Shut(twice)
  BY DEF Cascade, once, twice
<1>5. DOMAIN its = Tree \cup Blockers
  BY DEF Ordered
<1>6. QED
  BY <1>1, <1>2, <1>3, <1>4, <1>5

\* At first nothing is filed.
LEMMA OrderBegins == FilingInit => OrderInv
<1> SUFFICES ASSUME FilingInit PROVE OrderInv
  OBVIOUS
<1>1. /\ left = Nodes
      /\ item = [i \in Tree \cup Blockers |-> IF i \in Blockers THEN [status |-> "pending", blocked_by |-> {}] ELSE Unfiled]
  BY DEF FilingInit
<1>2. \A i \in Tree \cup Blockers : item[i] \in Items /\ (i \in Nodes => item[i].status = "unfiled")
  BY <1>1, FilingAssumption DEF Items, Unfiled
<1>3. item \in [Tree \cup Blockers -> Items]
  BY <1>1, <1>2
<1>4. \A n \in Nodes : item[n].status = "unfiled"
  BY <1>2 DEF Tree
<1>5. QED
  BY <1>1, <1>3, <1>4 DEF OrderInv, Ordered, StartedIn

\* One item's status moves.
LEMMA OneMoves ==
  ASSUME OrderInv, NEW i \in Tree \cup Blockers, NEW s \in {"pending", "in_progress", "done", "failed"},
         item[i].status \in {"pending", "in_progress"},
         i \in Nodes /\ item[i].status = "pending" => \A b \in Behind(i) : DoneIn(item, b)
  PROVE  LET next == [item EXCEPT ![i].status = s]
         IN  Ordered(next) /\ \A n \in Nodes : item[n].status = "unfiled" => next[n] = item[n]
<1> DEFINE next == [item EXCEPT ![i].status = s]
<1>1. item \in [Tree \cup Blockers -> Items]
  BY DEF OrderInv, Ordered
<1>2. /\ \A j \in (Tree \cup Blockers) \ {i} : next[j] = item[j]
      /\ next[i] = [item[i] EXCEPT !.status = s] /\ next = [j \in Tree \cup Blockers |-> next[j]]
  BY <1>1
<1> HIDE DEF next
<1>3. next[i] \in Items /\ next[i].status = s /\ next[i].blocked_by = item[i].blocked_by
  <2>1. item[i] \in Items
    BY <1>1
  <2>2. QED
    BY <1>2, <2>1 DEF Items
<1>4. Onward(item, next)
  <2>1. ASSUME NEW j \in Tree \cup Blockers
        PROVE  /\ next[j] \in Items /\ item[j].blocked_by \subseteq next[j].blocked_by
               /\ DoneIn(item, j) => DoneIn(next, j)
    <3>1. CASE j = i
      <4>1. item[i].status # "done"
        OBVIOUS
      <4>2. QED
        BY <1>3, <3>1, <4>1 DEF DoneIn
    <3>2. CASE j # i
      BY <1>1, <1>2, <3>2 DEF DoneIn
    <3>3. QED
      BY <3>1, <3>2
  <2>2. next \in [Tree \cup Blockers -> Items]
    BY <1>2, <2>1
  <2>3. QED
    BY <2>1, <2>2 DEF Onward
<1>5. \A n \in Nodes : item[n].status = "unfiled" => next[n] = item[n]
  BY <1>2 DEF Tree
<1>6. ASSUME NEW n \in Nodes, StartedIn(next, n), ~StartedIn(item, n) PROVE \A b \in Behind(n) : DoneIn(item, b)
  BY <1>2, <1>6 DEF StartedIn, Tree
<1>7. Ordered(item)
  BY DEF OrderInv
<1>8. Ordered(next)
  BY <1>4, <1>5, <1>6, <1>7, OrderMovesOn
<1>9. QED
  BY <1>5, <1>8 DEF next

\* Every step of the filer, the agents and the queue keeps the order.
LEMMA FilingKeepsOrder ==
  ASSUME OrderInv, FilingNext
  PROVE  OrderInv'
<1>1. item \in [Tree \cup Blockers -> Items] /\ Ordered(item)
  BY DEF OrderInv, Ordered
<1>2. ASSUME NEW next, item' = next, left' = left, Ordered(next),
             \A n \in Nodes : item[n].status = "unfiled" => next[n] = item[n]
      PROVE  OrderInv'
  BY <1>2 DEF OrderInv
<1>3. CASE PlanRefused \/ FilerDies \/ \E n \in Nodes : FileRefused(n)
  BY <1>1, <1>2, <1>3 DEF PlanRefused, FilerDies, FileRefused
<1>4. CASE FileRun
  <2> DEFINE next == [item EXCEPT ![Run].status = "pending"]
  <2>1. item' = next /\ left' = left
    BY <1>4 DEF FileRun
  <2>2. Run \in Tree \cup Blockers /\ Run \notin Nodes /\ Run \notin Blockers /\ Nodes \cup Blockers \subseteq Tree \cup Blockers
    BY FilingAssumption DEF Tree
  <2>3. /\ next = [i \in Tree \cup Blockers |-> next[i]]
        /\ \A i \in (Tree \cup Blockers) \ {Run} : next[i] = item[i]
        /\ next[Run] = [item[Run] EXCEPT !.status = "pending"]
    BY <1>1, <2>2
  <2> HIDE DEF next
  <2>35. next[Run] \in Items
    <3>1. item[Run] \in Items
      BY <1>1, <2>2
    <3>2. QED
      BY <2>3, <3>1 DEF Items
  <2>4. next \in [Tree \cup Blockers -> Items]
    <3>1. \A i \in Tree \cup Blockers : next[i] \in Items
      BY <1>1, <2>3, <2>35
    <3>2. QED
      BY <2>3, <3>1
  <2>5. \A n \in Nodes \cup Blockers : next[n] = item[n]
    BY <2>2, <2>3
  <2>6. \A n \in Nodes : Behind(n) \subseteq Nodes \cup Blockers
    BY BeforeStays
  <2>7. Ordered(next)
    BY <1>1, <2>4, <2>5, <2>6 DEF Ordered, StartedIn, DoneIn
  <2>8. QED
    BY <1>2, <2>1, <2>5, <2>7
<1>5. ASSUME NEW n \in Nodes, FileStep(n) PROVE OrderInv'
  <2> DEFINE p == ParentOf[n]
             here == [status |-> "pending", blocked_by |-> OwnBlockers(n)]
             next == [item EXCEPT ![n] = here, ![p].blocked_by = @ \cup {n}]
  <2>1. /\ n \in left /\ item' = next /\ left' = left \ {n}
    BY <1>5 DEF FileStep, IsNext
  <2>2. /\ n \in Tree \cup Blockers /\ p \in Tree \cup Blockers /\ p # n
        /\ Nodes \subseteq Tree \cup Blockers
    <3>1. n \in Nat /\ p \in Tree /\ (p \in Nodes => p < n /\ p \in Nat)
      BY FilingAssumption DEF Tree
    <3>2. p = Run => p # n
      BY FilingAssumption
    <3>3. QED
      BY <3>1, <3>2 DEF Tree
  <2>3. item[n].status = "unfiled" /\ left \subseteq Nodes
    BY <2>1 DEF OrderInv
  <2>4. /\ next = [i \in Tree \cup Blockers |-> next[i]]
        /\ \A i \in (Tree \cup Blockers) \ {n, p} : next[i] = item[i]
        /\ next[n] = here /\ next[p] = [item[p] EXCEPT !.blocked_by = @ \cup {n}]
    BY <1>1, <2>2
  <2>5. OwnBlockers(n) = Inherited[n] /\ Inherited[n] \subseteq Nodes \cup Blockers
    BY BeforeIsInTree DEF OwnBlockers
  <2>6. here \in Items /\ here.status = "pending" /\ here.blocked_by = Inherited[n]
    BY <2>5 DEF Items
  <2> HIDE DEF here, next
  <2>7. /\ next[p] \in Items /\ next[p].status = item[p].status
        /\ next[p].blocked_by = item[p].blocked_by \cup {n}
    <3>1. item[p] \in Items
      BY <1>1, <2>2
    <3>2. QED
      BY <2>4, <3>1 DEF Items
  <2>8. next \in [Tree \cup Blockers -> Items]
    <3>1. \A i \in Tree \cup Blockers : next[i] \in Items
      BY <1>1, <2>4, <2>6, <2>7
    <3>2. QED
      BY <2>4, <3>1
  <2>9. \A i \in Tree \cup Blockers :
          /\ i # n => next[i].status = item[i].status /\ item[i].blocked_by \subseteq next[i].blocked_by
    BY <2>2, <2>4, <2>7
  <2>10. \A m \in Nodes : StartedIn(next, m) => StartedIn(item, m) /\ m # n
    BY <2>2, <2>4, <2>6, <2>9 DEF StartedIn
  <2>11. \A b \in Tree \cup Blockers : DoneIn(item, b) => DoneIn(next, b)
    BY <2>3, <2>9 DEF DoneIn
  <2>12. \A m \in Nodes : Behind(m) \subseteq Tree \cup Blockers
    BY <2>2, BeforeStays
  <2>13. \A m \in Nodes : next[m].status # "unfiled" => Inherited[m] \subseteq next[m].blocked_by
    BY <1>1, <2>2, <2>4, <2>6, <2>9 DEF Ordered
  <2>14. Ordered(next)
    BY <1>1, <2>8, <2>10, <2>11, <2>12, <2>13 DEF Ordered
  <2>15. \A m \in left \ {n} : next[m].status = "unfiled"
    BY <2>2, <2>3, <2>9 DEF OrderInv
  <2>16. QED
    BY <2>1, <2>3, <2>14, <2>15 DEF OrderInv
<1>6. ASSUME NEW i \in Tree \cup Blockers, Take(i) PROVE OrderInv'
  <2> DEFINE next == [item EXCEPT ![i].status = "in_progress"]
  <2>1. /\ item[i].status = "pending" /\ (\A b \in item[i].blocked_by : item[b].status = "done")
        /\ item' = next /\ left' = left
    BY <1>6 DEF Take
  <2>2. i \in Nodes => \A b \in Behind(i) : DoneIn(item, b)
    <3>1. ASSUME i \in Nodes PROVE \A b \in Inherited[i] : DoneIn(item, b)
      BY <1>1, <2>1, <3>1 DEF Ordered, DoneIn
    <3>2. QED
      BY <1>1, <3>1, InheritedSuffices
  <2>3. Ordered(next) /\ \A n \in Nodes : item[n].status = "unfiled" => next[n] = item[n]
    BY <2>1, <2>2, OneMoves
  <2> HIDE DEF next
  <2>4. QED
    BY <1>2, <2>1, <2>3
<1>7. ASSUME NEW i \in Tree \cup Blockers, GiveUp(i) PROVE OrderInv'
  <2>1. PICK s \in {"pending", "failed"} :
          item[i].status = "in_progress" /\ item' = [item EXCEPT ![i].status = s] /\ left' = left
    BY <1>7 DEF GiveUp
  <2> DEFINE next == [item EXCEPT ![i].status = s]
  <2>2. Ordered(next) /\ \A n \in Nodes : item[n].status = "unfiled" => next[n] = item[n]
    <3>1. /\ s \in {"pending", "in_progress", "done", "failed"}
          /\ item[i].status \in {"pending", "in_progress"} /\ item[i].status # "pending"
      BY <2>1
    <3>2. QED
      BY <3>1, OneMoves
  <2>3. item' = next
    BY <2>1
  <2> HIDE DEF next
  <2>4. QED
    BY <1>2, <2>1, <2>2, <2>3
<1>8. ASSUME NEW i \in Tree \cup Blockers, Finish(i) PROVE OrderInv'
  <2> DEFINE done == [item EXCEPT ![i].status = "done"]
             next == Cascade(done)
  <2>1. item[i].status = "in_progress" /\ item' = next /\ left' = left
    BY <1>8 DEF Finish
  <2>2. Ordered(done) /\ \A n \in Nodes : item[n].status = "unfiled" => done[n] = item[n]
    BY <2>1, OneMoves
  <2> HIDE DEF done
  <2>3. Ordered(next) /\ \A j \in Tree \cup Blockers : done[j].status = "unfiled" => next[j] = done[j]
    BY <2>2, CascadeKeepsOrder
  <2> HIDE DEF next
  <2>4. \A n \in Nodes : item[n].status = "unfiled" => next[n] = item[n]
    BY <2>2, <2>3 DEF Tree
  <2>5. QED
    BY <1>2, <2>1, <2>3, <2>4
<1>9. QED
  BY <1>3, <1>4, <1>5, <1>6, <1>7, <1>8 DEF FilingNext

\* However agents take, give up and finish what is filed while the rest is
\* being filed, and wherever the filing stops, a step starts only when what it
\* is after is done, at its level and above, and what the run waits for
\* (SopLibrary._file, _plan; finished_containers).
THEOREM OrderIsKept == ProceduresSpec => []StepsKeepOrder
<1>1. ProceduresInit => OrderInv
  BY OrderBegins DEF ProceduresInit
<1>2. OrderInv /\ [ProceduresNext]_proceduresVars => OrderInv'
  <2>1. ASSUME OrderInv, UNCHANGED filingVars PROVE OrderInv'
    BY <2>1 DEF OrderInv, filingVars
  <2>2. [ProceduresNext]_proceduresVars => FilingNext \/ UNCHANGED filingVars
    BY DEF ProceduresNext, Authoring, Learning, Chaining, proceduresVars
  <2>3. QED
    BY <2>1, <2>2, FilingKeepsOrder
<1>3. OrderInv => StepsKeepOrder
  BY DEF OrderInv, Ordered, StepsKeepOrder, Started, StartedIn, DoneIn, Behind
<1>4. QED
  BY <1>1, <1>2, <1>3, PTL DEF ProceduresSpec
=============================================================================
