--------------------------- MODULE RegistryProofs ---------------------------
(***************************************************************************)
(* Theorems about the registry as a whole, table by table, for any         *)
(* processes, rows and bounds.                                             *)
(***************************************************************************)
EXTENDS RegistryProps, FiniteSetTheorems, WellFoundedInduction, TLAPS

-----------------------------------------------------------------------------
(* The log of calls.                                                        *)

Sums == [at : {"idle", "summed"}, before : SUBSET Calls, rows : SUBSET Calls]

\* The types that the argument needs.
LogType ==
  /\ daily \in [Calls -> Nat]
  /\ summer \in [Summers -> Sums]
  /\ logged \subseteq made /\ made \cup missed \subseteq Calls
  /\ old \subseteq made \cup missed /\ made \cap missed = {}

\* A row and a count never stand for the same call, and a second count needs
\* two prunes that had read the same row.
Counted ==
  \A c \in Calls :
    /\ daily[c] = 0 <=> c \in logged \/ c \notin made
    /\ c \in made \ logged => c \notin Publishing
    /\ daily[c] > 1 => c \in coread

\* What a prune holds: every row that is older than its cutoff, and no row that
\* was counted since without the two having met.
SumsHold ==
  \A p \in Summers : summer[p].at = "summed" =>
    /\ summer[p].before \subseteq old
    /\ summer[p].rows \subseteq (made \cap summer[p].before) \ Publishing
    /\ (logged \cap summer[p].before) \ Publishing \subseteq summer[p].rows
    /\ \A c \in summer[p].rows : daily[c] = 0 \/ c \in coread

LogInv == LogType /\ Counted /\ SumsHold

-----------------------------------------------------------------------------
\* A new log of calls is in order.
LEMMA LogBegins == CallInit => LogInv
  BY CallLogAssumption
  DEF CallInit, LogInv, LogType, Counted, SumsHold, Sums, NoSums

\* A request is recorded: it is new, so no count and no prune names it.
LEMMA RecordKeeps ==
  ASSUME LogInv, NEW c \in Calls, RecordCall(c)
  PROVE  LogInv'
<1>1. c \notin made /\ c \notin missed /\ c \notin old /\ c \notin logged
  BY DEF RecordCall, Came, LogInv, LogType
<1>2. daily[c] = 0
  BY <1>1 DEF LogInv, Counted
<1>3. LogType'
  BY <1>1 DEF RecordCall, LogInv, LogType
<1>4. Counted'
  BY <1>1, <1>2 DEF RecordCall, LogInv, Counted
<1>5. SumsHold'
  BY <1>1 DEF RecordCall, LogInv, SumsHold
<1>6. QED
  BY <1>3, <1>4, <1>5 DEF LogInv

\* A request that is not recorded, or falls out of the window: no count moves.
LEMMA UnrecordedKeeps ==
  ASSUME LogInv, NEW c \in Calls, CallUnrecorded(c)
  PROVE  LogInv'
<1>1. LogType'
  BY DEF CallUnrecorded, Came, LogInv, LogType
<1>2. Counted' /\ SumsHold'
  BY DEF CallUnrecorded, LogInv, Counted, SumsHold
<1>3. QED
  BY <1>1, <1>2 DEF LogInv

LEMMA DayPassesKeeps ==
  ASSUME LogInv, NEW c \in Calls, DayPasses(c)
  PROVE  LogInv'
<1>1. LogType'
  BY DEF DayPasses, Came, LogInv, LogType
<1>2. Counted' /\ SumsHold'
  BY DEF DayPasses, LogInv, Counted, SumsHold
<1>3. QED
  BY <1>1, <1>2 DEF LogInv

\* A prune reads: every row it sums is there, so it has no count yet.
LEMMA SumUpKeeps ==
  ASSUME LogInv, NEW p \in Summers, SumUp(p)
  PROVE  LogInv'
<1> DEFINE now == [at |-> "summed", before |-> old, rows |-> (logged \cap old) \ Publishing]
<1>1. /\ summer' = [summer EXCEPT ![p] = now]
      /\ UNCHANGED <<logged, old, daily, made, missed, coread>>
  BY DEF SumUp
<1>2. now \in Sums
  BY DEF Sums, LogInv, LogType
<1>3. LogType' /\ Counted'
  BY <1>1, <1>2 DEF LogInv, LogType, Counted
<1>4. SumsHold'
  <2> SUFFICES ASSUME NEW q \in Summers, summer'[q].at = "summed"
               PROVE  /\ summer'[q].before \subseteq old
                      /\ summer'[q].rows \subseteq (made \cap summer'[q].before) \ Publishing
                      /\ (logged \cap summer'[q].before) \ Publishing \subseteq summer'[q].rows
                      /\ \A c \in summer'[q].rows : daily[c] = 0 \/ c \in coread
    BY <1>1 DEF SumsHold
  <2>1. CASE q = p
    <3>1. summer'[q] = now
      BY <1>1, <2>1 DEF LogInv, LogType
    <3>2. \A c \in now.rows : c \in made /\ daily[c] = 0
      BY DEF LogInv, LogType, Counted
    <3>3. QED
      BY <3>1, <3>2
  <2>2. CASE q # p
    <3>1. summer'[q] = summer[q]
      BY <1>1, <2>2 DEF LogInv, LogType
    <3>2. QED
      BY <3>1 DEF LogInv, SumsHold
  <2>3. QED
    BY <2>1, <2>2
<1>5. QED
  BY <1>3, <1>4 DEF LogInv

\* A prune writes: what it deletes is what it counts, but for what another counted
\* since; and that one had read the row when this one had.
LEMMA SumWriteKeeps ==
  ASSUME LogInv, NEW p \in Summers, SumWrite(p)
  PROVE  LogInv'
<1> DEFINE rows == summer[p].rows
           before == summer[p].before
<1>1. /\ summer[p].at = "summed"
      /\ daily' = [c \in Calls |-> IF c \in rows THEN daily[c] + 1 ELSE daily[c]]
      /\ logged' = logged \ (before \ Publishing)
      /\ coread' = coread \cup UNION {rows \cap summer[q].rows : q \in Summers \ {p}}
      /\ summer' = [summer EXCEPT ![p] = NoSums]
      /\ UNCHANGED <<old, made, missed>>
  BY DEF SumWrite, Doomed
<1>2. /\ rows \subseteq (made \cap before) \ Publishing
      /\ (logged \cap before) \ Publishing \subseteq rows
      /\ \A c \in rows : daily[c] = 0 \/ c \in coread
  BY <1>1 DEF LogInv, SumsHold
<1>3. LogType'
  <2>1. daily' \in [Calls -> Nat]
    BY <1>1 DEF LogInv, LogType
  <2>2. summer' \in [Summers -> Sums]
    BY <1>1 DEF LogInv, LogType, Sums, NoSums
  <2>3. QED
    BY <1>1, <2>1, <2>2 DEF LogInv, LogType
<1>4. Counted'
  <2> SUFFICES ASSUME NEW c \in Calls
               PROVE  /\ daily'[c] = 0 <=> c \in logged' \/ c \notin made
                      /\ c \in made \ logged' => c \notin Publishing
                      /\ daily'[c] > 1 => c \in coread'
    BY <1>1 DEF Counted
  <2>1. daily[c] \in Nat
    BY DEF LogInv, LogType
  <2>2. /\ daily[c] = 0 <=> c \in logged \/ c \notin made
        /\ c \in made \ logged => c \notin Publishing
        /\ daily[c] > 1 => c \in coread
    BY DEF LogInv, Counted
  <2>3. CASE c \in rows
    <3>1. daily'[c] = daily[c] + 1 /\ c \in made /\ c \notin logged' /\ c \notin Publishing
      BY <1>1, <1>2, <2>3
    <3>2. daily[c] = 0 \/ c \in coread
      BY <1>2, <2>3
    <3>3. c \in coread => c \in coread'
      BY <1>1
    <3>4. QED
      BY <2>1, <3>1, <3>2, <3>3
  <2>4. CASE c \notin rows
    <3>1. daily'[c] = daily[c] /\ (c \in logged' <=> c \in logged)
      BY <1>1, <1>2, <2>4
    <3>2. QED
      BY <1>1, <2>2, <3>1
  <2>5. QED
    BY <2>3, <2>4
<1>5. SumsHold'
  <2> SUFFICES ASSUME NEW q \in Summers, summer'[q].at = "summed"
               PROVE  /\ summer'[q].before \subseteq old
                      /\ summer'[q].rows \subseteq (made \cap summer'[q].before) \ Publishing
                      /\ (logged' \cap summer'[q].before) \ Publishing \subseteq summer'[q].rows
                      /\ \A c \in summer'[q].rows : daily'[c] = 0 \/ c \in coread'
    BY <1>1 DEF SumsHold
  <2>1. q # p
    BY <1>1 DEF NoSums, LogInv, LogType
  <2>2. summer'[q] = summer[q]
    BY <1>1, <2>1 DEF LogInv, LogType
  <2>3. /\ summer[q].before \subseteq old
        /\ summer[q].rows \subseteq (made \cap summer[q].before) \ Publishing
        /\ (logged \cap summer[q].before) \ Publishing \subseteq summer[q].rows
        /\ \A c \in summer[q].rows : daily[c] = 0 \/ c \in coread
    BY <2>2 DEF LogInv, SumsHold
  <2>4. ASSUME NEW c \in summer[q].rows
        PROVE  daily'[c] = 0 \/ c \in coread'
    <3>1. c \in Calls
      BY <2>3 DEF LogInv, LogType
    <3>2. CASE c \in rows
      BY <1>1, <2>1, <3>2
    <3>3. CASE c \notin rows
      <4>1. daily'[c] = daily[c]
        BY <1>1, <3>1, <3>3
      <4>2. QED
        BY <1>1, <2>3, <4>1
    <3>4. QED
      BY <3>2, <3>3
  <2>5. QED
    BY <1>1, <2>2, <2>3, <2>4
<1>6. QED
  BY <1>3, <1>4, <1>5 DEF LogInv

\* A prune that dies wrote nothing.
LEMMA SumDiesKeeps ==
  ASSUME LogInv, NEW p \in Summers, SumDies(p)
  PROVE  LogInv'
<1>1. /\ summer' = [summer EXCEPT ![p] = NoSums]
      /\ UNCHANGED <<logged, old, daily, made, missed, coread>>
  BY DEF SumDies
<1>2. LogType' /\ Counted'
  BY <1>1 DEF LogInv, LogType, Counted, Sums, NoSums
<1>3. ASSUME NEW q \in Summers, summer'[q].at = "summed"
      PROVE  summer'[q] = summer[q]
  BY <1>1, <1>3 DEF NoSums, LogInv, LogType
<1>4. SumsHold'
  BY <1>1, <1>3 DEF LogInv, SumsHold
<1>5. QED
  BY <1>2, <1>4 DEF LogInv

-----------------------------------------------------------------------------
\* Whatever the registry does, the log stays in order.
LEMMA RegistryKeepsLog ==
  ASSUME LogInv, [RegistryNext]_registryVars
  PROVE  LogInv'
<1>1. CASE CallNext
  <2>1. CASE \E c \in Calls : RecordCall(c) \/ CallUnrecorded(c) \/ DayPasses(c)
    BY <2>1, RecordKeeps, UnrecordedKeeps, DayPassesKeeps
  <2>2. CASE \E p \in Summers : SumUp(p) \/ SumWrite(p) \/ SumDies(p)
    BY <2>2, SumUpKeeps, SumWriteKeeps, SumDiesKeeps
  <2>3. QED
    BY <1>1, <2>1, <2>2 DEF CallNext
<1>2. CASE UNCHANGED callVars
  BY <1>2 DEF callVars, LogInv, LogType, Counted, SumsHold
<1>3. CallNext \/ UNCHANGED callVars
  BY DEF RegistryNext, FeedPart, BackPart, FollowPart, SnapPart, LeasePart, AnswerPart,
         SchemaPart, WorkPart, CallPart, registryVars
<1>4. QED
  BY <1>1, <1>2, <1>3

\* A recorded call is a row or is counted in its day, and twice only for two prunes
\* that read it at once: for any number of calls, prunes and deaths
\* (roll_up_and_prune_calls).
THEOREM CallsAreCounted == RegistrySpec => []CallsAreKept
<1>1. RegistryInit => LogInv
  BY LogBegins DEF RegistryInit
<1>2. LogInv /\ [RegistryNext]_registryVars => LogInv'
  BY RegistryKeepsLog
<1>3. LogInv => CallsAreKept
  <2> SUFFICES ASSUME LogInv, NEW c \in made
               PROVE  /\ c \in logged <=> daily[c] = 0
                      /\ c \in Publishing => c \in logged
                      /\ daily[c] <= 1 \/ c \in coread
    BY DEF CallsAreKept
  <2>1. c \in Calls /\ daily[c] \in Nat
    BY DEF LogInv, LogType
  <2>2. QED
    BY <2>1 DEF LogInv, Counted
<1>4. QED
  BY <1>1, <1>2, <1>3, PTL DEF RegistrySpec

-----------------------------------------------------------------------------
(* The schema.                                                              *)

OpenerStates == {"closed", "ready", "begun", "checked", "applied", "entered", "open", "failed"}

SchemaType ==
  /\ ledger \subseteq 1..Newest /\ schema \subseteq 1..Newest
  /\ opener \in [Openers -> [at : OpenerStates, done : SUBSET (1..Newest),
                             newly : SUBSET (1..Newest)]]

\* What the tables hold, between two transactions.
LedgerTrue ==
  /\ ledger \subseteq schema /\ schema \ ledger \subseteq {1}
  /\ \A v \in ledger : 1..v \subseteq ledger
  /\ copied = IF Upgrade \in ledger THEN Legacy \ Unreadable ELSE {}

\* What a process believes: nothing is done that the ledger does not name, and
\* what it applied itself nobody else did.
OpenerTrue(s) ==
  /\ opener[s].done \subseteq ledger /\ opener[s].newly \subseteq ledger
  /\ Migrating(s) => Pending(s) # {}
  /\ opener[s].at = "open" => Pending(s) = {}
  /\ opener[s].at = "entered" => Now(s) \notin ledger
  /\ engine = "sqlite" =>
       /\ opener[s].at # "failed"
       /\ opener[s].at \in {"checked", "applied"} => Now(s) \notin ledger

\* On SQLite one process migrates; on any engine one is at each migration's
\* statements.
OneAtATime ==
  \A s, o \in Openers : s # o =>
    /\ opener[s].newly \cap opener[o].newly = {}
    /\ engine = "sqlite" => ~(Migrating(s) /\ Migrating(o))
    /\ ~(/\ opener[s].at \in {"applied", "entered"} /\ opener[o].at \in {"applied", "entered"}
         /\ Now(s) = Now(o))

SchemaInv == SchemaType /\ LedgerTrue /\ (\A s \in Openers : OpenerTrue(s)) /\ OneAtATime

\* A set of numbers that is not empty has a least one.
LEMMA LeastNat ==
  ASSUME NEW S, S \subseteq Nat, S # {}
  PROVE  \E n \in S : \A m \in S : n <= m
<1>1. PICK n \in S : \A m \in S : ~(<<m, n>> \in OpToRel(<, Nat))
  BY NatLessThanWellFounded, WFMin
<1>2. ASSUME NEW m \in S PROVE n <= m
  <2>1. ~(m < n)
    BY <1>1 DEF OpToRel
  <2> QED
    BY <2>1
<1> QED
  BY <1>2

\* The next migration is the first that is not done.
LEMMA NowIsFirst ==
  ASSUME NEW s \in Openers, Pending(s) # {}
  PROVE  /\ Now(s) \in Pending(s) /\ Now(s) \in 1..Newest /\ Now(s) \in 1..Knows[s]
         /\ \A m \in 1..(Now(s) - 1) : m \in opener[s].done
<1>1. Pending(s) \in SUBSET Nat /\ Knows[s] \in 1..Newest /\ Newest \in Nat
  BY SchemaAssumption DEF Pending
<1>2. \E n \in Pending(s) : \A m \in Pending(s) : n <= m
  BY <1>1, LeastNat
<1>3. Now(s) \in Pending(s) /\ \A m \in Pending(s) : Now(s) <= m
  BY <1>2 DEF Now, Min
<1>4. Now(s) \in 1..Knows[s]
  BY <1>3 DEF Pending
<1>5. ASSUME NEW m \in 1..(Now(s) - 1) PROVE m \in opener[s].done
  <2>1. m \in 1..Knows[s] /\ ~(Now(s) <= m)
    BY <1>1, <1>4
  <2> QED
    BY <1>3, <2>1 DEF Pending
<1>6. Now(s) \in 1..Newest
  BY <1>1, <1>4
<1> QED
  BY <1>3, <1>4, <1>5, <1>6

LEMMA SchemaBegins == SchemaInit => SchemaInv
<1> SUFFICES ASSUME SchemaInit PROVE SchemaInv
  OBVIOUS
<1>1. 1 \in 1..Newest
  BY SchemaAssumption
<1>2. SchemaType /\ LedgerTrue
  BY <1>1, SchemaAssumption DEF SchemaInit, SchemaType, LedgerTrue, OpenerStates, Closed
<1>3. ASSUME NEW s \in Openers PROVE OpenerTrue(s)
  BY DEF SchemaInit, OpenerTrue, Closed, Migrating
<1> QED
  BY <1>2, <1>3 DEF SchemaInit, SchemaInv, OneAtATime, Closed, Migrating

\* A process that moves on by itself, and the tables as they were.
LEMMA OpenerMoves ==
  ASSUME SchemaInv, NEW s \in Openers, NEW at \in OpenerStates, Moves(s, at), SchemaRest,
         at \in {"begun", "checked", "applied", "entered"} =>
           /\ Pending(s) # {}
           /\ engine = "sqlite" => \A o \in Openers \ {s} : ~Migrating(o),
         at = "open" => Pending(s) = {},
         at = "entered" => Now(s) \notin ledger,
         engine = "sqlite" => at # "failed" /\ (at \in {"checked", "applied"} => Now(s) \notin ledger),
         at \in {"applied", "entered"} =>
           \A o \in Openers \ {s} : opener[o].at \in {"applied", "entered"} => Now(o) # Now(s)
  PROVE  SchemaInv'
<1>1. /\ opener' = [opener EXCEPT ![s].at = at]
      /\ UNCHANGED <<engine, ledger, schema, copied>>
  BY DEF Moves, SchemaRest
<1>2. SchemaType' /\ LedgerTrue'
  BY <1>1 DEF SchemaInv, SchemaType, LedgerTrue
<1>3. \A o \in Openers :
        /\ opener'[o].done = opener[o].done /\ opener'[o].newly = opener[o].newly
        /\ opener'[o].at = IF o = s THEN at ELSE opener[o].at
  BY <1>1 DEF SchemaInv, SchemaType
<1>4. \A o \in Openers : Pending(o)' = Pending(o) /\ Now(o)' = Now(o)
  BY <1>3 DEF Pending, Now
<1>5. ASSUME NEW o \in Openers PROVE OpenerTrue(o)'
  <2>1. CASE o = s
    <3>1. opener[o].done \subseteq ledger /\ opener[o].newly \subseteq ledger
      BY DEF SchemaInv, OpenerTrue
    <3> QED
      BY <1>1, <1>3, <1>4, <2>1, <3>1 DEF OpenerTrue, Migrating
  <2>2. CASE o # s
    BY <1>1, <1>3, <1>4, <2>2 DEF SchemaInv, OpenerTrue, Migrating
  <2> QED
    BY <2>1, <2>2
<1>6. OneAtATime'
  BY <1>1, <1>3, <1>4 DEF SchemaInv, OneAtATime, Migrating
<1> QED
  BY <1>2, <1>5, <1>6 DEF SchemaInv

LEMMA OpenerKeeps ==
  ASSUME SchemaInv, NEW s \in Openers,
         BeginMigration(s) \/ ApplyStatements(s) \/ EnterLedger(s) \/ Opened(s)
  PROVE  SchemaInv'
<1>0. /\ OpenerTrue(s) /\ OneAtATime /\ schema \ ledger \subseteq {1}
      /\ opener[s].at \in OpenerStates
  BY DEF SchemaInv, LedgerTrue, SchemaType
<1>1. CASE BeginMigration(s)
  <2>1. Pending(s) # {} /\ (engine = "sqlite" => \A o \in Openers \ {s} : ~Migrating(o))
    BY <1>1 DEF BeginMigration
  <2> QED
    BY <1>1, <2>1, OpenerMoves DEF BeginMigration, OpenerStates
<1>2. CASE ApplyStatements(s)
  <2> DEFINE at == IF Now(s) \in Columns \cap schema THEN "failed" ELSE "applied"
  <2>1. /\ Pending(s) # {} /\ Migrating(s)
        /\ engine = "sqlite" => \A o \in Openers \ {s} : ~Migrating(o)
        /\ engine = "sqlite" => Now(s) \notin ledger
    BY <1>0, <1>2 DEF ApplyStatements, OpenerTrue, Migrating, OneAtATime
  <2>2. engine = "sqlite" => at # "failed"
    BY <1>0, <2>1, SchemaAssumption
  <2>3. \A o \in Openers \ {s} : opener[o].at \in {"applied", "entered"} => Now(o) # Now(s)
    BY <1>2 DEF ApplyStatements
  <2>4. Moves(s, at) /\ SchemaRest /\ at \in {"failed", "applied"}
    BY <1>2 DEF ApplyStatements
  <2> HIDE DEF at
  <2> QED
    BY <2>1, <2>2, <2>3, <2>4, OpenerMoves DEF OpenerStates
<1>3. CASE EnterLedger(s)
  <2> DEFINE at == IF Now(s) \in ledger THEN "failed" ELSE "entered"
  <2>1. /\ Pending(s) # {} /\ Migrating(s)
        /\ engine = "sqlite" => \A o \in Openers \ {s} : ~Migrating(o)
        /\ engine = "sqlite" => Now(s) \notin ledger
    BY <1>0, <1>3 DEF EnterLedger, OpenerTrue, Migrating, OneAtATime
  <2>2. \A o \in Openers \ {s} : opener[o].at \in {"applied", "entered"} => Now(o) # Now(s)
    BY <1>0, <1>3 DEF EnterLedger, OneAtATime
  <2>3. /\ Moves(s, at) /\ SchemaRest /\ at \in {"failed", "entered"}
        /\ at = "entered" => Now(s) \notin ledger
        /\ engine = "sqlite" => at # "failed"
    BY <1>3, <2>1 DEF EnterLedger
  <2> HIDE DEF at
  <2> QED
    BY <2>1, <2>2, <2>3, OpenerMoves DEF OpenerStates
<1>4. CASE Opened(s)
  BY <1>4, OpenerMoves DEF Opened, OpenerStates
<1> QED
  BY <1>1, <1>2, <1>3, <1>4

\* A process that is not migrating any more, or not yet; what it holds as done
\* the ledger names.
LEMMA OpenerRests ==
  ASSUME SchemaInv, NEW s \in Openers, NEW o \in [at : {"closed", "ready"},
                                                  done : SUBSET ledger, newly : SUBSET ledger],
         o.newly \subseteq opener[s].newly,
         opener' = [opener EXCEPT ![s] = o], UNCHANGED <<engine, ledger, schema, copied>>
  PROVE  SchemaInv'
<1>1. SchemaType' /\ LedgerTrue'
  BY DEF SchemaInv, SchemaType, LedgerTrue, OpenerStates
<1>2. /\ opener'[s] = o
      /\ \A q \in Openers \ {s} : opener'[q] = opener[q]
  BY DEF SchemaInv, SchemaType
<1>3. \A q \in Openers \ {s} : Pending(q)' = Pending(q) /\ Now(q)' = Now(q)
  BY <1>2 DEF Pending, Now
<1>4. ASSUME NEW q \in Openers PROVE OpenerTrue(q)'
  <2>1. CASE q = s
    BY <1>2, <2>1 DEF OpenerTrue, Migrating
  <2>2. CASE q # s
    BY <1>2, <1>3, <2>2 DEF SchemaInv, OpenerTrue, Migrating
  <2> QED
    BY <2>1, <2>2
<1>5. OneAtATime'
  BY <1>2, <1>3 DEF SchemaInv, OneAtATime, Migrating
<1> QED
  BY <1>1, <1>4, <1>5 DEF SchemaInv

LEMMA LookKeeps ==
  ASSUME SchemaInv, NEW s \in Openers, LookAtLedger(s) \/ CheckLedger(s) \/ Restart(s)
  PROVE  SchemaInv'
<1>0. /\ OpenerTrue(s) /\ OneAtATime
      /\ opener[s] \in [at : OpenerStates, done : SUBSET (1..Newest), newly : SUBSET (1..Newest)]
  BY DEF SchemaInv, SchemaType
<1>1. CASE LookAtLedger(s)
  <2>1. [at |-> "ready", done |-> ledger, newly |-> {}]
          \in [at : {"closed", "ready"}, done : SUBSET ledger, newly : SUBSET ledger]
    OBVIOUS
  <2> QED
    BY <1>1, <2>1, OpenerRests DEF LookAtLedger, SchemaRest
<1>2. CASE Restart(s)
  <2>1. Closed \in [at : {"closed", "ready"}, done : SUBSET ledger, newly : SUBSET ledger]
        /\ Closed.newly = {}
    BY DEF Closed
  <2> QED
    BY <1>2, <2>1, OpenerRests DEF Restart
<1>3. CASE CheckLedger(s)
  <2>1. CASE Applied(s)
    <3> DEFINE o == [opener[s] EXCEPT !.at = "ready", !.done = opener[s].done \cup {Now(s)}]
    <3>1. /\ o \in [at : {"closed", "ready"}, done : SUBSET ledger, newly : SUBSET ledger]
          /\ o.newly = opener[s].newly
      BY <1>0, <2>1 DEF OpenerTrue, Applied
    <3>2. opener' = [opener EXCEPT ![s] = o]
      BY <1>3, <2>1 DEF CheckLedger, SchemaInv, SchemaType
    <3> HIDE DEF o
    <3> QED
      BY <1>3, <3>1, <3>2, OpenerRests DEF CheckLedger, SchemaRest
  <2>2. CASE ~Applied(s)
    <3>1. /\ Pending(s) # {} /\ Migrating(s)
          /\ engine = "sqlite" => \A o \in Openers \ {s} : ~Migrating(o)
      BY <1>0, <1>3 DEF CheckLedger, OpenerTrue, Migrating, OneAtATime
    <3>2. Moves(s, "checked") /\ SchemaRest
      BY <1>3, <2>2 DEF CheckLedger, Moves
    <3> QED
      BY <2>2, <3>1, <3>2, OpenerMoves DEF OpenerStates, Applied
  <2> QED
    BY <2>1, <2>2
<1> QED
  BY <1>1, <1>2, <1>3

\* COMMIT: nobody else is at the same migration, and those before it are done.
LEMMA CommitKeeps ==
  ASSUME SchemaInv, NEW s \in Openers, CommitMigration(s)
  PROVE  SchemaInv'
<1> DEFINE m == Now(s)
<1>0. /\ OpenerTrue(s) /\ OneAtATime
      /\ opener \in [Openers -> [at : OpenerStates, done : SUBSET (1..Newest),
                                 newly : SUBSET (1..Newest)]]
      /\ ledger \subseteq 1..Newest /\ schema \subseteq 1..Newest
      /\ opener[s].at = "entered"
  BY DEF SchemaInv, SchemaType, CommitMigration
<1>1. /\ Pending(s) # {} /\ m \notin ledger /\ m \in 1..Newest
      /\ \A n \in 1..(m - 1) : n \in ledger
  <2>1. Pending(s) # {} /\ m \notin ledger /\ opener[s].done \subseteq ledger
    BY <1>0 DEF OpenerTrue, Migrating
  <2> QED
    BY <2>1, NowIsFirst
<1>2. /\ ledger' = ledger \cup {m} /\ schema' = schema \cup {m} /\ engine' = engine
      /\ copied' = IF m = Upgrade THEN copied \cup (Legacy \ Unreadable) ELSE copied
      /\ opener' = [opener EXCEPT ![s] = [at |-> "ready", done |-> opener[s].done \cup {m},
                                          newly |-> opener[s].newly \cup {m}]]
  BY <1>0 DEF CommitMigration
<1> HIDE DEF m
<1>3. /\ opener'[s] = [at |-> "ready", done |-> opener[s].done \cup {m},
                       newly |-> opener[s].newly \cup {m}]
      /\ \A q \in Openers \ {s} : opener'[q] = opener[q]
  BY <1>0, <1>2
<1>4. SchemaType'
  BY <1>0, <1>1, <1>2 DEF SchemaType, OpenerStates
<1>5. LedgerTrue'
  <2>1. ASSUME NEW v \in ledger' PROVE 1..v \subseteq ledger'
    <3>1. CASE v \in ledger
      BY <1>2, <3>1 DEF SchemaInv, LedgerTrue
    <3>2. CASE v = m
      <4>1. ASSUME NEW n \in 1..m PROVE n = m \/ n \in 1..(m - 1)
        BY <1>1, SchemaAssumption
      <4> QED
        BY <1>1, <1>2, <3>2, <4>1
    <3> QED
      BY <1>2, <3>1, <3>2
  <2>2. ledger' \subseteq schema' /\ schema' \ ledger' \subseteq {1}
    BY <1>2 DEF SchemaInv, LedgerTrue
  <2>3. copied' = IF Upgrade \in ledger' THEN Legacy \ Unreadable ELSE {}
    BY <1>1, <1>2 DEF SchemaInv, LedgerTrue
  <2> QED
    BY <2>1, <2>2, <2>3 DEF LedgerTrue
<1>6. \A q \in Openers \ {s} : Pending(q)' = Pending(q) /\ Now(q)' = Now(q)
  BY <1>3 DEF Pending, Now
<1>7. ASSUME NEW q \in Openers PROVE OpenerTrue(q)'
  <2>1. CASE q = s
    BY <1>0, <1>2, <1>3, <2>1 DEF OpenerTrue, Migrating
  <2>2. CASE q # s
    <3>1. OpenerTrue(q)
      BY DEF SchemaInv
    <3>2. opener[q].at = "entered" => Now(q) # m
      BY <1>0, <2>2 DEF OneAtATime, m
    <3>3. engine = "sqlite" => ~Migrating(q)
      BY <1>0, <2>2 DEF OneAtATime, Migrating
    <3> QED
      BY <1>2, <1>3, <1>6, <2>2, <3>1, <3>2, <3>3 DEF OpenerTrue, Migrating
  <2> QED
    BY <2>1, <2>2
<1>8. OneAtATime'
  <2>1. \A q \in Openers : m \notin opener[q].newly
    BY <1>1 DEF SchemaInv, OpenerTrue
  <2> QED
    BY <1>0, <1>2, <1>3, <1>6, <2>1 DEF OneAtATime, Migrating
<1> QED
  BY <1>4, <1>5, <1>7, <1>8 DEF SchemaInv

LEMMA RegistryKeepsSchema ==
  ASSUME SchemaInv, [RegistryNext]_registryVars
  PROVE  SchemaInv'
<1>1. CASE SchemaNext
  BY <1>1, OpenerKeeps, LookKeeps, CommitKeeps DEF SchemaNext, OpenStep
<1>2. CASE UNCHANGED <<engine, schemaVars>>
  BY <1>2 DEF schemaVars, SchemaInv, SchemaType, LedgerTrue, OpenerTrue, OneAtATime, Migrating,
              Pending, Now
<1>3. WorkNext => UNCHANGED engine
  BY DEF WorkNext, Statement, Start, Broken, MutateWrite, CascadeRead, CloseRead, CloseWrite,
         SweepClose, CreatePlace, CreateBlock, CreateInsert, CommitWork, SweepRead, CreateLook,
         Finish, Touch, MutateRead
<1>4. SchemaNext \/ UNCHANGED <<engine, schemaVars>>
  BY <1>3
  DEF RegistryNext, FeedPart, BackPart, FollowPart, SnapPart, LeasePart, AnswerPart, SchemaPart,
      WorkPart, CallPart, registryVars, tables
<1> QED
  BY <1>1, <1>2, <1>4

\* The ledger tells the truth of the tables, whole and in order, whatever
\* releases of however many processes open the database, and die; on SQLite
\* none of them fails for another (migrations.apply).
THEOREM SchemaStaysWhole == RegistrySpec => []SchemaIsWhole
<1>1. RegistryInit => SchemaInv
  BY SchemaBegins DEF RegistryInit
<1>2. SchemaInv => SchemaIsWhole
  <2>1. ASSUME SchemaInv, NEW s \in Openers, opener[s].at = "open"
        PROVE  1..Knows[s] \subseteq ledger
    BY <2>1 DEF SchemaInv, OpenerTrue, Pending
  <2> QED
    BY <2>1 DEF SchemaIsWhole, SchemaInv, LedgerTrue, OpenerTrue, OneAtATime
<1> QED
  BY <1>1, <1>2, RegistryKeepsSchema, PTL DEF RegistrySpec

-----------------------------------------------------------------------------
(* The scope leases.                                                        *)

Paths  == {Segments(raw) : raw \in UNION Requests}
Scope  == [repo : Repos, prefixes : SUBSET Paths]
Warned == {"announcing", "warning", "recording"}

ClaimCalls   == [at : Warned \cup {"inserting"}, uid : Leases, holder : Actors, scope : Scope,
                 hits : SUBSET Leases, left : SUBSET Leases, now : Leases]
ReleaseCalls == [at : {"releasing", "released"}, uid : Leases]
LeaseRows    == [state : {"live", "released", "lapsed"}, uid : Leases, holder : Actors,
                 attested : BOOLEAN, scope : Scope]

\* A claim takes a uid of its own, and only an inserted lease was answered.
LeaseType ==
  /\ lease \in [Leases -> {NoLease} \cup LeaseRows]
  /\ call \in [Actors -> {Idle} \cup ClaimCalls \cup ReleaseCalls]
  /\ answered \in [Leases -> SUBSET SUBSET Leases]
  /\ \A n \in Leases : IF InTable(n) THEN lease[n].uid = n ELSE answered[n] = {}

ClaimsApart ==
  \A a, b \in Actors : call[a] # Idle =>
    /\ InTable(call[a].uid) <=> call[a].at # "inserting"
    /\ a # b /\ call[b].at = "inserting" => call[a].uid # call[b].uid

\* The lease n shares a directory with a scope of another holder.
Meets(scope, holder, n) ==
  /\ lease[n].holder # holder /\ scope.repo = lease[n].scope.repo
  /\ \E p \in scope.prefixes, q \in lease[n].scope.prefixes : Shared(p, q)

\* A claim that is not inserted yet has read whom it meets, or passed it by.
ReadThem ==
  \A a \in Actors, n \in Leases :
    call[a].at = "inserting" /\ IsLive(n) /\ Meets(call[a].scope, call[a].holder, n)
      => n \in call[a].hits \/ {call[a].uid, n} \in beside

\* Whoever answers the claim of m, or has, names n.
Names(m, n) ==
  /\ \A a \in Actors : call[a].at \in Warned /\ call[a].uid = m => n \in call[a].hits
  /\ \A hits \in answered[m] : n \in hits

PairsTold ==
  \A m, n \in Leases :
    m # n /\ IsLive(m) /\ IsLive(n) /\ Meets(lease[m].scope, lease[m].holder, n)
      => {m, n} \in beside \/ Names(m, n) \/ Names(n, m)

LeaseInv == LeaseType /\ ClaimsApart /\ ReadThem /\ PairsTold

\* Directories that one path lies under overlap.
LEMMA SharedOverlap ==
  ASSUME NEW p \in Paths, NEW q \in Paths, Shared(p, q)
  PROVE  PrefixesOverlap(p, q)
<1>1. p \in Seq(UNION {ToSet(raw) : raw \in UNION Requests})
      /\ q \in Seq(UNION {ToSet(raw) : raw \in UNION Requests})
  <2>1. ASSUME NEW raws \in Requests, NEW raw \in raws
        PROVE  Segments(raw) \in Seq(UNION {ToSet(r) : r \in UNION Requests})
    <3>1. Segments(raw) \in Seq(ToSet(raw)) /\ ToSet(raw) \subseteq UNION {ToSet(r) : r \in UNION Requests}
      BY LeaseAssumption
    <3> QED
      BY <3>1
  <2> QED
    BY <2>1 DEF Paths
<1> QED
  BY <1>1 DEF Shared, PrefixesOverlap, IsPrefix

\* No claim begins and none is inserted: leases end, calls go on or away, and a
\* response carries the conflicts its call had read.
LEMMA NobodyClaims ==
  ASSUME LeaseInv, LeaseType', beside' = beside,
         \A n \in Leases :
           /\ InTable(n)' <=> InTable(n)
           /\ IsLive(n)' => IsLive(n) /\ lease'[n] = lease[n]
           /\ \A hits \in answered'[n] :
                \/ hits \in answered[n]
                \/ \E b \in Actors : call[b].at \in Warned /\ call[b].uid = n /\ call[b].hits = hits,
         \A b \in Actors :
           \/ call'[b] = call[b] \/ call'[b] = Idle
           \/ /\ call'[b].uid \in Leases /\ InTable(call'[b].uid) /\ call'[b].at # "inserting"
              /\ call'[b].at \in Warned =>
                   call[b].at \in Warned /\ call[b].uid = call'[b].uid /\ call[b].hits = call'[b].hits
  PROVE  LeaseInv'
<1>1. ASSUME NEW a \in Actors, call[a] # Idle PROVE call[a].uid \in Leases
  BY <1>1 DEF LeaseInv, LeaseType, ClaimCalls, ReleaseCalls
<1>2. \A b \in Actors : call'[b].at = "inserting" => call[b].at = "inserting" /\ call'[b] = call[b]
  BY DEF Idle
<1>3. ClaimsApart'
  <2> SUFFICES ASSUME NEW a \in Actors, NEW b \in Actors, call'[a] # Idle
               PROVE  /\ lease'[call'[a].uid].state # "none" <=> call'[a].at # "inserting"
                      /\ a # b /\ call'[b].at = "inserting" => call'[a].uid # call'[b].uid
    BY DEF ClaimsApart, InTable
  <2>1. CASE call'[a] = call[a]
    BY <1>1, <1>2, <2>1 DEF LeaseInv, ClaimsApart, InTable
  <2>2. CASE /\ call'[a].uid \in Leases /\ InTable(call'[a].uid) /\ call'[a].at # "inserting"
    <3>1. call'[b].at = "inserting" => ~InTable(call'[b].uid)
      BY <1>2 DEF LeaseInv, ClaimsApart, Idle
    <3> QED
      BY <2>2, <3>1 DEF InTable
  <2> QED
    BY <2>1, <2>2
<1>4. ReadThem'
  BY <1>2 DEF LeaseInv, ReadThem, Meets
<1>5. ASSUME NEW m \in Leases, NEW n \in Leases, Names(m, n) PROVE Names(m, n)'
  BY <1>5 DEF Names, Idle, Warned
<1>6. PairsTold'
  BY <1>5 DEF LeaseInv, PairsTold, Meets
<1> QED
  BY <1>3, <1>4, <1>6 DEF LeaseInv

\* A claim reads: whoever it meets is among its hits.
LEMMA ClaimReadKeeps ==
  ASSUME LeaseInv, NEW a \in Actors, NEW n \in Leases, NEW holder \in Actors,
         NEW repo \in Repos, NEW raws \in Requests, ClaimRead(a, n, holder, repo, raws)
  PROVE  LeaseInv'
<1> DEFINE scope == [repo |-> repo, prefixes |-> Parsed(raws)]
           hits  == {l.uid : l \in FindConflicts(scope, holder, LiveLeases(repo))}
           c     == [at |-> "inserting", uid |-> n, holder |-> holder, scope |-> scope,
                     hits |-> hits, left |-> hits, now |-> n]
<1>0. LeaseType /\ ClaimsApart /\ ReadThem /\ PairsTold
  BY DEF LeaseInv
<1>1. /\ call[a] = Idle /\ ~InTable(n) /\ ~Claiming(n)
      /\ call' = [call EXCEPT ![a] = c] /\ UNCHANGED <<lease, answered, beside>>
  BY DEF ClaimRead
<1>2. \A m \in Leases : IsLive(m) => lease[m] \in LeaseRows /\ lease[m].uid = m
  BY <1>0 DEF LeaseType, IsLive, InTable, NoLease
<1>3. hits \subseteq Leases
  BY <1>2 DEF FindConflicts, LiveLeases
<1>4. scope \in Scope
  BY DEF Scope, Parsed, Paths
<1>5. c \in ClaimCalls
  BY <1>3, <1>4 DEF ClaimCalls
<1>6. ASSUME NEW m \in Leases, IsLive(m), Meets(scope, holder, m) PROVE m \in hits
  <2>1. PICK p \in Parsed(raws), q \in lease[m].scope.prefixes : Shared(p, q)
    BY <1>6 DEF Meets
  <2>2. p \in Paths /\ q \in Paths
    BY <1>2, <1>6 DEF Parsed, Paths, LeaseRows, Scope
  <2>3. PrefixesOverlap(p, q)
    BY <2>1, <2>2, SharedOverlap
  <2>4. ScopesIntersect(scope, lease[m].scope) # {}
    <3>1. <<p, q>> \in Parsed(raws) \X lease[m].scope.prefixes
      BY <2>1
    <3>2. <<p, q>> \in ScopesIntersect(scope, lease[m].scope)
      BY <1>6, <2>3, <3>1 DEF ScopesIntersect, Meets
    <3> QED
      BY <3>2
  <2>5. lease[m] \in LiveLeases(repo) /\ lease[m].holder # holder
    BY <1>6 DEF LiveLeases, Meets
  <2> QED
    BY <1>2, <1>6, <2>4, <2>5 DEF FindConflicts
<1> HIDE DEF scope, hits
<1>7. c.at = "inserting" /\ c.uid = n /\ c.scope = scope /\ c.holder = holder /\ c.hits = hits
  OBVIOUS
<1> HIDE DEF c
<1>8. /\ call'[a] = c
      /\ \A b \in Actors \ {a} : call'[b] = call[b]
  BY <1>0, <1>1 DEF LeaseType
<1>9. LeaseType'
  BY <1>0, <1>1, <1>5 DEF LeaseType, InTable
<1>10. ClaimsApart'
  <2>1. \A b \in Actors : call[b] # Idle => call[b].uid # n
    BY <1>1 DEF Claiming, Idle, LeaseInv, LeaseType, ClaimCalls, ReleaseCalls, Warned
  <2>2. lease' = lease
    BY <1>1
  <2>3. \A b \in Actors : call[b].at = "inserting" => call[b] # Idle
    BY DEF Idle
  <2> QED
    BY <1>0, <1>1, <1>7, <1>8, <2>1, <2>2, <2>3 DEF ClaimsApart, InTable
<1>11. ReadThem'
  <2> SUFFICES ASSUME NEW b \in Actors, NEW m \in Leases, call'[b].at = "inserting",
                      IsLive(m), Meets(call'[b].scope, call'[b].holder, m)
               PROVE  m \in call'[b].hits \/ {call'[b].uid, m} \in beside
    BY <1>1 DEF ReadThem, IsLive, Meets
  <2>1. CASE b = a
    BY <1>6, <1>7, <1>8, <2>1
  <2>2. CASE b # a
    BY <1>0, <1>8, <2>2 DEF ReadThem
  <2> QED
    BY <2>1, <2>2
<1>12. ASSUME NEW k \in Leases, NEW m \in Leases, Names(k, m) PROVE Names(k, m)'
  BY <1>1, <1>7, <1>8, <1>12 DEF Names, Warned
<1>13. PairsTold'
  BY <1>0, <1>1, <1>12 DEF PairsTold, IsLive, Meets
<1> QED
  BY <1>9, <1>10, <1>11, <1>13 DEF LeaseInv

\* A claim is inserted: whom it meets it has read, or neither can have read the
\* other; and so for those who have read and not inserted.
LEMMA ClaimInsertKeeps ==
  ASSUME LeaseInv, NEW a \in Actors, ClaimInsert(a)
  PROVE  LeaseInv'
<1> PICK k \in Leases : k = call[a].uid
  BY DEF ClaimInsert, LeaseInv, LeaseType, ClaimCalls, ReleaseCalls, Idle
<1> DEFINE c == call[a]
           r == [state |-> "live", uid |-> k, holder |-> c.holder,
                 attested |-> c.holder # a, scope |-> c.scope]
<1>0. LeaseType /\ ClaimsApart /\ ReadThem /\ PairsTold
  BY DEF LeaseInv
<1>1. /\ c.at = "inserting"
      /\ lease' = [lease EXCEPT ![k] = r]
      /\ call' = [call EXCEPT ![a].at = "announcing"]
      /\ beside' = beside \cup {{k, call[b].uid} : b \in {o \in Actors \ {a} : call[o].at = "inserting"}}
      /\ answered' = answered
  BY DEF ClaimInsert
<1>2. c \in ClaimCalls /\ k \in Leases /\ ~InTable(k) /\ answered[k] = {}
  BY <1>0, <1>1 DEF LeaseType, ClaimsApart, Idle, ReleaseCalls, ClaimCalls
<1>3. r \in LeaseRows
  BY <1>2 DEF LeaseRows, ClaimCalls
<1>4. /\ lease'[k] = r
      /\ \A m \in Leases \ {k} : lease'[m] = lease[m]
  BY <1>0, <1>1, <1>2 DEF LeaseType
<1>5. /\ call'[a] = [c EXCEPT !.at = "announcing"]
      /\ \A b \in Actors \ {a} : call'[b] = call[b]
  BY <1>0, <1>1 DEF LeaseType
<1>6. /\ call'[a] \in ClaimCalls /\ call'[a].at = "announcing" /\ call'[a].uid = k
      /\ call'[a].hits = c.hits
  BY <1>2, <1>5 DEF ClaimCalls, Warned
<1>7. r.state = "live" /\ r.uid = k /\ r.holder = c.holder /\ r.scope = c.scope
  OBVIOUS
<1>8. \A b \in Actors \ {a} : call[b] # Idle => call[b].uid # k /\ call[b].uid \in Leases
  BY <1>0, <1>1 DEF ClaimsApart, LeaseType, ClaimCalls, ReleaseCalls
<1> HIDE DEF r
<1>9. LeaseType'
  <2>1. call' \in [Actors -> {Idle} \cup ClaimCalls \cup ReleaseCalls]
    BY <1>0, <1>1, <1>5, <1>6 DEF LeaseType
  <2>2. lease' \in [Leases -> {NoLease} \cup LeaseRows]
    BY <1>0, <1>1, <1>3 DEF LeaseType
  <2> QED
    BY <1>0, <1>1, <1>4, <1>7, <2>1, <2>2 DEF LeaseType, InTable
<1>10. ClaimsApart'
  <2>1. \A b \in Actors : call[b].at = "inserting" => call[b] # Idle
    BY DEF Idle
  <2> QED
    BY <1>0, <1>1, <1>4, <1>5, <1>6, <1>7, <1>8, <2>1 DEF ClaimsApart, InTable
<1>11. ReadThem'
  <2> SUFFICES ASSUME NEW b \in Actors, NEW m \in Leases, call'[b].at = "inserting",
                      IsLive(m)', Meets(call[b].scope, call[b].holder, m)'
               PROVE  m \in call'[b].hits \/ {call'[b].uid, m} \in beside'
    BY <1>5, <1>6 DEF ReadThem, Meets
  <2>1. b # a /\ call'[b] = call[b]
    BY <1>5, <1>6
  <2>2. CASE m = k
    <3>1. {k, call[b].uid} \in beside'
      BY <1>1, <2>1
    <3> QED
      BY <2>1, <2>2, <3>1
  <2>3. CASE m # k
    <3>1. IsLive(m) /\ lease'[m] = lease[m]
      BY <1>4, <2>3 DEF IsLive
    <3>2. call' [b] = call[b] /\ Meets(call[b].scope, call[b].holder, m)
      BY <2>1, <3>1, <1>5 DEF Meets
    <3> QED
      BY <1>0, <1>1, <2>1, <3>1, <3>2 DEF ReadThem
  <2> QED
    BY <2>2, <2>3
<1>12. ASSUME NEW m \in Leases, IsLive(m), m # k, m \in c.hits PROVE Names(k, m)'
  BY <1>1, <1>2, <1>5, <1>6, <1>8, <1>12 DEF Names, Warned, Idle
<1>13. ASSUME NEW m \in Leases, NEW n \in Leases, m # k, Names(m, n) PROVE Names(m, n)'
  BY <1>1, <1>5, <1>6, <1>13 DEF Names
<1>14. \A m \in Leases \ {k} :
         /\ IsLive(m)' <=> IsLive(m)
         /\ lease'[m] = lease[m]
  BY <1>4 DEF IsLive
<1>15. ASSUME NEW m \in Leases, m # k, IsLive(m), Meets(c.scope, c.holder, m)
       PROVE  {k, m} \in beside' \/ Names(k, m)'
  BY <1>0, <1>1, <1>12, <1>15 DEF ReadThem
<1>16. PairsTold'
  <2> SUFFICES ASSUME NEW m \in Leases, NEW n \in Leases, m # n, IsLive(m)', IsLive(n)',
                      Meets(lease[m].scope, lease[m].holder, n)'
               PROVE  {m, n} \in beside' \/ Names(m, n)' \/ Names(n, m)'
    BY DEF PairsTold
  <2>1. /\ lease'[n].holder # lease'[m].holder /\ lease'[m].scope.repo = lease'[n].scope.repo
        /\ \E p \in lease'[m].scope.prefixes, q \in lease'[n].scope.prefixes : Shared(p, q)
    BY DEF Meets
  <2>2. CASE m = k
    <3>1. IsLive(n) /\ lease'[n] = lease[n] /\ n # k /\ lease'[m].scope = c.scope /\ lease'[m].holder = c.holder
      BY <1>4, <1>7, <1>14, <2>2
    <3>2. Meets(c.scope, c.holder, n)
      BY <2>1, <3>1 DEF Meets
    <3> QED
      BY <1>15, <2>2, <3>1, <3>2
  <2>3. CASE n = k
    <3>1. IsLive(m) /\ lease'[m] = lease[m] /\ m # k /\ lease'[n].scope = c.scope /\ lease'[n].holder = c.holder
      BY <1>4, <1>7, <1>14, <2>3
    <3>2. Meets(c.scope, c.holder, m)
      <4>1. \A p, q : Shared(p, q) => Shared(q, p)
        BY DEF Shared
      <4> QED
        BY <2>1, <3>1, <4>1 DEF Meets
    <3>3. {m, n} = {k, m}
      BY <2>3
    <3> QED
      BY <1>15, <2>3, <3>1, <3>2, <3>3
  <2>4. CASE m # k /\ n # k
    <3>1. IsLive(m) /\ IsLive(n) /\ Meets(lease[m].scope, lease[m].holder, n)
      BY <1>14, <2>1, <2>4 DEF Meets
    <3>2. {m, n} \in beside \/ Names(m, n) \/ Names(n, m)
      BY <1>0, <3>1 DEF PairsTold
    <3> QED
      BY <1>1, <1>13, <2>4, <3>2
  <2> QED
    BY <2>2, <2>3, <2>4
<1> QED
  BY <1>9, <1>10, <1>11, <1>16 DEF LeaseInv

\* What comes after the insert, and what ends a lease or a call.
LEMMA CallStepKeeps ==
  ASSUME LeaseInv, NEW a \in Actors,
         \/ ClaimAnnounce(a) \/ (\E m \in Leases : ClaimWarn(a, m)) \/ ClaimRecord(a)
         \/ ClaimAnswer(a) \/ ReleaseAnnounce(a) \/ CallLost(a)
         \/ \E n \in Leases : ReleaseRead(a, n)
  PROVE  LeaseInv'
<1>0. LeaseType /\ ClaimsApart /\ lease' = lease /\ beside' = beside
  BY DEF LeaseInv, ClaimAnnounce, ClaimWarn, ClaimRecord, ClaimAnswer, ReleaseAnnounce, CallLost,
         ReleaseRead
<1>1. \A n \in Leases : (InTable(n)' <=> InTable(n)) /\ (IsLive(n)' <=> IsLive(n))
  BY <1>0 DEF InTable, IsLive
<1>2. ASSUME NEW c \in {Idle} \cup ClaimCalls \cup ReleaseCalls, call' = [call EXCEPT ![a] = c],
             \/ c = Idle
             \/ /\ c.uid \in Leases /\ InTable(c.uid) /\ c.at # "inserting"
                /\ c.at \in Warned =>
                     call[a].at \in Warned /\ call[a].uid = c.uid /\ call[a].hits = c.hits,
             \/ answered' = answered
             \/ /\ call[a].at \in Warned
                /\ answered' = [answered EXCEPT ![call[a].uid] = {call[a].hits}]
      PROVE  LeaseInv'
  <2>1. /\ call'[a] = c
        /\ \A b \in Actors \ {a} : call'[b] = call[b]
    BY <1>0, <1>2 DEF LeaseType
  <2>2. call[a].at \in Warned => call[a] \in ClaimCalls /\ InTable(call[a].uid)
    BY <1>0 DEF LeaseType, ClaimsApart, Idle, ReleaseCalls, Warned
  <2>3. answered' \in [Leases -> SUBSET SUBSET Leases]
    BY <1>0, <1>2, <2>2 DEF LeaseType, ClaimCalls
  <2>4. \A n \in Leases : answered'[n] = answered[n] \/ InTable(n)
    BY <1>0, <1>2, <2>2 DEF LeaseType
  <2>5. LeaseType'
    BY <1>0, <1>1, <1>2, <2>3, <2>4 DEF LeaseType, InTable
  <2>6. \A n \in Leases : \A hits \in answered'[n] :
          \/ hits \in answered[n]
          \/ \E b \in Actors : call[b].at \in Warned /\ call[b].uid = n /\ call[b].hits = hits
    BY <1>0, <1>2 DEF LeaseType
  <2> QED
    BY <1>0, <1>1, <1>2, <2>1, <2>5, <2>6, NobodyClaims
<1>3. ASSUME NEW c \in ClaimCalls, call[a].at \in Warned, c.at \in Warned,
             c.uid = call[a].uid, c.hits = call[a].hits,
             call' = [call EXCEPT ![a] = c], answered' = answered
      PROVE  LeaseInv'
  <2>1. c.uid \in Leases /\ InTable(c.uid) /\ c.at # "inserting"
    BY <1>0, <1>3 DEF LeaseType, ClaimsApart, Idle, ReleaseCalls, Warned, ClaimCalls
  <2> QED
    BY <1>2, <1>3, <2>1
<1>4. CASE ClaimAnnounce(a) \/ (\E m \in Leases : ClaimWarn(a, m)) \/ ClaimRecord(a)
  <2>1. call[a].at \in Warned /\ call[a] \in ClaimCalls
    <3>1. call[a].at \in Warned
      BY <1>4 DEF ClaimAnnounce, ClaimWarn, ClaimRecord, Warned
    <3>2. call[a] \in {Idle} \cup ClaimCalls \cup ReleaseCalls
      BY <1>0 DEF LeaseType
    <3> QED
      BY <3>1, <3>2 DEF Warned, Idle, ReleaseCalls
  <2>2. CASE ClaimAnnounce(a)
    BY <1>3, <2>1, <2>2 DEF ClaimAnnounce, ClaimCalls, Warned
  <2>3. ASSUME NEW m \in Leases, ClaimWarn(a, m) PROVE LeaseInv'
    BY <1>3, <2>1, <2>3 DEF ClaimWarn, ClaimCalls, Warned
  <2>4. CASE ClaimRecord(a)
    BY <1>3, <2>1, <2>4 DEF ClaimRecord, ClaimCalls, Warned
  <2> QED
    BY <1>4, <2>2, <2>3, <2>4
<1>5. CASE ClaimAnswer(a)
  BY <1>2, <1>5 DEF ClaimAnswer, Warned
<1>6. CASE ReleaseAnnounce(a)
  BY <1>2, <1>6 DEF ReleaseAnnounce
<1>7. CASE CallLost(a)
  BY <1>2, <1>7 DEF CallLost
<1>8. ASSUME NEW n \in Leases, ReleaseRead(a, n) PROVE LeaseInv'
  <2>1. [at |-> "releasing", uid |-> n] \in ReleaseCalls /\ InTable(n)
    BY <1>8 DEF ReleaseRead, ReleaseCalls
  <2> QED
    BY <1>2, <1>8, <2>1 DEF ReleaseRead, Warned
<1> QED
  BY <1>4, <1>5, <1>6, <1>7, <1>8

\* A lease is released, or its time runs out.
LEMMA LeaseEndKeeps ==
  ASSUME LeaseInv, (\E a \in Actors : ReleaseWrite(a)) \/ (\E n \in Leases : Lapse(n))
  PROVE  LeaseInv'
<1>0. LeaseType /\ ClaimsApart /\ answered' = answered /\ beside' = beside
  BY DEF LeaseInv, ReleaseWrite, Lapse
<1>1. ASSUME NEW n \in Leases, InTable(n), NEW st \in {"released", "lapsed"},
             lease' = [lease EXCEPT ![n].state = st],
             call' \in [Actors -> {Idle} \cup ClaimCalls \cup ReleaseCalls],
             \A b \in Actors :
               \/ call'[b] = call[b]
               \/ call'[b].uid \in Leases /\ InTable(call'[b].uid) /\ call'[b].at = "released"
      PROVE  LeaseInv'
  <2>1. lease[n] \in LeaseRows /\ lease[n].uid = n
    BY <1>0, <1>1 DEF LeaseType, InTable, NoLease
  <2>2. /\ lease'[n] = [lease[n] EXCEPT !.state = st]
        /\ \A m \in Leases \ {n} : lease'[m] = lease[m]
    BY <1>0, <1>1 DEF LeaseType
  <2>3. lease'[n] \in LeaseRows /\ lease'[n].state = st /\ lease'[n].uid = n
    BY <2>1, <2>2 DEF LeaseRows
  <2>4. \A m \in Leases :
          /\ InTable(m)' <=> InTable(m)
          /\ IsLive(m)' => IsLive(m) /\ lease'[m] = lease[m]
    BY <1>1, <2>2, <2>3 DEF InTable, IsLive
  <2>5. lease' \in [Leases -> {NoLease} \cup LeaseRows]
    BY <1>0, <1>1, <2>2, <2>3 DEF LeaseType
  <2>6. LeaseType'
    BY <1>0, <1>1, <2>2, <2>3, <2>4, <2>5 DEF LeaseType
  <2> QED
    BY <1>0, <1>1, <2>4, <2>6, NobodyClaims DEF Warned
<1>2. ASSUME NEW a \in Actors, ReleaseWrite(a) PROVE LeaseInv'
  <2>1. call[a] \in ReleaseCalls /\ call[a].uid \in Leases /\ InTable(call[a].uid)
    BY <1>0, <1>2 DEF ReleaseWrite, LeaseType, ClaimsApart, Idle, ClaimCalls, ReleaseCalls, Warned
  <2>2. /\ call'[a] = [call[a] EXCEPT !.at = "released"]
        /\ \A b \in Actors \ {a} : call'[b] = call[b]
    BY <1>0, <1>2 DEF ReleaseWrite, LeaseType
  <2>3. call'[a] \in ReleaseCalls /\ call'[a].at = "released" /\ call'[a].uid = call[a].uid
    BY <2>1, <2>2 DEF ReleaseCalls
  <2>4. call' \in [Actors -> {Idle} \cup ClaimCalls \cup ReleaseCalls]
    BY <1>0, <1>2, <2>2, <2>3 DEF ReleaseWrite, LeaseType
  <2> QED
    BY <1>1, <1>2, <2>1, <2>2, <2>3, <2>4 DEF ReleaseWrite
<1>3. ASSUME NEW n \in Leases, Lapse(n) PROVE LeaseInv'
  BY <1>0, <1>1, <1>3 DEF Lapse, IsLive, InTable, LeaseType
<1> QED
  BY <1>2, <1>3

LEMMA RegistryKeepsLeases ==
  ASSUME LeaseInv, [RegistryNext]_registryVars
  PROVE  LeaseInv'
<1>1. CASE LeaseNext
  BY <1>1, ClaimReadKeeps, ClaimInsertKeeps, CallStepKeeps, LeaseEndKeeps DEF LeaseNext, CallStep
<1>2. CASE UNCHANGED leaseVars
  BY <1>2 DEF leaseVars, LeaseInv, LeaseType, ClaimsApart, ReadThem, PairsTold, Names, Meets,
              InTable, IsLive
<1>3. LeaseNext \/ UNCHANGED leaseVars
  BY DEF RegistryNext, FeedPart, BackPart, FollowPart, SnapPart, LeasePart, AnswerPart,
         SchemaPart, WorkPart, CallPart, registryVars
<1> QED
  BY <1>1, <1>2, <1>3

\* Of two claims that meet one is told of the other, whoever claims, answers,
\* loses an answer and lets go in between: unless neither could read the other
\* (leases.claim).
THEOREM OverlapsAreTold == RegistrySpec => []OverlapIsTold
<1>1. RegistryInit => LeaseInv
  BY DEF RegistryInit, LeaseInit, LeaseInv, LeaseType, ClaimsApart, ReadThem, PairsTold, InTable,
         IsLive, NoLease, Idle
<1>2. LeaseInv => OverlapIsTold
  <2> SUFFICES ASSUME LeaseInv, NEW m \in Leases, NEW n \in Leases, m # n, IsLive(m), IsLive(n),
                      lease[m].holder # lease[n].holder, lease[m].scope.repo = lease[n].scope.repo,
                      \E p \in lease[m].scope.prefixes, q \in lease[n].scope.prefixes : Shared(p, q)
               PROVE  \/ {m, n} \in beside
                      \/ \E t \in {<<m, n>>, <<n, m>>} :
                           answered[t[1]] = {} \/ \E hits \in answered[t[1]] : t[2] \in hits
    BY DEF OverlapIsTold
  <2>1. {m, n} \in beside \/ Names(m, n) \/ Names(n, m)
    BY DEF LeaseInv, PairsTold, Meets
  <2>2. ASSUME NEW k \in Leases, NEW j \in Leases, Names(k, j)
        PROVE  answered[k] = {} \/ \E hits \in answered[k] : j \in hits
    BY <2>2 DEF Names
  <2> QED
    BY <2>1, <2>2
<1>3. LeaseInv /\ [RegistryNext]_registryVars => LeaseInv'
  BY RegistryKeepsLeases
<1> QED
  BY <1>1, <1>2, <1>3, PTL DEF RegistrySpec

-----------------------------------------------------------------------------
(* The signed answers.                                                      *)

Unsettled == {"noted", "holding", "landed", "refused"}
Turned    == {"refused", "held", "expired"}

AnswerRows == [status : {"received"} \cup Outcomes, env : Envelopes, arrived : Nat, attempt : Nat]
Checks     == [at : {"checked"}, env : Envelopes, came : Nat, age : Int]
Posts      == [at : Unsettled \cup {"superseding"}, env : Envelopes]

AnswerType ==
  /\ clock \in Nat /\ cuts \in Nat /\ forgot \subseteq Nonces
  /\ signed \in [Envelopes -> [at : Int, attempt : Nat]]
  /\ item \in [status : {"awaiting", "running", "failed", "done"}, attempt : Nat,
               keys : SUBSET Nonces]
  /\ row \in [Nonces -> {NoRow} \cup AnswerRows]
  /\ post \in [Carriers -> {NoCall} \cup Checks \cup Posts]
  /\ landed \in [Envelopes -> {0, 1}]

\* The nonce that a call carries.
Carries(c) == NonceOf[post[c].env]

\* The item remembers the nonces of the answers that took effect, one of each.
KeysTrue ==
  /\ \A e \in Envelopes : landed[e] = 1 => Known(e)
  /\ \A n \in item.keys : \E e \in Envelopes : NonceOf[e] = n /\ landed[e] = 1
  /\ \A e, f \in Envelopes : NonceOf[e] = NonceOf[f] /\ landed[e] = 1 /\ landed[f] = 1 => e = f

\* A nonce that has no row was never answered, or its row was collected.
RowsKept ==
  \A n \in Nonces \ forgot : row[n] = NoRow =>
    n \notin item.keys /\ \A c \in Carriers : post[c] \in Posts => Carries(c) # n

AppliedTrue ==
  /\ \A n \in Nonces : row[n].status = "applied" => n \in item.keys
  /\ \A c \in Carriers : post[c].at \in {"landed", "superseding"} => Carries(c) \in item.keys

\* So long as no call died and no two carried a nonce at once, a call that noted
\* it is the only one, and the row says what came of it.
Undisturbed ==
  /\ \A c, d \in Carriers : c # d /\ post[c] # NoCall /\ post[d] # NoCall => Carries(c) # Carries(d)
  /\ \A c \in Carriers : post[c].at \in Unsettled /\ Carries(c) \notin forgot =>
       /\ row[Carries(c)].status = "received"
       /\ post[c].at # "landed" => Carries(c) \notin item.keys
  /\ \A n \in Nonces \ forgot :
       /\ row[n].status = "received" => \E c \in Carriers : post[c].at \in Unsettled /\ Carries(c) = n
       /\ row[n].status \in Turned => n \notin item.keys

AnswerInv == AnswerType /\ KeysTrue /\ RowsKept /\ AppliedTrue /\ (cuts = 0 => Undisturbed)

LEMMA CallShapes ==
  ASSUME AnswerType, NEW c \in Carriers
  PROVE  /\ post[c] # NoCall => post[c].env \in Envelopes /\ Carries(c) \in Nonces
         /\ post[c].at = "idle" <=> post[c] = NoCall
         /\ post[c].at = "checked" <=> post[c] \in Checks
         /\ post[c].at \in Unsettled \cup {"superseding"} <=> post[c] \in Posts
<1>1. post[c] \in {NoCall} \cup Checks \cup Posts
  BY DEF AnswerType
<1> QED
  BY <1>1 DEF NoCall, Checks, Posts, Unsettled, Carries, Nonces

LEMMA RowShapes ==
  ASSUME AnswerType, NEW n \in Nonces
  PROVE  IF row[n] = NoRow THEN row[n].status = "none"
         ELSE row[n] \in AnswerRows /\ row[n].status \in {"received"} \cup Outcomes
  BY DEF AnswerType, NoRow, AnswerRows, Outcomes

\* What neither a row nor a call nor a verdict is part of.
LEMMA AsideKeeps ==
  ASSUME AnswerInv,
         \/ \E k \in Keys : Enrol(k) \/ Revoke(k)
         \/ (\E e \in Envelopes : Sign(e)) \/ Report \/ Reclaim \/ Later
  PROVE  AnswerInv'
<1>1. /\ UNCHANGED <<row, post, landed, forgot, cuts>>
      /\ item'.keys = item.keys
  BY DEF AnswerInv, AnswerType, Enrol, Revoke, Sign, Report, Reclaim, Later
<1>2. AnswerType'
  <2>1. clock' \in Nat
    BY DEF AnswerInv, AnswerType, Enrol, Revoke, Sign, Report, Reclaim, Later
  <2>2. item' \in [status : {"awaiting", "running", "failed", "done"}, attempt : Nat,
                   keys : SUBSET Nonces]
    BY DEF AnswerInv, AnswerType, Enrol, Revoke, Sign, Report, Reclaim, Later
  <2>3. signed' \in [Envelopes -> [at : Int, attempt : Nat]]
    <3>1. ASSUME NEW e \in Envelopes, Sign(e)
          PROVE  signed' \in [Envelopes -> [at : Int, attempt : Nat]]
      <4>1. PICK ahead \in 0..Skew :
              signed' = [signed EXCEPT ![e] = [at |-> clock + ahead, attempt |-> item.attempt]]
        BY <3>1 DEF Sign
      <4>2. clock + ahead \in Int /\ item.attempt \in Nat
        BY AnswerAssumption DEF AnswerInv, AnswerType
      <4> QED
        BY <4>1, <4>2 DEF AnswerInv, AnswerType
    <3>2. (\A e \in Envelopes : ~Sign(e)) => signed' = signed
      BY DEF Enrol, Revoke, Report, Reclaim, Later, keyVars
    <3> QED
      BY <3>1, <3>2 DEF AnswerInv, AnswerType
  <2> QED
    BY <1>1, <2>1, <2>2, <2>3 DEF AnswerInv, AnswerType
<1> QED
  BY <1>1, <1>2
  DEF AnswerInv, KeysTrue, RowsKept, AppliedTrue, Undisturbed, Carries, Known

\* A submission is checked: beside another of its nonce it counts as a disturbance.
LEMMA SubmitKeeps ==
  ASSUME AnswerInv, NEW c \in Carriers, NEW e \in Envelopes, Submit(c, e)
  PROVE  AnswerInv'
<1> DEFINE x == [at |-> "checked", env |-> e, came |-> clock, age |-> AgeOf(e)]
           n == NonceOf[e]
<1>0. AnswerType /\ KeysTrue /\ RowsKept /\ AppliedTrue /\ (cuts = 0 => Undisturbed)
  BY DEF AnswerInv
<1>1. /\ post[c] = NoCall /\ post' = [post EXCEPT ![c] = x]
      /\ UNCHANGED <<clock, signed, row, item, landed, forgot>>
  BY DEF Submit
<1>2. cuts' \in Nat /\ (cuts' = 0 => cuts = 0 /\ Calling(n) = {})
  BY <1>0 DEF Submit, Cut, AnswerType
<1>3. x \in Checks
  <2>1. AgeOf(e) \in Int /\ clock \in Nat
    BY <1>0 DEF AnswerType, AgeOf
  <2> QED
    BY <2>1 DEF Checks
<1>4. x.at = "checked" /\ x.env = e /\ x # NoCall /\ x \notin Posts
  BY DEF NoCall, Posts, Unsettled
<1> HIDE DEF x
<1>5. /\ post'[c] = x
      /\ \A d \in Carriers \ {c} : post'[d] = post[d]
  BY <1>0, <1>1 DEF AnswerType
<1>6. AnswerType'
  <2>1. post' \in [Carriers -> {NoCall} \cup Checks \cup Posts]
    BY <1>0, <1>1, <1>3 DEF AnswerType
  <2> QED
    BY <1>0, <1>1, <1>2, <2>1 DEF AnswerType
<1>7. KeysTrue'
  BY <1>0, <1>1 DEF KeysTrue, Known
<1>8. RowsKept'
  BY <1>0, <1>1, <1>4, <1>5 DEF RowsKept, Carries
<1>9. AppliedTrue'
  BY <1>0, <1>1, <1>4, <1>5 DEF AppliedTrue, Carries
<1>10. ASSUME cuts' = 0 PROVE Undisturbed'
  <2>1. \A d \in Carriers : post[d] # NoCall => Carries(d) # n
    BY <1>0, <1>2, <1>10, CallShapes DEF Calling, Carries
  <2>2. Undisturbed
    BY <1>0, <1>2, <1>10
  <2>3. \A a, b \in Carriers : a # b /\ post'[a] # NoCall /\ post'[b] # NoCall => Carries(a)' # Carries(b)'
    BY <1>4, <1>5, <2>1, <2>2 DEF Undisturbed, Carries
  <2>4. \A d \in Carriers : post'[d].at \in Unsettled =>
          post'[d] = post[d] /\ Carries(d)' = Carries(d)
    BY <1>4, <1>5 DEF Unsettled, Carries
  <2>5. \A d \in Carriers : post[d].at \in Unsettled => d # c
    BY <1>1 DEF NoCall, Unsettled
  <2>6. \A d \in Carriers : post[d].at \in Unsettled => post'[d].at \in Unsettled /\ Carries(d)' = Carries(d)
    BY <1>5, <2>5 DEF Carries
  <2> QED
    BY <1>1, <2>2, <2>3, <2>4, <2>6 DEF Undisturbed
<1> QED
  BY <1>6, <1>7, <1>8, <1>9, <1>10 DEF AnswerInv

\* A call moves on, or away, and writes its nonce's row or the held ones: the
\* item stays what it was.
LEMMA CallMovesOn ==
  ASSUME AnswerInv, NEW c \in Carriers, post[c] # NoCall,
         NEW x \in {NoCall} \cup Posts, post' = [post EXCEPT ![c] = x],
         UNCHANGED <<clock, signed, item, landed, forgot>>,
         row' \in [Nonces -> {NoRow} \cup AnswerRows],
         \A m \in Nonces :
           \/ row'[m] = row[m]
           \/ row[m].status = "held" /\ row'[m] # NoRow /\ row'[m].status = "expired"
           \/ /\ m = Carries(c) /\ row'[m] # NoRow
              /\ row'[m].status = "applied" => m \in item.keys,
         x # NoCall =>
           /\ x.env = post[c].env
           /\ post[c] \in Posts \/ row'[Carries(c)] # NoRow
           /\ x.at \in {"landed", "superseding"} => Carries(c) \in item.keys,
         cuts' \in Nat,
         cuts' = 0 =>
           /\ cuts = 0
           /\ Carries(c) \notin forgot =>
                IF x.at \in Unsettled
                THEN /\ row'[Carries(c)].status = "received"
                     /\ x.at # "landed" => Carries(c) \notin item.keys
                ELSE /\ row'[Carries(c)].status # "received"
                     /\ row'[Carries(c)].status \in Turned => Carries(c) \notin item.keys
  PROVE  AnswerInv'
<1>0. AnswerType /\ KeysTrue /\ RowsKept /\ AppliedTrue /\ (cuts = 0 => Undisturbed)
  BY DEF AnswerInv
<1>1. /\ post'[c] = x
      /\ \A d \in Carriers \ {c} : post'[d] = post[d] /\ Carries(d)' = Carries(d)
      /\ x # NoCall => Carries(c)' = Carries(c)
  BY <1>0 DEF AnswerType, Carries
<1>2. /\ Carries(c) \in Nonces
      /\ x \in Posts <=> x # NoCall
      /\ x.at \in Unsettled \cup {"landed", "superseding"} => x # NoCall
  BY <1>0, CallShapes DEF NoCall, Posts, Unsettled
<1>3. \A m \in Nonces : row'[m] = NoRow => row[m] = NoRow
  BY DEF NoRow
<1>4. AnswerType'
  <2>1. post' \in [Carriers -> {NoCall} \cup Checks \cup Posts]
    BY <1>0 DEF AnswerType
  <2> QED
    BY <1>0, <2>1 DEF AnswerType
<1>5. KeysTrue'
  BY <1>0 DEF KeysTrue, Known
<1>6. RowsKept'
  <2> SUFFICES ASSUME NEW n \in Nonces \ forgot, row'[n] = NoRow
               PROVE  n \notin item.keys /\ \A d \in Carriers : post'[d] \in Posts => Carries(d)' # n
    BY DEF RowsKept
  <2>1. row[n] = NoRow /\ n \notin item.keys /\ \A d \in Carriers : post[d] \in Posts => Carries(d) # n
    BY <1>0, <1>3 DEF RowsKept
  <2>2. x \in Posts => Carries(c) # n
    BY <1>2, <2>1
  <2> QED
    BY <1>1, <1>2, <2>1, <2>2
<1>7. AppliedTrue'
  <2>1. ASSUME NEW n \in Nonces, row'[n].status = "applied" PROVE n \in item.keys
    BY <1>0, <2>1 DEF AppliedTrue
  <2>2. ASSUME NEW d \in Carriers, post'[d].at \in {"landed", "superseding"}
        PROVE  Carries(d)' \in item.keys
    BY <1>0, <1>1, <1>2, <2>2 DEF AppliedTrue
  <2> QED
    BY <2>1, <2>2 DEF AppliedTrue
<1>8. ASSUME cuts' = 0 PROVE Undisturbed'
  <2>0. Undisturbed
    BY <1>0, <1>8
  <2>1. \A d \in Carriers \ {c} : post[d] # NoCall => Carries(d) # Carries(c)
    BY <2>0 DEF Undisturbed
  <2>2. \A a, b \in Carriers : a # b /\ post'[a] # NoCall /\ post'[b] # NoCall => Carries(a)' # Carries(b)'
    BY <1>1, <2>0 DEF Undisturbed
  <2>3. ASSUME NEW d \in Carriers, post'[d].at \in Unsettled, Carries(d)' \notin forgot
        PROVE  /\ row'[Carries(d)'].status = "received"
               /\ post'[d].at # "landed" => Carries(d)' \notin item.keys
    <3>1. CASE d = c
      BY <1>1, <1>2, <1>8, <2>3, <3>1
    <3>2. CASE d # c
      <4>1. post'[d] = post[d] /\ Carries(d)' = Carries(d) /\ post[d] # NoCall
        BY <1>1, <2>3, <3>2 DEF NoCall, Unsettled
      <4>2. /\ row[Carries(d)].status = "received"
            /\ post[d].at # "landed" => Carries(d) \notin item.keys
        BY <2>0, <2>3, <4>1 DEF Undisturbed
      <4>3. Carries(d) \in Nonces /\ Carries(d) # Carries(c)
        BY <1>0, <2>1, <3>2, <4>1, CallShapes
      <4> QED
        BY <4>1, <4>2, <4>3
    <3> QED
      BY <3>1, <3>2
  <2>4. ASSUME NEW n \in Nonces \ forgot
        PROVE  /\ row'[n].status = "received" =>
                    \E d \in Carriers : post'[d].at \in Unsettled /\ Carries(d)' = n
               /\ row'[n].status \in Turned => n \notin item.keys
    <3>1. CASE n = Carries(c)
      <4>1. x.at \in Unsettled => row'[n].status \notin Turned
        BY <1>8, <3>1 DEF Turned
      <4> QED
        BY <1>1, <1>2, <1>8, <3>1, <4>1
    <3>2. CASE n # Carries(c)
      <4>1. /\ row[n].status = "received" => \E d \in Carriers : post[d].at \in Unsettled /\ Carries(d) = n
            /\ row[n].status \in Turned => n \notin item.keys
        BY <2>0 DEF Undisturbed
      <4>2. row'[n] = row[n] \/ (row[n].status \in Turned /\ row'[n].status # "received")
        BY <3>2 DEF Turned
      <4>3. \A d \in Carriers : post[d].at \in Unsettled /\ Carries(d) = n =>
              post'[d].at \in Unsettled /\ Carries(d)' = n
        BY <1>1, <3>2
      <4> QED
        BY <4>1, <4>2, <4>3
    <3> QED
      BY <3>1, <3>2
  <2> QED
    BY <2>2, <2>3, <2>4 DEF Undisturbed
<1> QED
  BY <1>4, <1>5, <1>6, <1>7, <1>8 DEF AnswerInv

\* The nonce's row is written, taken up again, or answers.
LEMMA NoteKeeps ==
  ASSUME AnswerInv, NEW c \in Carriers, Note(c)
  PROVE  AnswerInv'
<1> DEFINE e == post[c].env
           n == Carries(c)
           new == [status |-> "received", env |-> e, arrived |-> post[c].came,
                   attempt |-> signed[e].attempt]
           on == [at |-> IF post[c].age > Fresh THEN "holding" ELSE "noted", env |-> e]
<1>0. AnswerType /\ KeysTrue /\ RowsKept /\ AppliedTrue /\ (cuts = 0 => Undisturbed)
  BY DEF AnswerInv
<1>1. /\ post[c].at = "checked"
      /\ row' = IF row[n] = NoRow THEN [row EXCEPT ![n] = new] ELSE row
      /\ \/ /\ row[n] = NoRow \/ (row[n].status = "received" /\ row[n].env = e)
            /\ post' = [post EXCEPT ![c] = on]
         \/ /\ row[n] # NoRow /\ ~(row[n].status = "received" /\ row[n].env = e)
            /\ post' = [post EXCEPT ![c] = NoCall]
      /\ UNCHANGED <<clock, signed, item, landed, forgot, cuts>>
  BY DEF Note, Carries
<1>2. post[c] \in Checks /\ post[c] # NoCall /\ e \in Envelopes /\ n \in Nonces /\ cuts \in Nat
  BY <1>0, <1>1, CallShapes DEF NoCall, AnswerType
<1>3. new \in AnswerRows /\ new # NoRow /\ new.status = "received"
  <2>1. post[c].came \in Nat /\ signed[e].attempt \in Nat
    BY <1>0, <1>2 DEF AnswerType, Checks
  <2> QED
    BY <1>2, <2>1 DEF AnswerRows, NoRow
<1>4. on \in Posts /\ on # NoCall /\ on.env = e /\ on.at \in {"holding", "noted"}
  BY <1>2 DEF Posts, NoCall, Unsettled
<1> HIDE DEF new, on
<1>5. /\ row' \in [Nonces -> {NoRow} \cup AnswerRows]
      /\ \A m \in Nonces \ {n} : row'[m] = row[m]
      /\ row'[n] = IF row[n] = NoRow THEN new ELSE row[n]
      /\ row'[n] # NoRow
  BY <1>0, <1>1, <1>2, <1>3 DEF AnswerType
<1>6. ASSUME cuts = 0, n \notin forgot
      PROVE  /\ row[n].status # "received"
             /\ row[n] = NoRow => n \notin item.keys
             /\ row[n].status \in Turned => n \notin item.keys
  <2>1. Undisturbed
    BY <1>0, <1>6
  <2>2. \A d \in Carriers : post[d].at \in Unsettled /\ Carries(d) = n => FALSE
    BY <1>1, <1>2, <2>1 DEF Undisturbed, Unsettled, NoCall
  <2> QED
    BY <1>0, <1>2, <1>6, <2>1, <2>2 DEF Undisturbed, RowsKept
<1>7. \A m \in Nonces :
        \/ row'[m] = row[m]
        \/ m = Carries(c) /\ row'[m] # NoRow /\ (row'[m].status = "applied" => m \in item.keys)
  BY <1>3, <1>5
<1>8. CASE row[n] = NoRow \/ (row[n].status = "received" /\ row[n].env = e)
  <2>1. post' = [post EXCEPT ![c] = on]
    BY <1>1, <1>8
  <2>2. on.at \in Unsettled /\ on.at \notin {"landed", "superseding"}
    BY <1>4 DEF Unsettled
  <2>3. cuts = 0 /\ n \notin forgot => row'[n].status = "received" /\ n \notin item.keys
    BY <1>3, <1>5, <1>6, <1>8
  <2> QED
    BY <1>1, <1>2, <1>4, <1>5, <1>7, <2>1, <2>2, <2>3, CallMovesOn
<1>9. CASE row[n] # NoRow /\ ~(row[n].status = "received" /\ row[n].env = e)
  <2>1. post' = [post EXCEPT ![c] = NoCall] /\ NoCall.at \notin Unsettled
    BY <1>1, <1>9 DEF NoCall, Unsettled
  <2>2. cuts = 0 /\ n \notin forgot =>
          row'[n].status # "received" /\ (row'[n].status \in Turned => n \notin item.keys)
    BY <1>5, <1>6, <1>9
  <2> QED
    BY <1>1, <1>2, <1>5, <1>7, <2>1, <2>2, CallMovesOn
<1> QED
  BY <1>8, <1>9

\* What came of it is written, and a call that dies writes nothing.
LEMMA SettleKeeps ==
  ASSUME AnswerInv, NEW c \in Carriers,
         Hold(c) \/ LandRefused(c) \/ Receipt(c) \/ CallDies(c)
  PROVE  AnswerInv'
<1> DEFINE n == Carries(c)
<1>0. AnswerType /\ KeysTrue /\ RowsKept /\ AppliedTrue /\ (cuts = 0 => Undisturbed)
  BY DEF AnswerInv
<1>1. /\ UNCHANGED <<clock, signed, item, landed, forgot>>
      /\ post[c] # NoCall /\ n \in Nonces /\ cuts \in Nat
  BY <1>0, CallShapes DEF Hold, LandRefused, Receipt, CallDies, NoCall, AnswerType
<1>2. ASSUME NEW s \in Outcomes, Settle(n, s), s = "applied" => n \in item.keys
      PROVE  /\ row' \in [Nonces -> {NoRow} \cup AnswerRows]
             /\ row'[n].status = IF row[n] = NoRow THEN "none" ELSE s
             /\ \A m \in Nonces :
                  \/ row'[m] = row[m]
                  \/ m = Carries(c) /\ row'[m] # NoRow /\ (row'[m].status = "applied" => m \in item.keys)
  <2>1. CASE row[n] = NoRow
    BY <1>0, <1>2, <2>1 DEF Settle, AnswerType, NoRow
  <2>2. CASE row[n] # NoRow
    <3>1. row[n] \in AnswerRows /\ row' = [row EXCEPT ![n].status = s]
      BY <1>0, <1>1, <1>2, <2>2, RowShapes DEF Settle
    <3>2. [row[n] EXCEPT !.status = s] \in AnswerRows /\ [row[n] EXCEPT !.status = s].status = s
      BY <3>1 DEF AnswerRows
    <3>3. row'[n] \in AnswerRows /\ row'[n].status = s /\ row'[n] # NoRow
      BY <1>0, <1>1, <1>2, <3>1, <3>2 DEF AnswerType, NoRow, Outcomes
    <3>4. \A m \in Nonces \ {n} : row'[m] = row[m]
      BY <1>0, <3>1 DEF AnswerType
    <3>5. row' \in [Nonces -> {NoRow} \cup AnswerRows]
      BY <1>0, <1>1, <3>1, <3>2 DEF AnswerType
    <3> QED
      BY <1>2, <2>2, <3>3, <3>4, <3>5
  <2> QED
    BY <2>1, <2>2
<1>3. NoCall.at \notin Unsettled
  BY DEF NoCall, Unsettled
<1>4. ASSUME NEW s \in {"held", "refused"}, NEW at \in {"holding", "refused"}, post[c].at = at,
             Settle(n, s), post' = [post EXCEPT ![c] = NoCall], cuts' = cuts
      PROVE  AnswerInv'
  <2>1. s \in Outcomes /\ s # "applied" /\ s # "received" /\ at \in Unsettled /\ at # "landed"
    BY DEF Outcomes, Unsettled
  <2>2. cuts = 0 /\ n \notin forgot => n \notin item.keys
    BY <1>0, <1>4, <2>1 DEF Undisturbed
  <2>3. row'[n].status # "received"
    BY <1>2, <1>4, <2>1
  <2> QED
    BY <1>1, <1>2, <1>3, <1>4, <2>1, <2>2, <2>3, CallMovesOn
<1>5. CASE Hold(c)
  BY <1>4, <1>5 DEF Hold, Carries
<1>6. CASE LandRefused(c)
  <2> DEFINE x == [post[c] EXCEPT !.at = "refused"]
  <2>1. post[c].at = "noted" /\ post' = [post EXCEPT ![c] = x] /\ row' = row /\ cuts' = cuts
    BY <1>6 DEF LandRefused
  <2>2. post[c] \in Posts /\ n \notin item.keys
    BY <1>0, <1>6, CallShapes DEF LandRefused, Unsettled, Known, Carries
  <2>3. x \in Posts /\ x.at = "refused" /\ x.env = post[c].env /\ x # NoCall
    BY <2>2 DEF Posts, Unsettled, NoCall
  <2> HIDE DEF x
  <2>4. cuts = 0 /\ n \notin forgot => row[n].status = "received"
    BY <1>0, <2>1 DEF Undisturbed, Unsettled
  <2>5. row \in [Nonces -> {NoRow} \cup AnswerRows] /\ x.at \in Unsettled
    BY <1>0, <2>3 DEF AnswerType, Unsettled
  <2> QED
    BY <1>1, <2>1, <2>2, <2>3, <2>4, <2>5, CallMovesOn
<1>7. CASE Receipt(c)
  <2>1. CASE post[c].at = "refused"
    BY <1>4, <1>7, <2>1 DEF Receipt, Carries
  <2>2. CASE post[c].at = "landed"
    <3> DEFINE x == [post[c] EXCEPT !.at = "superseding"]
    <3>1. Settle(n, "applied") /\ post' = [post EXCEPT ![c] = x] /\ cuts' = cuts
      BY <1>7, <2>2 DEF Receipt, Carries
    <3>2. post[c] \in Posts /\ n \in item.keys
      BY <1>0, <2>2, CallShapes DEF Unsettled, AppliedTrue
    <3>3. x \in Posts /\ x.at = "superseding" /\ x.env = post[c].env /\ x # NoCall
          /\ x.at \notin Unsettled
      BY <3>2 DEF Posts, Unsettled, NoCall
    <3> HIDE DEF x
    <3>4. "applied" \in Outcomes
      BY DEF Outcomes
    <3>5. row'[n].status \in {"none", "applied"}
      BY <1>2, <3>1, <3>2, <3>4
    <3>6. row'[n].status # "received" /\ row'[n].status \notin Turned
      BY <3>5 DEF Turned
    <3> QED
      BY <1>1, <1>2, <3>1, <3>2, <3>3, <3>4, <3>6, CallMovesOn
  <2> QED
    BY <1>7, <2>1, <2>2 DEF Receipt
<1>8. CASE CallDies(c)
  <2>1. post' = [post EXCEPT ![c] = NoCall] /\ row' = row /\ cuts' = cuts + 1
    BY <1>8 DEF CallDies, Cut
  <2>2. cuts' \in Nat /\ cuts' # 0
    BY <1>1, <2>1
  <2>3. row \in [Nonces -> {NoRow} \cup AnswerRows]
    BY <1>0 DEF AnswerType
  <2> QED
    BY <1>1, <2>1, <2>2, <2>3, CallMovesOn
<1> QED
  BY <1>5, <1>6, <1>7, <1>8

\* The held answers of the slot give way.
LEMMA ExpireHeldKeeps ==
  ASSUME AnswerInv, NEW c \in Carriers, ExpireHeld(c)
  PROVE  AnswerInv'
<1> DEFINE n == Carries(c)
           slot == signed[post[c].env].attempt
<1>0. AnswerType /\ KeysTrue /\ RowsKept /\ AppliedTrue /\ (cuts = 0 => Undisturbed)
  BY DEF AnswerInv
<1>1. /\ post[c].at = "superseding" /\ post' = [post EXCEPT ![c] = NoCall]
      /\ row' = [m \in Nonces |-> IF HeldOfSlot(m, slot)
                                  THEN [row[m] EXCEPT !.status = "expired"] ELSE row[m]]
      /\ UNCHANGED <<clock, signed, item, landed, forgot, cuts>>
      /\ post[c] # NoCall /\ n \in Nonces /\ cuts \in Nat
  BY <1>0, CallShapes DEF ExpireHeld, NoCall, AnswerType
<1> HIDE DEF slot
<1>2. ASSUME NEW m \in Nonces
      PROVE  /\ row'[m] \in {NoRow} \cup AnswerRows
             /\ \/ row'[m] = row[m]
                \/ row[m].status = "held" /\ row'[m] # NoRow /\ row'[m].status = "expired"
  <2>1. CASE HeldOfSlot(m, slot)
    <3>1. row[m].status = "held" /\ row[m] \in AnswerRows
      BY <1>0, <2>1, RowShapes DEF HeldOfSlot, NoRow
    <3>2. row'[m] = [row[m] EXCEPT !.status = "expired"]
      BY <1>1, <2>1
    <3>3. row'[m] \in AnswerRows /\ row'[m].status = "expired"
      BY <3>1, <3>2 DEF AnswerRows, Outcomes
    <3> QED
      BY <3>1, <3>3 DEF NoRow
  <2>2. CASE ~HeldOfSlot(m, slot)
    BY <1>0, <1>1, <2>2 DEF AnswerType
  <2> QED
    BY <2>1, <2>2
<1>3. row' \in [Nonces -> {NoRow} \cup AnswerRows]
  BY <1>1, <1>2
<1>4. ASSUME cuts = 0, n \notin forgot
      PROVE  row'[n].status # "received" /\ (row'[n].status \in Turned => n \notin item.keys)
  <2>1. Undisturbed
    BY <1>0, <1>4
  <2>2. \A d \in Carriers : post[d].at \in Unsettled /\ Carries(d) = n => FALSE
    BY <1>1, <2>1 DEF Undisturbed, Unsettled, NoCall
  <2>3. row[n].status # "received" /\ (row[n].status \in Turned => n \notin item.keys)
    BY <1>1, <1>4, <2>1, <2>2 DEF Undisturbed
  <2> QED
    BY <1>1, <1>2, <2>3 DEF Turned
<1>5. NoCall.at \notin Unsettled
  BY DEF NoCall, Unsettled
<1> QED
  BY <1>1, <1>2, <1>3, <1>4, <1>5, CallMovesOn

\* The verdict: it takes effect where its nonce is not known yet.
LEMMA LandKeeps ==
  ASSUME AnswerInv, NEW c \in Carriers, Land(c)
  PROVE  AnswerInv'
<1> DEFINE e == post[c].env
           n == Carries(c)
           x == [post[c] EXCEPT !.at = "landed"]
<1>0. AnswerType /\ KeysTrue /\ RowsKept /\ AppliedTrue /\ (cuts = 0 => Undisturbed)
  BY DEF AnswerInv
<1>1. /\ post[c].at = "noted" /\ post' = [post EXCEPT ![c] = x]
      /\ item' = Attested(e)
      /\ landed' = IF item' = item THEN landed ELSE [landed EXCEPT ![e] = @ + 1]
      /\ UNCHANGED <<clock, signed, row, forgot, cuts>>
  BY DEF Land
<1>2. post[c] \in Posts /\ post[c] # NoCall /\ e \in Envelopes /\ n \in Nonces /\ n = NonceOf[e]
  BY <1>0, <1>1, CallShapes DEF Unsettled, NoCall, Carries
<1>3. x \in Posts /\ x.at = "landed" /\ x.env = e /\ x # NoCall /\ x.at \in Unsettled
  BY <1>2 DEF Posts, Unsettled, NoCall
<1> HIDE DEF x
<1>4. cuts = 0 /\ n \notin forgot => row[n].status = "received"
  BY <1>0, <1>1 DEF Undisturbed, Unsettled
<1>5. row \in [Nonces -> {NoRow} \cup AnswerRows] /\ cuts \in Nat
  BY <1>0 DEF AnswerType
<1>6. CASE Known(e)
  <2>1. item' = item /\ landed' = landed /\ n \in item.keys
    BY <1>1, <1>2, <1>6 DEF Attested, Known
  <2> QED
    BY <1>1, <1>2, <1>3, <1>4, <1>5, <2>1, CallMovesOn
<1>7. CASE ~Known(e)
  <2>1. /\ item' \in [status : {"awaiting", "running", "failed", "done"}, attempt : Nat,
                      keys : SUBSET Nonces]
        /\ item'.keys = item.keys \cup {n}
    <3>1. item' = Verdict(e)
      BY <1>1, <1>7 DEF Attested
    <3>2. item \in [status : {"awaiting", "running", "failed", "done"}, attempt : Nat,
                    keys : SUBSET Nonces]
      BY <1>0 DEF AnswerType
    <3>3. CASE Approves[e]
      <4>1. item' = [item EXCEPT !.status = "done", !.keys = item.keys \cup {n}]
        BY <1>2, <3>1, <3>3 DEF Verdict
      <4> QED
        BY <1>2, <3>2, <4>1
    <3>4. CASE ~Approves[e]
      <4> DEFINE next == item.attempt + 1
                 known == item.keys \cup {n}
      <4>1. item' = [item EXCEPT !.status = "failed", !.attempt = next, !.keys = known]
        BY <1>2, <3>1, <3>4 DEF Verdict
      <4>2. next \in Nat /\ known \in SUBSET Nonces
        BY <1>2, <3>2
      <4>3. known = item.keys \cup {n}
        OBVIOUS
      <4> HIDE DEF next, known
      <4>4. /\ item' \in [status : {"awaiting", "running", "failed", "done"}, attempt : Nat,
                          keys : SUBSET Nonces]
            /\ item'.keys = known
        BY <3>2, <4>1, <4>2
      <4> QED
        BY <4>3, <4>4
    <3> QED
      BY <3>3, <3>4
  <2>2. n \notin item.keys /\ item' # item
    BY <1>2, <1>7, <2>1 DEF Known
  <2>3. landed[e] = 0
    BY <1>0, <1>2, <1>7 DEF KeysTrue, AnswerType
  <2>4. landed' = [landed EXCEPT ![e] = 1]
    BY <1>1, <2>2, <2>3
  <2>5. /\ landed' \in [Envelopes -> {0, 1}]
        /\ landed'[e] = 1
        /\ \A f \in Envelopes \ {e} : landed'[f] = landed[f]
    BY <1>0, <1>2, <2>4 DEF AnswerType
  <2>6. /\ post'[c] = x
        /\ \A d \in Carriers \ {c} : post'[d] = post[d] /\ Carries(d)' = Carries(d)
        /\ Carries(c)' = n
    BY <1>0, <1>1, <1>2, <1>3 DEF AnswerType, Carries
  <2>7. AnswerType'
    <3>1. post' \in [Carriers -> {NoCall} \cup Checks \cup Posts]
      BY <1>0, <1>1, <1>3 DEF AnswerType
    <3> QED
      BY <1>0, <1>1, <2>1, <2>5, <3>1 DEF AnswerType
  <2>8. \A f \in Envelopes : NonceOf[f] = n => landed[f] # 1
    BY <1>0, <2>2 DEF KeysTrue, Known
  <2>9. KeysTrue'
    <3>1. \A f \in Envelopes : landed'[f] = 1 => NonceOf[f] \in item'.keys
      BY <1>0, <1>2, <2>1, <2>5 DEF KeysTrue, Known
    <3>2. \A m \in item'.keys : \E f \in Envelopes : NonceOf[f] = m /\ landed'[f] = 1
      <4>1. ASSUME NEW m \in item.keys PROVE \E f \in Envelopes : NonceOf[f] = m /\ landed'[f] = 1
        BY <1>0, <2>5, <4>1 DEF KeysTrue
      <4>2. NonceOf[e] = n /\ landed'[e] = 1
        BY <1>2, <2>5
      <4> QED
        BY <1>2, <2>1, <4>1, <4>2
    <3>3. \A f, g \in Envelopes : NonceOf[f] = NonceOf[g] /\ landed'[f] = 1 /\ landed'[g] = 1 => f = g
      BY <1>0, <1>2, <2>5, <2>8 DEF KeysTrue
    <3> QED
      BY <3>1, <3>2, <3>3 DEF KeysTrue, Known
  <2>10. RowsKept'
    <3> SUFFICES ASSUME NEW m \in Nonces \ forgot, row[m] = NoRow
                 PROVE  m \notin item'.keys /\ \A d \in Carriers : post'[d] \in Posts => Carries(d)' # m
      BY <1>1 DEF RowsKept
    <3>1. m \notin item.keys /\ \A d \in Carriers : post[d] \in Posts => Carries(d) # m
      BY <1>0 DEF RowsKept
    <3>2. m # n
      BY <1>2, <3>1
    <3> QED
      BY <2>1, <2>6, <3>1, <3>2
  <2>11. AppliedTrue'
    <3>1. \A m \in Nonces : row'[m].status = "applied" => m \in item'.keys
      BY <1>0, <1>1, <2>1 DEF AppliedTrue
    <3>2. \A d \in Carriers : post'[d].at \in {"landed", "superseding"} => Carries(d)' \in item'.keys
      BY <1>0, <1>1, <2>1, <2>6 DEF AppliedTrue
    <3> QED
      BY <3>1, <3>2 DEF AppliedTrue
  <2>12. ASSUME cuts' = 0 PROVE Undisturbed'
    <3>0. Undisturbed
      BY <1>0, <1>1, <2>12
    <3>1. \A d \in Carriers \ {c} : post[d] # NoCall => Carries(d) # n
      BY <1>2, <3>0 DEF Undisturbed
    <3>2. \A a, b \in Carriers : a # b /\ post'[a] # NoCall /\ post'[b] # NoCall => Carries(a)' # Carries(b)'
      BY <1>2, <2>6, <3>0 DEF Undisturbed
    <3>3. ASSUME NEW d \in Carriers, post'[d].at \in Unsettled, Carries(d)' \notin forgot
          PROVE  /\ row[Carries(d)'].status = "received"
                 /\ post'[d].at # "landed" => Carries(d)' \notin item'.keys
      <4>1. CASE d = c
        BY <1>1, <1>3, <1>4, <2>6, <2>12, <3>3, <4>1
      <4>2. CASE d # c
        <5>1. post'[d] = post[d] /\ Carries(d)' = Carries(d) /\ post[d] # NoCall
          BY <2>6, <3>3, <4>2 DEF NoCall, Unsettled
        <5>2. /\ row[Carries(d)].status = "received"
              /\ post[d].at # "landed" => Carries(d) \notin item.keys
          BY <3>0, <3>3, <5>1 DEF Undisturbed
        <5> QED
          BY <2>1, <3>1, <4>2, <5>1, <5>2
      <4> QED
        BY <4>1, <4>2
    <3>4. ASSUME NEW m \in Nonces \ forgot
          PROVE  /\ row[m].status = "received" =>
                      \E d \in Carriers : post'[d].at \in Unsettled /\ Carries(d)' = m
                 /\ row[m].status \in Turned => m \notin item'.keys
      <4>1. /\ row[m].status = "received" => \E d \in Carriers : post[d].at \in Unsettled /\ Carries(d) = m
            /\ row[m].status \in Turned => m \notin item.keys
        BY <3>0 DEF Undisturbed
      <4>2. \A d \in Carriers : post[d].at \in Unsettled => post'[d].at \in Unsettled /\ Carries(d)' = Carries(d)
        BY <1>3, <2>6
      <4>3. row[m].status \in Turned => m # n
        BY <1>1, <1>4, <2>12 DEF Turned
      <4> QED
        BY <2>1, <4>1, <4>2, <4>3
    <3> QED
      BY <1>1, <3>2, <3>3, <3>4 DEF Undisturbed
  <2> QED
    BY <2>7, <2>9, <2>10, <2>11, <2>12 DEF AnswerInv
<1> QED
  BY <1>6, <1>7

\* Settled rows are collected: what is forgotten is not spoken of.
LEMMA CollectKeeps ==
  ASSUME AnswerInv, Collect
  PROVE  AnswerInv'
<1>0. AnswerType /\ KeysTrue /\ RowsKept /\ AppliedTrue /\ (cuts = 0 => Undisturbed)
  BY DEF AnswerInv
<1>1. /\ \A m \in Nonces : row'[m] = row[m] \/ row'[m] = NoRow
      /\ row' \in [Nonces -> {NoRow} \cup AnswerRows]
      /\ forgot' = forgot \cup {m \in Nonces : row'[m] # row[m]}
      /\ UNCHANGED <<clock, signed, post, item, landed, cuts>>
  BY <1>0 DEF Collect, AnswerType
<1>2. AnswerType'
  BY <1>0, <1>1 DEF AnswerType
<1>3. KeysTrue' /\ RowsKept' /\ AppliedTrue'
  BY <1>0, <1>1 DEF KeysTrue, RowsKept, AppliedTrue, Known, Carries, NoRow
<1>4. \A m \in Nonces \ forgot' : m \notin forgot /\ row'[m] = row[m]
  BY <1>1
<1>5. ASSUME cuts' = 0 PROVE Undisturbed'
  <2>1. Undisturbed
    BY <1>0, <1>1, <1>5
  <2>2. \A d \in Carriers : post[d].at \in Unsettled => Carries(d) \in Nonces
    BY <1>0, CallShapes DEF NoCall, Unsettled
  <2>3. \A d \in Carriers : post'[d] = post[d] /\ Carries(d)' = Carries(d)
    BY <1>1 DEF Carries
  <2>4. \A a, b \in Carriers : a # b /\ post'[a] # NoCall /\ post'[b] # NoCall => Carries(a)' # Carries(b)'
    BY <2>1, <2>3 DEF Undisturbed
  <2>5. ASSUME NEW d \in Carriers, post[d].at \in Unsettled, Carries(d) \notin forgot'
        PROVE  /\ row'[Carries(d)].status = "received"
               /\ post[d].at # "landed" => Carries(d) \notin item.keys
    BY <1>4, <2>1, <2>2, <2>5 DEF Undisturbed
  <2>6. ASSUME NEW m \in Nonces \ forgot'
        PROVE  /\ row'[m].status = "received" =>
                    \E d \in Carriers : post[d].at \in Unsettled /\ Carries(d) = m
               /\ row'[m].status \in Turned => m \notin item.keys
    BY <1>4, <2>1 DEF Undisturbed
  <2> QED
    BY <1>1, <2>3, <2>4, <2>5, <2>6 DEF Undisturbed
<1> QED
  BY <1>2, <1>3, <1>5 DEF AnswerInv

LEMMA RegistryKeepsAnswers ==
  ASSUME AnswerInv, [RegistryNext]_registryVars
  PROVE  AnswerInv'
<1>1. CASE AnswerNext
  BY <1>1, AsideKeeps, SubmitKeeps, NoteKeeps, SettleKeeps, ExpireHeldKeeps, LandKeeps, CollectKeeps
  DEF AnswerNext, PostStep
<1>2. CASE UNCHANGED answerVars
  BY <1>2
  DEF answerVars, AnswerInv, AnswerType, KeysTrue, RowsKept, AppliedTrue, Undisturbed, Known, Carries
<1>3. AnswerNext \/ UNCHANGED answerVars
  BY DEF RegistryNext, FeedPart, BackPart, FollowPart, SnapPart, LeasePart, AnswerPart,
         SchemaPart, WorkPart, CallPart, registryVars
<1> QED
  BY <1>1, <1>2, <1>3

\* An answer takes effect once and its row tells the truth, for any envelopes of
\* any nonces carried any number of times (envelope.submit, attest, _settle).
THEOREM AnswersLandOnce == RegistrySpec => []AnswersStand
<1>1. RegistryInit => AnswerInv
  BY DEF RegistryInit, AnswerInit, AnswerInv, AnswerType, KeysTrue, RowsKept, AppliedTrue,
         Undisturbed, Known, Unsigned, NoRow, NoCall, Posts, Unsettled, Turned
<1>2. AnswerInv => AnswersStand
  <2> SUFFICES ASSUME AnswerInv PROVE AnswersStand
    OBVIOUS
  <2>0. AnswerType /\ KeysTrue /\ AppliedTrue /\ (cuts = 0 => Undisturbed)
    BY DEF AnswerInv
  <2>1. ASSUME NEW n \in Nonces
        PROVE  Landings(n) = IF n \in item.keys THEN 1 ELSE 0
    <3> DEFINE S == {e \in Envelopes : NonceOf[e] = n /\ landed[e] > 0}
    <3>1. \A e \in Envelopes : landed[e] > 0 <=> landed[e] = 1
      BY <2>0 DEF AnswerType
    <3>2. CASE n \in item.keys
      <4>1. PICK e \in Envelopes : NonceOf[e] = n /\ landed[e] = 1
        BY <2>0, <3>2 DEF KeysTrue
      <4>2. S = {e}
        BY <2>0, <3>1, <4>1 DEF KeysTrue
      <4> QED
        BY <3>2, <4>2, FS_Singleton DEF Landings
    <3>3. CASE n \notin item.keys
      <4>1. S = {}
        BY <2>0, <3>1, <3>3 DEF KeysTrue, Known
      <4> QED
        BY <3>3, <4>1, FS_EmptySet DEF Landings
    <3> QED
      BY <3>2, <3>3
  <2>2. ASSUME NEW e \in Envelopes PROVE landed[e] <= 1 /\ Landings(NonceOf[e]) <= 1
    <3>1. landed[e] \in {0, 1}
      BY <2>0 DEF AnswerType
    <3>2. Landings(NonceOf[e]) \in {0, 1}
      BY <2>1 DEF Nonces
    <3> QED
      BY <3>1, <3>2
  <2>3. ASSUME NEW n \in Nonces
        PROVE  /\ row[n].status = "applied" => Landings(n) = 1
               /\ row[n].status \in {"refused", "held", "expired"} /\ cuts = 0 /\ n \notin forgot
                    => Landings(n) = 0
    BY <2>0, <2>1 DEF AppliedTrue, Undisturbed, Turned
  <2> QED
    BY <2>2, <2>3 DEF AnswersStand
<1>3. AnswerInv /\ [RegistryNext]_registryVars => AnswerInv'
  BY RegistryKeepsAnswers
<1> QED
  BY <1>1, <1>2, <1>3, PTL DEF RegistrySpec

-----------------------------------------------------------------------------
(* The feed.                                                                *)

\* The numbers given out, and what is known of them.
FeedType ==
  /\ issued \in Nat /\ floor \in 1..(issued + 1)
  /\ written \subseteq 1..issued /\ DOMAIN feed \subseteq written
  /\ \A o \in open : o.seq \in 1..issued
  /\ pruning \in [Pruners -> [at : {"idle", "looked", "decided"}, before : Windows \cup {0},
                              kept : SUBSET (1..issued), floor : 0..(issued + 1)]]
  /\ \A p \in Pruners : pruning[p].at = "decided" => pruning[p].floor # 0
  /\ cursor \in [Readers -> {NoCursor} \cup 0..issued]
  /\ begun \in [Readers -> 0..issued]
  /\ reading \in [Readers -> {NoRead} \cup 0..issued]
  /\ DOMAIN served = Readers /\ DOMAIN overtaken = Readers

\* A row that is gone is below the floor, or every reader may have lost it.
GoneBelow ==
  \A s \in written \ DOMAIN feed, r \in Readers : s < floor \/ s \in overtaken[r]

\* A page being read has lost no row above its start unnoticed.
PageWhole ==
  \A r \in Readers : reading[r] # NoRead =>
    /\ reading[r] = IF cursor[r] = NoCursor THEN begun[r] ELSE cursor[r]
    /\ \A s \in written : s > reading[r] => s \in DOMAIN feed \/ s \in overtaken[r]

FeedInv == FeedType /\ GoneBelow /\ PageWhole /\ NoSilentGap

\* A set of numbers that has a bound has a greatest one.
LEMMA GreatestNat ==
  ASSUME NEW k \in Nat, NEW S \in SUBSET (0..k), S # {}
  PROVE  Max(S) \in S /\ \A n \in S : n <= Max(S)
<1> DEFINE bounds == {u \in 0..k : \A n \in S : n <= u}
<1>1. k \in bounds /\ bounds \subseteq Nat
  OBVIOUS
<1>2. PICK u \in bounds : \A v \in bounds : u <= v
  BY <1>1, LeastNat
<1>3. u \in S
  <2> SUFFICES ASSUME u \notin S PROVE FALSE
    OBVIOUS
  <2>1. PICK n \in S : TRUE
    OBVIOUS
  <2>2. n \in 0..k /\ n <= u /\ n # u /\ u \in 0..k
    BY <1>2, <2>1
  <2>3. u - 1 \in 0..k /\ ~(u <= u - 1)
    BY <2>2
  <2>4. ASSUME NEW m \in S PROVE m <= u - 1
    <3>1. m \in 0..k /\ m <= u /\ m # u
      BY <1>2
    <3> QED
      BY <2>2, <3>1
  <2> QED
    BY <1>2, <2>3, <2>4
<1>4. \E m \in S : \A n \in S : m >= n
  <2>1. \A n \in S : n \in Nat /\ u \in Nat /\ n <= u
    BY <1>1, <1>2
  <2> QED
    BY <1>3, <2>1
<1>5. Max(S) \in S /\ \A n \in S : Max(S) >= n
  BY <1>4 DEF Max
<1>6. S \subseteq Nat
  OBVIOUS
<1>7. \A n \in S : Max(S) \in Nat /\ n \in Nat
  BY <1>5, <1>6
<1> QED
  BY <1>5, <1>7

\* The least of some numbers.
LEMMA LeastOf ==
  ASSUME NEW S \in SUBSET Nat, S # {}
  PROVE  Min(S) \in S /\ \A n \in S : Min(S) <= n
<1>1. \E m \in S : \A n \in S : m <= n
  BY LeastNat
<1> QED
  BY <1>1 DEF Min

\* A page holds every row from its start to its last one, and its cursor is one
\* of them or the start.
LEMMA PagesAreWhole ==
  ASSUME issued \in Nat, DOMAIN feed \subseteq 1..issued, PageSize \in Nat,
         NEW r, NEW start \in 0..issued
  PROVE  /\ NextCursor(r, start) \in start..issued
         /\ NextCursor(r, start) = start \/ NextCursor(r, start) \in Page(start)
         /\ \A s \in DOMAIN feed : s > start /\ s <= NextCursor(r, start) => s \in Page(start)
<1> DEFINE above == {s \in DOMAIN feed : s > start}
           next  == NextCursor(r, start)
           S     == {start} \cup Page(start)
<1>1. Page(start) \subseteq above /\ above \subseteq 1..issued
  BY DEF Page
<1>2. S \in SUBSET (0..issued) /\ S # {}
  BY <1>1
<1>3. next \in S /\ (\A n \in S : n <= next)
  BY <1>2, GreatestNat DEF NextCursor
<1>4. next \in start..issued
  BY <1>2, <1>3
<1>5. ASSUME NEW s \in DOMAIN feed, s > start, s <= next PROVE s \in Page(start)
  <2> DEFINE below(n) == {t \in above : t < n}
  <2>1. next \in Page(start) /\ s \in above
    BY <1>3, <1>4, <1>5
  <2>2. Cardinality(below(next)) < PageSize
    BY <2>1 DEF Page
  <2>3. \A t \in above : t \in 1..issued
    BY <1>1
  <2>4. below(s) \subseteq below(next)
    BY <1>4, <1>5, <2>1, <2>3
  <2>5. IsFiniteSet(below(next))
    BY <1>1, FS_Interval, FS_Subset
  <2>6. IsFiniteSet(below(s)) /\ Cardinality(below(s)) <= Cardinality(below(next))
    BY <2>4, <2>5, FS_Subset
  <2>7. Cardinality(below(s)) \in Nat /\ Cardinality(below(next)) \in Nat
    BY <2>5, <2>6, FS_CardinalityType
  <2>8. Cardinality(below(s)) < PageSize
    BY <2>2, <2>6, <2>7
  <2> QED
    BY <2>1, <2>8 DEF Page
<1> QED
  BY <1>3, <1>4, <1>5

\* A number is taken.
LEMMA NumbersGrow ==
  ASSUME FeedType, issued' = issued + 1,
         UNCHANGED <<floor, pruning, cursor, begun, reading, served, overtaken>>,
         written' \subseteq 1..issued', DOMAIN feed' \subseteq written',
         \A o \in open' : o.seq \in 1..issued'
  PROVE  FeedType'
<1> DEFINE Readings(k) == [at : {"idle", "looked", "decided"}, before : Windows \cup {0},
                           kept : SUBSET (1..k), floor : 0..(k + 1)]
<1>0. issued \in Nat /\ issued' \in Nat
  BY DEF FeedType
<1>1. 0..issued \subseteq 0..issued' /\ 1..issued \subseteq 1..issued'
      /\ 1..(issued + 1) \subseteq 1..(issued' + 1) /\ 0..(issued + 1) \subseteq 0..(issued' + 1)
  BY <1>0
<1>2. pruning' \in [Pruners -> Readings(issued')]
  <2>1. pruning \in [Pruners -> Readings(issued)]
    BY DEF FeedType
  <2>2. Readings(issued) \subseteq Readings(issued')
    BY <1>1
  <2> QED
    BY <2>1, <2>2
<1>3. /\ cursor' \in [Readers -> {NoCursor} \cup 0..issued']
      /\ begun' \in [Readers -> 0..issued']
      /\ reading' \in [Readers -> {NoRead} \cup 0..issued']
  BY <1>1 DEF FeedType
<1>4. floor' \in 1..(issued' + 1)
  BY <1>1 DEF FeedType
<1> QED
  BY <1>0, <1>2, <1>3, <1>4 DEF FeedType

\* A row is written where no cursor is, on SQLite; its number is new.
LEMMA AppendKeeps ==
  ASSUME FeedInv, NEW e, AppendEvent(e)
  PROVE  FeedInv'
<1>0. FeedType /\ GoneBelow /\ PageWhole /\ NoSilentGap
  BY DEF FeedInv
<1>1. /\ issued' = issued + 1 /\ issued \in Nat
      /\ DOMAIN feed' = DOMAIN feed \cup {issued + 1}
      /\ written' = written \cup {issued + 1}
      /\ UNCHANGED <<open, floor, pruning, cursor, begun, reading, served, overtaken>>
  BY <1>0 DEF AppendEvent, WithRow, retained, readers, FeedType
<1>2. 1..issued \subseteq 1..issued' /\ issued + 1 \in 1..issued'
  BY <1>1
<1>3. FeedType'
  <2>1. written' \subseteq 1..issued' /\ DOMAIN feed' \subseteq written'
    BY <1>0, <1>1, <1>2 DEF FeedType
  <2>2. \A o \in open' : o.seq \in 1..issued'
    BY <1>0, <1>1, <1>2 DEF FeedType
  <2> QED
    BY <1>0, <1>1, <2>1, <2>2, NumbersGrow
<1>4. GoneBelow' /\ PageWhole'
  BY <1>0, <1>1 DEF GoneBelow, PageWhole
<1>5. NoSilentGap'
  <2> SUFFICES ASSUME NEW r \in Readers, cursor[r] # NoCursor, NEW s \in written',
                      s \in (begun[r] + 1)..cursor[r]
               PROVE  s \in served[r] \cup overtaken[r]
    BY <1>1 DEF NoSilentGap
  <2>1. s # issued + 1
    <3>1. cursor[r] \in 0..issued /\ begun[r] \in 0..issued
      BY <1>0 DEF FeedType
    <3> QED
      BY <1>1, <3>1
  <2> QED
    BY <1>0, <1>1, <2>1 DEF NoSilentGap
<1> QED
  BY <1>3, <1>4, <1>5 DEF FeedInv

\* On Postgres a number is taken, and its row comes later or never.
LEMMA InsertKeeps ==
  ASSUME FeedInv, NEW e, Insert(e)
  PROVE  FeedInv'
<1>0. FeedType /\ GoneBelow /\ PageWhole /\ NoSilentGap
  BY DEF FeedInv
<1>1. /\ issued' = issued + 1 /\ issued \in Nat
      /\ open' = open \cup {[seq |-> issued + 1, event |-> e]}
      /\ UNCHANGED <<feed, written, floor, pruning, cursor, begun, reading, served, overtaken>>
  BY <1>0 DEF Insert, retained, readers, FeedType
<1>2. 1..issued \subseteq 1..issued' /\ issued + 1 \in 1..issued'
  BY <1>1
<1>3. FeedType'
  <2>1. written' \subseteq 1..issued' /\ DOMAIN feed' \subseteq written'
    BY <1>0, <1>1, <1>2 DEF FeedType
  <2>2. \A o \in open' : o.seq \in 1..issued'
    BY <1>0, <1>1, <1>2 DEF FeedType
  <2> QED
    BY <1>0, <1>1, <2>1, <2>2, NumbersGrow
<1>4. GoneBelow' /\ PageWhole' /\ NoSilentGap'
  BY <1>0, <1>1 DEF GoneBelow, PageWhole, NoSilentGap
<1> QED
  BY <1>3, <1>4 DEF FeedInv

\* A commit that is late is lost to the readers that have passed it.
LEMMA CommitRowKeeps ==
  ASSUME FeedInv, NEW o \in open, Commit(o) \/ Rollback(o)
  PROVE  FeedInv'
<1>0. FeedType /\ GoneBelow /\ PageWhole /\ NoSilentGap
  BY DEF FeedInv
<1>1. CASE Rollback(o)
  BY <1>0, <1>1
  DEF Rollback, retained, readers, FeedInv, FeedType, GoneBelow, PageWhole, NoSilentGap
<1>2. CASE Commit(o)
  <2>1. /\ open' = open \ {o} /\ o.seq \in 1..issued
        /\ DOMAIN feed' = DOMAIN feed \cup {o.seq}
        /\ written' = written \cup {o.seq}
        /\ overtaken' = [r \in Readers |-> overtaken[r] \cup (IF Passed(r, o.seq) THEN {o.seq} ELSE {})]
        /\ UNCHANGED <<issued, floor, pruning, cursor, begun, reading, served>>
    BY <1>0, <1>2 DEF Commit, WithRow, retained, FeedType
  <2>2. FeedType'
    BY <1>0, <2>1 DEF FeedType
  <2>3. GoneBelow' /\ PageWhole'
    BY <1>0, <2>1 DEF GoneBelow, PageWhole
  <2>4. NoSilentGap'
    <3> SUFFICES ASSUME NEW r \in Readers, cursor[r] # NoCursor, NEW s \in written',
                        s \in (begun[r] + 1)..cursor[r]
                 PROVE  s \in served[r] \cup overtaken'[r]
      BY <2>1 DEF NoSilentGap
    <3>1. CASE s = o.seq
      <4>1. Passed(r, o.seq)
        BY <3>1 DEF Passed
      <4> QED
        BY <2>1, <3>1, <4>1
    <3>2. CASE s \in written
      BY <1>0, <2>1, <3>2 DEF NoSilentGap
    <3> QED
      BY <2>1, <3>1, <3>2
  <2> QED
    BY <2>2, <2>3, <2>4 DEF FeedInv
<1> QED
  BY <1>1, <1>2

\* A prune reads: the floor it decides on is a number of the feed.
LEMMA PruneReadKeeps ==
  ASSUME FeedInv, NEW p \in Pruners, (\E b \in Windows : PruneLook(p, b)) \/ PruneDecide(p)
  PROVE  FeedInv' /\ (pruning'[p].at = "decided" => pruning'[p].floor > floor)
<1> DEFINE Readings == [at : {"idle", "looked", "decided"}, before : Windows \cup {0},
                        kept : SUBSET (1..issued), floor : 0..(issued + 1)]
<1>0. FeedType /\ GoneBelow /\ PageWhole /\ NoSilentGap
  BY DEF FeedInv
<1>1. /\ issued \in Nat /\ floor \in 1..(issued + 1) /\ DOMAIN feed \subseteq 1..issued
      /\ pruning \in [Pruners -> Readings]
      /\ UNCHANGED <<table, floor, readers>>
  BY <1>0 DEF FeedType, PruneLook, PruneDecide
<1>2. ASSUME NEW x \in Readings, x.at = "decided" => x.floor > floor,
             pruning' = [pruning EXCEPT ![p] = x]
      PROVE  FeedInv' /\ (pruning'[p].at = "decided" => pruning'[p].floor > floor)
  <2>1. /\ pruning' \in [Pruners -> Readings] /\ pruning'[p] = x
        /\ \A q \in Pruners \ {p} : pruning'[q] = pruning[q]
    BY <1>1, <1>2
  <2>2. x.at = "decided" => x.floor # 0
    BY <1>1, <1>2
  <2>3. FeedType'
    BY <1>0, <1>1, <2>1, <2>2 DEF FeedType, table, readers
  <2>4. GoneBelow' /\ PageWhole' /\ NoSilentGap'
    BY <1>0, <1>1 DEF GoneBelow, PageWhole, NoSilentGap, table, readers
  <2> QED
    BY <1>2, <2>1, <2>3, <2>4 DEF FeedInv
<1>3. ASSUME NEW b \in Windows, PruneLook(p, b)
      PROVE  FeedInv' /\ (pruning'[p].at = "decided" => pruning'[p].floor > floor)
  <2> DEFINE inside == {s \in DOMAIN feed : feed[s].at >= b}
             x == [at |-> "looked", before |-> b, floor |-> 0,
                   kept |-> IF inside = {} THEN {} ELSE {Min(inside)}]
  <2>1. inside \subseteq 1..issued /\ inside \in SUBSET Nat
    BY <1>1
  <2>2. inside # {} => Min(inside) \in 1..issued
    BY <2>1, LeastOf
  <2>3. x \in Readings /\ x.at = "looked"
    BY <1>1, <2>2
  <2>4. pruning' = [pruning EXCEPT ![p] = x]
    BY <1>3 DEF PruneLook
  <2> HIDE DEF x
  <2> QED
    BY <1>2, <2>3, <2>4
<1>4. CASE PruneDecide(p)
  <2> DEFINE newest == DOMAIN feed
             first  == IF pruning[p].kept # {} THEN Min(pruning[p].kept)
                       ELSE IF newest = {} THEN floor ELSE Max(newest) + 1
             new    == Max({first, floor})
  <2>1. first \in 1..(issued + 1)
    <3>1. pruning[p].kept # {} => Min(pruning[p].kept) \in 1..issued
      <4>1. pruning[p].kept \subseteq 1..issued /\ pruning[p].kept \in SUBSET Nat
        BY <1>1
      <4> QED
        BY <4>1, LeastOf
    <3>2. newest # {} => Max(newest) \in 1..issued
      <4>1. newest \in SUBSET (0..issued)
        BY <1>1
      <4> QED
        BY <1>1, <4>1, GreatestNat
    <3>3. /\ issued \in Nat /\ floor \in 1..(issued + 1)
          /\ \A n \in 1..issued : n \in 1..(issued + 1) /\ n + 1 \in 1..(issued + 1)
      BY <1>1
    <3> QED
      BY <3>1, <3>2, <3>3
  <2> HIDE DEF first
  <2>2. new \in 1..(issued + 1)
    <3>1. {first, floor} \in SUBSET (0..(issued + 1)) /\ {first, floor} # {} /\ issued + 1 \in Nat
      BY <1>1, <2>1
    <3>2. new \in {first, floor}
      BY <3>1, GreatestNat
    <3> QED
      BY <1>1, <2>1, <3>2
  <2> HIDE DEF new
  <2>3. pruning' = [pruning EXCEPT ![p] =
                      IF new > floor THEN [pruning[p] EXCEPT !.at = "decided", !.floor = new]
                      ELSE NotPruning]
    BY <1>1, <1>4 DEF PruneDecide, new, first
  <2>4. CASE new > floor
    <3> DEFINE x == [pruning[p] EXCEPT !.at = "decided", !.floor = new]
    <3>1. x \in Readings /\ x.floor = new
      <4>1. pruning[p] \in Readings /\ new \in 0..(issued + 1)
        BY <1>1, <2>2
      <4> QED
        BY <4>1
    <3>2. pruning' = [pruning EXCEPT ![p] = x]
      BY <2>3, <2>4
    <3> HIDE DEF x
    <3> QED
      BY <1>2, <2>4, <3>1, <3>2
  <2>5. CASE ~(new > floor)
    <3>1. NotPruning \in Readings /\ NotPruning.at = "idle"
      BY <1>1 DEF NotPruning
    <3> QED
      BY <1>2, <2>3, <2>5, <3>1
  <2> QED
    BY <2>4, <2>5
<1> QED
  BY <1>3, <1>4

\* A prune writes: what goes is below its floor; a page that is being read loses
\* it, and so do all readers where the floor went down.
LEMMA PruneWriteKeeps ==
  ASSUME FeedInv, NEW p \in Pruners, PruneWrite(p)
  PROVE  FeedInv'
<1> DEFINE n == pruning[p].floor
<1>0. FeedType /\ GoneBelow /\ PageWhole /\ NoSilentGap
  BY DEF FeedInv
<1>1. /\ floor' = n /\ n \in 1..(issued + 1) /\ issued \in Nat
      /\ DOMAIN feed' = Kept(n)
      /\ pruning' = [pruning EXCEPT ![p] = NotPruning]
      /\ overtaken' = [r \in Readers |-> overtaken[r] \cup Lost(r, n) \cup Untold(n)]
      /\ UNCHANGED <<open, written, issued, cursor, begun, reading, served>>
  <2>1. n \in 0..(issued + 1) /\ n # 0 /\ issued \in Nat
    BY <1>0 DEF PruneWrite, FeedType
  <2>2. n \in 1..(issued + 1)
    BY <2>1
  <2> QED
    BY <2>1, <2>2 DEF PruneWrite
<1> HIDE DEF n
<1>2. \A s \in written : s \in Nat /\ n \in Nat
  BY <1>0, <1>1 DEF FeedType
<1>3. FeedType'
  <2>1. NotPruning \in [at : {"idle", "looked", "decided"}, before : Windows \cup {0},
                        kept : SUBSET (1..issued), floor : 0..(issued + 1)]
    BY <1>1 DEF NotPruning
  <2>2. /\ pruning' \in [Pruners -> [at : {"idle", "looked", "decided"}, before : Windows \cup {0},
                                     kept : SUBSET (1..issued), floor : 0..(issued + 1)]]
        /\ \A q \in Pruners : pruning'[q].at = "decided" => pruning'[q] = pruning[q]
    BY <1>0, <1>1, <2>1 DEF FeedType, NotPruning
  <2>3. DOMAIN feed' \subseteq written
    BY <1>0, <1>1 DEF FeedType, Kept
  <2> QED
    BY <1>0, <1>1, <2>2, <2>3 DEF FeedType
<1>4. GoneBelow'
  <2> SUFFICES ASSUME NEW s \in written, s \notin Kept(n), NEW r \in Readers, ~(s < n)
               PROVE  s \in overtaken'[r]
    BY <1>1 DEF GoneBelow
  <2>1. s \notin DOMAIN feed /\ s >= n
    BY <1>2 DEF Kept
  <2>2. s \in Untold(n)
    BY <2>1 DEF Untold
  <2> QED
    BY <1>1, <2>2
<1>5. PageWhole'
  <2> SUFFICES ASSUME NEW r \in Readers, reading[r] # NoRead
               PROVE  /\ reading[r] = IF cursor[r] = NoCursor THEN begun[r] ELSE cursor[r]
                      /\ \A s \in written : s > reading[r] => s \in Kept(n) \/ s \in overtaken'[r]
    BY <1>1 DEF PageWhole
  <2>1. ASSUME NEW s \in written, s > reading[r], s \notin Kept(n) PROVE s \in overtaken'[r]
    <3>1. s \in DOMAIN feed \/ s \in overtaken[r]
      BY <1>0, <2>1 DEF PageWhole
    <3>2. s \in DOMAIN feed => s \in Lost(r, n)
      BY <1>2, <2>1 DEF Kept, Lost
    <3> QED
      BY <1>1, <3>1, <3>2
  <2> QED
    BY <1>0, <2>1 DEF PageWhole
<1>6. NoSilentGap'
  BY <1>0, <1>1 DEF NoSilentGap
<1> QED
  BY <1>3, <1>4, <1>5, <1>6 DEF FeedInv

\* A reader begins its page, is refused, or is served.
LEMMA PollKeeps ==
  ASSUME FeedInv, NEW r \in Readers, Poll(r)
  PROVE  FeedInv'
<1>0. FeedType /\ GoneBelow /\ PageWhole /\ NoSilentGap
  BY DEF FeedInv
<1>1. UNCHANGED <<table, floor, pruning, overtaken>>
  BY DEF Poll, ReadStart, ReadRefused, ReadPage, retained
<1>2. /\ floor - 1 \in 0..issued /\ floor \in Nat /\ issued \in Nat
      /\ cursor[r] # NoCursor => cursor[r] \in 0..issued
      /\ 0 \in 0..issued
  <2>1. floor \in 1..(issued + 1) /\ issued \in Nat /\ cursor[r] \in {NoCursor} \cup 0..issued
    BY <1>0 DEF FeedType
  <2> QED
    BY <2>1
<1>3. GoneBelow'
  BY <1>0, <1>1 DEF GoneBelow, table
<1>4. CASE ReadStart(r)
  <2> DEFINE start == StartOf(cursor[r])
  <2>1. /\ reading' = [reading EXCEPT ![r] = start]
        /\ begun' = [begun EXCEPT ![r] = IF cursor[r] = NoCursor THEN start ELSE begun[r]]
        /\ UNCHANGED <<cursor, served>>
        /\ cursor[r] # NoCursor => ~(cursor[r] < floor - 1)
    BY <1>4 DEF ReadStart, StartOf, Expired
  <2>2. start \in 0..issued /\ floor - 1 <= start
    BY <1>2, <2>1 DEF StartOf
  <2>3. start = IF cursor[r] = NoCursor THEN begun'[r] ELSE cursor[r]
    BY <1>0, <2>1 DEF StartOf, FeedType
  <2> HIDE DEF start
  <2>4. FeedType'
    <3>1. /\ begun' \in [Readers -> 0..issued]
          /\ reading' \in [Readers -> {NoRead} \cup 0..issued]
      BY <1>0, <2>1, <2>2 DEF FeedType
    <3> QED
      BY <1>0, <1>1, <2>1, <3>1 DEF FeedType, table
  <2>5. PageWhole'
    <3>1. \A q \in Readers \ {r} : reading'[q] = reading[q] /\ begun'[q] = begun[q]
      BY <1>0, <2>1 DEF FeedType
    <3>2. reading'[r] = start
      BY <1>0, <2>1 DEF FeedType
    <3>3. ASSUME NEW s \in written, s > start PROVE s \in DOMAIN feed \/ s \in overtaken[r]
      <4>1. ~(s < floor)
        <5>1. s \in Nat
          BY <1>0 DEF FeedType
        <5> QED
          BY <1>2, <2>2, <3>3, <5>1
      <4> QED
        BY <1>0, <4>1 DEF GoneBelow
    <3> QED
      BY <1>0, <1>1, <2>1, <2>3, <3>1, <3>2, <3>3 DEF PageWhole, table
  <2>6. NoSilentGap'
    BY <1>0, <1>1, <2>1 DEF NoSilentGap, table, FeedType
  <2> QED
    BY <1>3, <2>4, <2>5, <2>6 DEF FeedInv
<1>5. CASE ReadRefused(r)
  <2>1. /\ reading[r] = NoRead
        /\ cursor' = [cursor EXCEPT ![r] = floor - 1] /\ begun' = [begun EXCEPT ![r] = floor - 1]
        /\ UNCHANGED <<reading, served>>
    BY <1>5 DEF ReadRefused
  <2>2. FeedType'
    <3>1. /\ begun' \in [Readers -> 0..issued]
          /\ cursor' \in [Readers -> {NoCursor} \cup 0..issued]
      BY <1>0, <1>2, <2>1 DEF FeedType
    <3> QED
      BY <1>0, <1>1, <2>1, <3>1 DEF FeedType, table
  <2>3. /\ begun'[r] = floor - 1 /\ cursor'[r] = floor - 1
        /\ \A q \in Readers \ {r} : cursor'[q] = cursor[q] /\ begun'[q] = begun[q]
    BY <1>0, <2>1 DEF FeedType
  <2>4. PageWhole'
    BY <1>0, <1>1, <2>1, <2>3 DEF PageWhole, table
  <2>5. NoSilentGap'
    <3> SUFFICES ASSUME NEW q \in Readers, cursor'[q] # NoCursor, NEW s \in written,
                        s \in (begun'[q] + 1)..cursor'[q]
                 PROVE  s \in served[q] \cup overtaken[q]
      BY <1>1, <2>1 DEF NoSilentGap, table
    <3>1. q # r
      BY <1>2, <2>3
    <3> QED
      BY <1>0, <2>3, <3>1 DEF NoSilentGap
  <2> QED
    BY <1>3, <2>2, <2>4, <2>5 DEF FeedInv
<1>6. CASE ReadPage(r)
  <2> DEFINE start == reading[r]
             next  == NextCursor(r, start)
  <2>1. /\ start # NoRead /\ cursor' = [cursor EXCEPT ![r] = next]
        /\ served' = [served EXCEPT ![r] = served[r] \cup Page(start)]
        /\ reading' = [reading EXCEPT ![r] = NoRead] /\ UNCHANGED begun
    BY <1>6 DEF ReadPage
  <2>2. /\ start \in 0..issued /\ begun[r] \in 0..issued
        /\ DOMAIN feed \subseteq 1..issued /\ PageSize \in Nat
    BY <1>0, <2>1, FeedAssumption DEF FeedType
  <2>3. /\ next \in start..issued
        /\ \A s \in DOMAIN feed : s > start /\ s <= next => s \in Page(start)
    BY <1>2, <2>2, PagesAreWhole
  <2> HIDE DEF next, start
  <2>4. next \in 0..issued /\ next # NoCursor
    BY <1>2, <2>2, <2>3 DEF NoCursor
  <2>5. FeedType'
    <3>1. /\ reading' \in [Readers -> {NoRead} \cup 0..issued]
          /\ cursor' \in [Readers -> {NoCursor} \cup 0..issued]
      BY <1>0, <2>1, <2>4 DEF FeedType
    <3> QED
      BY <1>0, <1>1, <2>1, <3>1 DEF FeedType, table
  <2>6. /\ cursor'[r] = next /\ reading'[r] = NoRead
        /\ served'[r] = served[r] \cup Page(start)
        /\ \A q \in Readers \ {r} :
             cursor'[q] = cursor[q] /\ reading'[q] = reading[q] /\ served'[q] = served[q]
    BY <1>0, <2>1 DEF FeedType
  <2>7. PageWhole'
    BY <1>0, <1>1, <2>1, <2>6 DEF PageWhole, table
  <2>8. NoSilentGap'
    <3> SUFFICES ASSUME NEW q \in Readers, cursor'[q] # NoCursor, NEW s \in written,
                        s \in (begun[q] + 1)..cursor'[q]
                 PROVE  s \in served'[q] \cup overtaken[q]
      BY <1>1, <2>1 DEF NoSilentGap, table
    <3>1. CASE q # r
      BY <1>0, <2>6, <3>1 DEF NoSilentGap
    <3>2. CASE q = r /\ s > start
      <4>1. s \in DOMAIN feed \/ s \in overtaken[r]
        BY <1>0, <2>1, <3>2 DEF PageWhole, start
      <4>2. s <= next
        BY <2>2, <2>4, <2>6, <3>2
      <4> QED
        BY <2>3, <2>6, <3>2, <4>1, <4>2
    <3>3. CASE q = r /\ ~(s > start)
      <4>1. s \in Nat /\ start \in Nat /\ s <= start /\ begun[r] + 1 <= s
        BY <1>0, <2>2, <2>4, <2>6, <3>3 DEF FeedType
      <4>2. start = IF cursor[r] = NoCursor THEN begun[r] ELSE cursor[r]
        BY <1>0, <2>1 DEF PageWhole, start
      <4>3. cursor[r] # NoCursor /\ start = cursor[r]
        BY <2>2, <4>1, <4>2
      <4>4. s \in (begun[r] + 1)..cursor[r]
        BY <2>2, <4>1, <4>3
      <4>5. s \in served[r] \cup overtaken[r]
        BY <1>0, <4>3, <4>4 DEF NoSilentGap
      <4> QED
        BY <2>6, <3>3, <4>5
    <3> QED
      BY <3>1, <3>2, <3>3
  <2> QED
    BY <1>3, <2>5, <2>7, <2>8 DEF FeedInv
<1> QED
  BY <1>4, <1>5, <1>6 DEF Poll

\* What a step of the registry does to the feed.
FeedSteps ==
  \/ (\E e : AppendEvent(e) \/ Insert(e)) \/ (\E o \in open : Commit(o) \/ Rollback(o))
  \/ Prune \/ (\E r \in Readers : Poll(r)) \/ UNCHANGED feedVars

LEMMA FeedIsShared ==
  ASSUME [RegistryNext]_registryVars
  PROVE  FeedSteps
<1>1. CASE FeedPart(FeedNext)
  BY <1>1 DEF FeedPart, FeedNext, Write, FeedSteps
<1>2. CASE BackPart(BackNext)
  BY <1>2 DEF BackPart, BackNext, WriteBeside, BackStep, BackStart, BackRead, BackEvent, BackTruncate,
              BackWrite, BackCrash, BackReset, FeedSteps
<1>3. CASE FollowPart(FollowNext)
  BY <1>3 DEF FollowPart, FollowNext, Drafted, Activated, Retired, EditLibrary, AnnounceEdit,
              AnnounceFails, FeedPrune, SyncStep, SyncRead, SyncDrop, SyncFetch, SyncPut, SyncSkip,
              SyncSave, SyncDies, Cached, SyncLeaves, FeedSteps
<1>4. CASE \/ SnapPart(SnapNext) \/ LeasePart \/ AnswerPart \/ SchemaPart \/ WorkPart(WorkNext)
           \/ CallPart \/ UNCHANGED registryVars
  BY <1>4 DEF SnapPart, LeasePart, AnswerPart, SchemaPart, WorkPart, CallPart, registryVars, feeders,
              FeedSteps
<1> QED
  BY <1>1, <1>2, <1>3, <1>4 DEF RegistryNext

LEMMA RegistryKeepsFeed ==
  ASSUME FeedInv, [RegistryNext]_registryVars
  PROVE  FeedInv'
<1>1. FeedSteps
  BY FeedIsShared
<1>2. CASE UNCHANGED feedVars
  BY <1>2 DEF feedVars, table, retained, readers, FeedInv, FeedType, GoneBelow, PageWhole, NoSilentGap
<1>3. CASE Prune
  BY <1>3, PruneReadKeeps, PruneWriteKeeps DEF Prune
<1> QED
  BY <1>1, <1>2, <1>3, AppendKeeps, InsertKeeps, CommitRowKeeps, PollKeeps DEF FeedSteps

LEMMA FeedBegins == FeedInit => FeedInv
<1> SUFFICES ASSUME FeedInit PROVE FeedInv
  OBVIOUS
<1>1. FeedType
  BY DEF FeedInit, FeedType, NotPruning, NoCursor, NoRead
<1> QED
  BY <1>1 DEF FeedInit, FeedInv, GoneBelow, PageWhole, NoSilentGap

\* A reader is told of every row it was not given, whatever is appended, committed
\* late, pruned and refused, by any number of writers, prunes and readers; but for
\* the rows a step took between two others (events.read, prune).
THEOREM NothingIsSkipped == RegistrySpec => []NoSilentGap
<1>1. RegistryInit => FeedInv
  BY FeedBegins DEF RegistryInit
<1>2. FeedInv /\ [RegistryNext]_registryVars => FeedInv'
  BY RegistryKeepsFeed
<1>3. FeedInv => NoSilentGap
  BY DEF FeedInv
<1> QED
  BY <1>1, <1>2, <1>3, PTL DEF RegistrySpec

\* Every row from the floor on is still there.
FloorIsExact == \A s \in written : s >= floor => s \in DOMAIN feed

\* A floor that was decided and not written yet is above the one there is.
Rises == \A p \in Pruners : pruning[p].at = "decided" => pruning[p].floor > floor

\* Where no two processes prune, "the floor is exact" as the code says: no writer
\* and no late commit takes a row from above it (events.prune).
THEOREM OnePrunersFloor ==
  ASSUME \A p, q \in Pruners : p = q
  PROVE  RegistrySpec => []FloorIsExact
<1> DEFINE Inv == FeedInv /\ FloorIsExact /\ Rises
<1>1. RegistryInit => Inv
  BY FeedBegins DEF RegistryInit, FeedInit, FloorIsExact, Rises, NotPruning
<1>2. ASSUME Inv, [RegistryNext]_registryVars PROVE FloorIsExact' /\ Rises'
  <2>0. FeedSteps /\ FeedType
    BY <1>2, FeedIsShared DEF FeedInv
  <2>1. CASE UNCHANGED feedVars \/ \E r \in Readers : Poll(r)
    BY <1>2, <2>1 DEF feedVars, table, retained, Poll, ReadStart, ReadRefused, ReadPage,
                      FloorIsExact, Rises
  <2>2. CASE (\E e : AppendEvent(e) \/ Insert(e)) \/ \E o \in open : Commit(o) \/ Rollback(o)
    BY <1>2, <2>2 DEF AppendEvent, Insert, Commit, Rollback, WithRow, retained, FloorIsExact, Rises
  <2>3. ASSUME NEW p \in Pruners, (\E b \in Windows : PruneLook(p, b)) \/ PruneDecide(p)
        PROVE  FloorIsExact' /\ Rises'
    <3>1. UNCHANGED <<written, feed, floor>>
      BY <2>3 DEF PruneLook, PruneDecide, table
    <3>2. pruning'[p].at = "decided" => pruning'[p].floor > floor
      BY <1>2, <2>3, PruneReadKeeps
    <3> QED
      BY <1>2, <3>1, <3>2 DEF FloorIsExact, Rises
  <2>4. ASSUME NEW p \in Pruners, PruneWrite(p) PROVE FloorIsExact' /\ Rises'
    <3> DEFINE n == pruning[p].floor
    <3>1. n > floor /\ floor' = n /\ DOMAIN feed' = Kept(n) /\ written' = written
          /\ pruning' = [pruning EXCEPT ![p] = NotPruning]
      BY <1>2, <2>4 DEF PruneWrite, Rises
    <3>2. floor \in Nat /\ n \in Nat /\ written \subseteq Nat
      BY <2>0 DEF FeedType
    <3>3. FloorIsExact'
      <4> SUFFICES ASSUME NEW s \in written, s >= n PROVE s \in DOMAIN feed
        BY <3>1 DEF FloorIsExact, Kept
      <4>1. s >= floor
        BY <3>1, <3>2
      <4> QED
        BY <1>2, <4>1 DEF FloorIsExact
    <3>4. Rises'
      BY <2>0, <3>1 DEF Rises, FeedType, NotPruning
    <3> QED
      BY <3>3, <3>4
  <2> QED
    BY <2>0, <2>1, <2>2, <2>3, <2>4 DEF FeedSteps, Prune
<1>3. Inv /\ [RegistryNext]_registryVars => Inv'
  BY <1>2, RegistryKeepsFeed
<1>4. Inv => FloorIsExact
  OBVIOUS
<1> QED
  BY <1>1, <1>3, <1>4, PTL DEF RegistrySpec
-----------------------------------------------------------------------------
(* The snapshots.                                                           *)

SnapRows ==
  {NoSnap} \cup
  [state : {"live", "expired"}, uri : Artifacts, content : Nat, delivered : BOOLEAN]

Passings ==
  [at : {"idle", "checking", "delivering", "marking"}, rows : SUBSET Snaps, moved : SUBSET Snaps]

\* A pass lists what is in the table; it sends when it has read every row and
\* marks a row of those that moved.
SnapType ==
  /\ version \in [Artifacts -> Nat] /\ snap \in [Snaps -> SnapRows]
  /\ job \in [Jobs -> Passings]
  /\ told \in [Snaps -> Nat] /\ posted \in [Snaps -> Nat] /\ trouble \in Nat
  /\ \A j \in Jobs :
       /\ job[j].at \in {"idle", "delivering", "marking"} => job[j].rows = {}
       /\ job[j].at = "idle" => job[j].moved = {}
       /\ job[j].at = "marking" => job[j].moved # {}
       /\ \A n \in job[j].rows \cup job[j].moved : snap[n].state # "none"

Said(n) == snap[n].state # "none" /\ snap[n].delivered

\* What a pass may still do: announce a row, mark it, post it, or has posted it.
Marks(r, n) == r.at = "marking" /\ n = Min(r.moved)
Tells(r, n) == n \in r.rows \cup r.moved /\ ~Marks(r, n)
PostsYet(r, n) == n \in r.rows \cup r.moved /\ r.at = "checking"
Bears(r, n) == n \in r.moved /\ r.at \in {"delivering", "marking"}

Tellers(n) == {j \in Jobs : Tells(job[j], n)}
Markers(n) == {j \in Jobs : Marks(job[j], n)}
Posters(n) == {j \in Jobs : PostsYet(job[j], n)}
Bearers(n) == {j \in Jobs : Bears(job[j], n)}

\* Each thing a pass may still say was paid for in advance, by being the first
\* or by trouble; where nobody is about to mark a row that is not marked, what
\* was said of it was paid for by trouble alone.
ToldRight(n) ==
  /\ told[n] + Cardinality(Tellers(n)) <= 1 + trouble
  /\ ~Said(n) /\ Markers(n) = {} => told[n] <= trouble
  /\ Said(n) \/ Markers(n) # {} => told[n] > 0

PostedRight(n) ==
  /\ posted[n] + Cardinality(Posters(n)) <= 1 + trouble
  /\ ~Said(n) /\ Bearers(n) = {} => posted[n] <= trouble
  /\ Posting = Jobs /\ (Said(n) \/ Bearers(n) # {}) => posted[n] > 0

SnapInv == SnapType /\ \A n \in Snaps : ToldRight(n) /\ PostedRight(n)

\* How many hold something, when fewer, one fewer or one more do.
LEMMA CountFewer ==
  ASSUME NEW A, NEW B, IsFiniteSet(A), B \subseteq A
  PROVE  Cardinality(A) \in Nat /\ Cardinality(B) \in Nat /\ Cardinality(B) <= Cardinality(A)
<1>1. IsFiniteSet(B) /\ Cardinality(B) <= Cardinality(A)
  BY FS_Subset
<1> QED
  BY <1>1, FS_CardinalityType

LEMMA CountOneFewer ==
  ASSUME NEW A, NEW B, NEW j \in A, IsFiniteSet(A), B \subseteq A \ {j}
  PROVE  Cardinality(B) + 1 <= Cardinality(A)
<1>1. IsFiniteSet(A \ {j}) /\ Cardinality(A \ {j}) = Cardinality(A) - 1
  BY FS_RemoveElement
<1>2. Cardinality(B) \in Nat /\ Cardinality(B) <= Cardinality(A \ {j})
  BY <1>1, CountFewer
<1> QED
  BY <1>1, <1>2, FS_CardinalityType

LEMMA CountOneMore ==
  ASSUME NEW A, NEW B, NEW j, IsFiniteSet(A), B \subseteq A \cup {j}
  PROVE  Cardinality(B) <= Cardinality(A) + 1
<1>1. IsFiniteSet(A \cup {j}) /\ Cardinality(A \cup {j}) <= Cardinality(A) + 1
  <2>1. IsFiniteSet(A \cup {j})
        /\ Cardinality(A \cup {j}) = IF j \in A THEN Cardinality(A) ELSE Cardinality(A) + 1
    BY FS_AddElement
  <2>2. Cardinality(A) \in Nat
    BY FS_CardinalityType
  <2> QED
    BY <2>1, <2>2
<1>2. Cardinality(B) \in Nat /\ Cardinality(A \cup {j}) \in Nat
      /\ Cardinality(B) <= Cardinality(A \cup {j})
  BY <1>1, CountFewer
<1> QED
  BY <1>1, <1>2, FS_CardinalityType

\* The row a pass turns to next is one of those it holds.
LEMMA FirstOf ==
  ASSUME NEW S, S \subseteq Nat, S # {}
  PROVE  Min(S) \in S
<1>1. \E n \in S : \A m \in S : n <= m
  BY LeastNat
<1> QED
  BY <1>1 DEF Min

LEMMA PassesCount ==
  ASSUME NEW n
  PROVE  /\ IsFiniteSet(Tellers(n)) /\ IsFiniteSet(Posters(n))
         /\ Cardinality(Tellers(n)) \in Nat /\ Cardinality(Posters(n)) \in Nat
<1>1. IsFiniteSet(Jobs) /\ Tellers(n) \subseteq Jobs /\ Posters(n) \subseteq Jobs
  BY SnapAssumption DEF Tellers, Posters
<1> QED
  BY <1>1, FS_Subset, FS_CardinalityType

\* One pass moves on: who holds a row changes by that pass alone.
LEMMA PassMoves ==
  ASSUME SnapType, NEW j \in Jobs, NEW x, job' = [job EXCEPT ![j] = x], NEW n
  PROVE  /\ Tellers(n)' = (Tellers(n) \ {j}) \cup (IF Tells(x, n) THEN {j} ELSE {})
         /\ Markers(n)' = (Markers(n) \ {j}) \cup (IF Marks(x, n) THEN {j} ELSE {})
         /\ Posters(n)' = (Posters(n) \ {j}) \cup (IF PostsYet(x, n) THEN {j} ELSE {})
         /\ Bearers(n)' = (Bearers(n) \ {j}) \cup (IF Bears(x, n) THEN {j} ELSE {})
<1>1. job'[j] = x /\ \A k \in Jobs \ {j} : job'[k] = job[k]
  BY DEF SnapType
<1>2. Tellers(n)' = (Tellers(n) \ {j}) \cup (IF Tells(x, n) THEN {j} ELSE {})
  BY <1>1 DEF Tellers
<1>3. Markers(n)' = (Markers(n) \ {j}) \cup (IF Marks(x, n) THEN {j} ELSE {})
  BY <1>1 DEF Markers
<1>4. Posters(n)' = (Posters(n) \ {j}) \cup (IF PostsYet(x, n) THEN {j} ELSE {})
  BY <1>1 DEF Posters
<1>5. Bearers(n)' = (Bearers(n) \ {j}) \cup (IF Bears(x, n) THEN {j} ELSE {})
  BY <1>1 DEF Bearers
<1> QED
  BY <1>2, <1>3, <1>4, <1>5

\* A row changes that says the same, or trouble comes: no count is any worse.
LEMMA RowsRest ==
  ASSUME SnapInv, SnapType', UNCHANGED <<job, told, posted>>, trouble <= trouble',
         \A n \in Snaps : Said(n)' = Said(n)
  PROVE  SnapInv'
<1> SUFFICES ASSUME NEW n \in Snaps PROVE (ToldRight(n) /\ PostedRight(n))'
  BY DEF SnapInv
<1>1. /\ Tellers(n)' = Tellers(n) /\ Markers(n)' = Markers(n)
      /\ Posters(n)' = Posters(n) /\ Bearers(n)' = Bearers(n)
  BY DEF Tellers, Markers, Posters, Bearers
<1>2. told[n] \in Nat /\ posted[n] \in Nat /\ trouble \in Nat /\ trouble' \in Nat
  BY DEF SnapInv, SnapType
<1>3. ToldRight(n)'
  BY <1>1, <1>2, PassesCount DEF SnapInv, ToldRight
<1>4. PostedRight(n)'
  BY <1>1, <1>2, PassesCount DEF SnapInv, PostedRight
<1> QED
  BY <1>3, <1>4
\* A pass moves on and has no more to announce than it had.  Where that is not
\* by a mark that it was about to write, it is paid for.
LEMMA TellsNoMore ==
  ASSUME SnapInv, NEW j \in Jobs, NEW x, job' = [job EXCEPT ![j] = x],
         UNCHANGED <<snap, told>>, trouble' = trouble \/ trouble' = trouble + 1,
         NEW n \in Snaps,
         Tells(x, n) => Tells(job[j], n), Marks(x, n) => Marks(job[j], n),
         trouble' = trouble => (Marks(job[j], n) => Marks(x, n))
  PROVE  ToldRight(n)'
<1>1. Tellers(n)' \subseteq Tellers(n) /\ Markers(n)' \subseteq Markers(n)
      /\ (trouble' = trouble => Markers(n)' = Markers(n))
  <2>1. SnapType
    BY DEF SnapInv
  <2> QED
    BY <2>1, PassMoves DEF Tellers, Markers
<1>2. Cardinality(Tellers(n)') <= Cardinality(Tellers(n)) /\ Cardinality(Tellers(n)') \in Nat
  BY <1>1, PassesCount, CountFewer
<1>3. told[n] \in Nat /\ trouble \in Nat /\ Said(n)' = Said(n) /\ told'[n] = told[n]
      /\ Cardinality(Tellers(n)) \in Nat
  BY PassesCount DEF SnapInv, SnapType, Said
<1>4. ToldRight(n)
  BY DEF SnapInv
<1>5. (told[n] + Cardinality(Tellers(n)) <= 1 + trouble)'
  BY <1>2, <1>3, <1>4 DEF ToldRight
<1>6. (~Said(n) /\ Markers(n) = {} => told[n] <= trouble)'
  BY <1>1, <1>3, <1>4 DEF ToldRight
<1>7. (Said(n) \/ Markers(n) # {} => told[n] > 0)'
  BY <1>1, <1>3, <1>4 DEF ToldRight
<1> QED
  BY <1>5, <1>6, <1>7 DEF ToldRight

\* The same for what it posts.
LEMMA PostsNoMore ==
  ASSUME SnapInv, NEW j \in Jobs, NEW x, job' = [job EXCEPT ![j] = x],
         UNCHANGED <<snap, posted>>, trouble' = trouble \/ trouble' = trouble + 1,
         NEW n \in Snaps,
         PostsYet(x, n) => PostsYet(job[j], n), Bears(x, n) => Bears(job[j], n),
         trouble' = trouble => (Bears(job[j], n) => Bears(x, n))
  PROVE  PostedRight(n)'
<1>1. Posters(n)' \subseteq Posters(n) /\ Bearers(n)' \subseteq Bearers(n)
      /\ (trouble' = trouble => Bearers(n)' = Bearers(n))
  <2>1. SnapType
    BY DEF SnapInv
  <2> QED
    BY <2>1, PassMoves DEF Posters, Bearers
<1>2. Cardinality(Posters(n)') <= Cardinality(Posters(n)) /\ Cardinality(Posters(n)') \in Nat
  BY <1>1, PassesCount, CountFewer
<1>3. posted[n] \in Nat /\ trouble \in Nat /\ Said(n)' = Said(n) /\ posted'[n] = posted[n]
      /\ Cardinality(Posters(n)) \in Nat
  BY PassesCount DEF SnapInv, SnapType, Said
<1>4. PostedRight(n)
  BY DEF SnapInv
<1>5. (posted[n] + Cardinality(Posters(n)) <= 1 + trouble)'
  BY <1>2, <1>3, <1>4 DEF PostedRight
<1>6. (~Said(n) /\ Bearers(n) = {} => posted[n] <= trouble)'
  BY <1>1, <1>3, <1>4 DEF PostedRight
<1>7. (Posting = Jobs /\ (Said(n) \/ Bearers(n) # {}) => posted[n] > 0)'
  BY <1>1, <1>3, <1>4 DEF PostedRight
<1> QED
  BY <1>5, <1>6, <1>7 DEF PostedRight

\* A pass ends, by itself, by an outage or by a crash.
LEMMA LeaveKeeps ==
  ASSUME SnapInv, NEW j \in Jobs, CheckRaises(j) \/ JobDone(j) \/ JobLooks(j) \/ JobCrash(j)
  PROVE  SnapInv'
<1>1. job' = [job EXCEPT ![j] = NoJob] /\ UNCHANGED <<version, snap, told, posted>>
      /\ (trouble' = trouble \/ trouble' = trouble + 1)
  BY DEF CheckRaises, JobDone, JobLooks, JobCrash, Trouble
<1>2. trouble' = trouble => job[j].at = "checking" \/ (job[j].moved = {} /\ job[j].at # "marking")
  BY DEF CheckRaises, JobDone, JobLooks, Collected, JobCrash, Trouble, SnapInv, SnapType
<1>3. SnapType'
  <2>1. NoJob \in Passings /\ NoJob.rows = {} /\ NoJob.moved = {} /\ NoJob.at = "idle"
    BY DEF NoJob, Passings
  <2>2. job' \in [Jobs -> Passings] /\ job'[j] = NoJob /\ \A k \in Jobs \ {j} : job'[k] = job[k]
    BY <1>1, <2>1 DEF SnapInv, SnapType
  <2>3. trouble' \in Nat
    BY <1>1 DEF SnapInv, SnapType
  <2> QED
    BY <1>1, <2>1, <2>2, <2>3 DEF SnapInv, SnapType
<1>4. ASSUME NEW n \in Snaps PROVE ToldRight(n)' /\ PostedRight(n)'
  <2>1. ~Tells(NoJob, n) /\ ~Marks(NoJob, n) /\ ~PostsYet(NoJob, n) /\ ~Bears(NoJob, n)
    BY DEF NoJob, Tells, Marks, PostsYet, Bears
  <2>2. trouble' = trouble => ~Marks(job[j], n) /\ ~Bears(job[j], n)
    BY <1>2 DEF Marks, Bears
  <2>3. ToldRight(n)'
    BY <1>1, <2>1, <2>2, TellsNoMore
  <2>4. PostedRight(n)'
    BY <1>1, <2>1, <2>2, PostsNoMore
  <2> QED
    BY <2>3, <2>4
<1> QED
  BY <1>3, <1>4 DEF SnapInv

\* A row is read again: it moved, or there is nothing to say of it.
LEMMA CheckKeeps ==
  ASSUME SnapInv, NEW j \in Jobs, Check(j)
  PROVE  SnapInv'
<1> DEFINE n0 == Min(job[j].rows)
<1>1. PICK m \in {job[j].moved, job[j].moved \cup {n0}} :
        job' = [job EXCEPT ![j].rows = @ \ {n0}, ![j].moved = m]
  <2>1. job' = [job EXCEPT ![j].rows = @ \ {n0}, ![j].moved = job[j].moved]
        \/ job' = [job EXCEPT ![j].rows = @ \ {n0}, ![j].moved = job[j].moved \cup {n0}]
    BY DEF Check, SnapInv, SnapType, Passings
  <2> QED
    BY <2>1
<1> DEFINE x == [job[j] EXCEPT !.rows = @ \ {n0}, !.moved = m]
<1>2. job[j] \in Passings /\ job[j].rows # {} /\ job[j].at = "checking" /\ job \in [Jobs -> Passings]
  BY DEF Check, SnapInv, SnapType
<1>3. n0 \in job[j].rows
  <2>1. job[j].rows \subseteq Nat
    BY <1>2, SnapAssumption DEF Passings
  <2> QED
    BY <1>2, <2>1, FirstOf
<1>4. UNCHANGED <<version, snap, told, posted, trouble>>
  BY DEF Check
<1>5. job' = [job EXCEPT ![j] = x]
  BY <1>1, <1>2 DEF Passings
<1>6. x \in Passings /\ x.at = "checking" /\ x.rows \cup x.moved \subseteq job[j].rows \cup job[j].moved
  BY <1>1, <1>2, <1>3 DEF Passings
<1> HIDE DEF x
<1>7. SnapType'
  <2>1. job' \in [Jobs -> Passings] /\ job'[j] = x /\ \A k \in Jobs \ {j} : job'[k] = job[k]
    BY <1>2, <1>5, <1>6
  <2> QED
    BY <1>4, <1>5, <1>6, <2>1 DEF SnapInv, SnapType
<1>8. ASSUME NEW n \in Snaps PROVE ToldRight(n)' /\ PostedRight(n)'
  <2>1. /\ Tells(x, n) => Tells(job[j], n)
        /\ PostsYet(x, n) => PostsYet(job[j], n)
        /\ ~Marks(x, n) /\ ~Marks(job[j], n) /\ ~Bears(x, n) /\ ~Bears(job[j], n)
    BY <1>2, <1>6 DEF Tells, Marks, PostsYet, Bears
  <2>2. ToldRight(n)'
    BY <1>4, <1>5, <2>1, TellsNoMore
  <2>3. PostedRight(n)'
    BY <1>4, <1>5, <2>1, PostsNoMore
  <2> QED
    BY <2>2, <2>3
<1> QED
  BY <1>7, <1>8 DEF SnapInv
\* A pass begins.  Alone, it may say what is not marked once more; beside
\* another, that is trouble.
LEMMA JobStartKeeps ==
  ASSUME SnapInv, NEW j \in Jobs, JobStart(j)
  PROVE  SnapInv'
<1> DEFINE x == [at |-> "checking", moved |-> {}, rows |-> Rows]
<1>1. job' = [job EXCEPT ![j] = x] /\ UNCHANGED <<version, snap, told, posted>>
      /\ job[j].at = "idle"
  BY DEF JobStart
<1>2. (AtWork = {} /\ trouble' = trouble) \/ trouble' = trouble + 1
  BY DEF JobStart, Trouble
<1>3. x \in Passings /\ x.at = "checking" /\ x.moved = {} /\ x.rows = Rows
  BY DEF Passings, Rows
<1> HIDE DEF x
<1>4. SnapType'
  <2>1. job' \in [Jobs -> Passings] /\ job'[j] = x /\ \A k \in Jobs \ {j} : job'[k] = job[k]
    BY <1>1, <1>3 DEF SnapInv, SnapType
  <2>2. trouble' \in Nat
    BY <1>2 DEF SnapInv, SnapType
  <2>3. \A n \in Rows : snap[n].state # "none"
    BY DEF Rows, Listed, Live
  <2> QED
    BY <1>1, <1>3, <2>1, <2>2, <2>3 DEF SnapInv, SnapType
<1>5. ASSUME NEW n \in Snaps PROVE ToldRight(n)' /\ PostedRight(n)'
  <2>1. ~Marks(x, n) /\ ~Bears(x, n) /\ (Tells(x, n) <=> n \in Rows) /\ (PostsYet(x, n) <=> n \in Rows)
    BY <1>3 DEF Marks, Bears, Tells, PostsYet
  <2>2. j \notin Tellers(n) /\ j \notin Markers(n) /\ j \notin Posters(n) /\ j \notin Bearers(n)
    BY <1>1 DEF Tellers, Tells, Markers, Marks, Posters, PostsYet, Bearers, Bears, SnapInv, SnapType
  <2>3. /\ Tellers(n)' = Tellers(n) \cup (IF n \in Rows THEN {j} ELSE {}) /\ Markers(n)' = Markers(n)
        /\ Posters(n)' = Posters(n) \cup (IF n \in Rows THEN {j} ELSE {}) /\ Bearers(n)' = Bearers(n)
    <3>1. SnapType
      BY DEF SnapInv
    <3>2. /\ Tellers(n)' = (Tellers(n) \ {j}) \cup (IF Tells(x, n) THEN {j} ELSE {})
          /\ Markers(n)' = (Markers(n) \ {j}) \cup (IF Marks(x, n) THEN {j} ELSE {})
          /\ Posters(n)' = (Posters(n) \ {j}) \cup (IF PostsYet(x, n) THEN {j} ELSE {})
          /\ Bearers(n)' = (Bearers(n) \ {j}) \cup (IF Bears(x, n) THEN {j} ELSE {})
      BY <1>1, <3>1, PassMoves
    <3>3. Tellers(n)' = Tellers(n) \cup (IF n \in Rows THEN {j} ELSE {}) /\ Markers(n)' = Markers(n)
      BY <2>1, <2>2, <3>2
    <3>4. Posters(n)' = Posters(n) \cup (IF n \in Rows THEN {j} ELSE {}) /\ Bearers(n)' = Bearers(n)
      BY <2>1, <2>2, <3>2
    <3> QED
      BY <3>3, <3>4
  <2>4. n \in Rows => ~Said(n)
    BY DEF Rows, Listed, Live, Said
  <2>5. AtWork = {} => /\ Tellers(n) = {} /\ Markers(n) = {} /\ Posters(n) = {} /\ Bearers(n) = {}
    BY DEF AtWork, Tellers, Tells, Markers, Marks, Posters, PostsYet, Bearers, Bears,
           SnapInv, SnapType
  <2>6. /\ Cardinality(Tellers(n)) \in Nat /\ Cardinality(Tellers(n)') \in Nat
        /\ Cardinality(Posters(n)) \in Nat /\ Cardinality(Posters(n)') \in Nat
        /\ Cardinality(Tellers(n)') <= Cardinality(Tellers(n)) + 1
        /\ Cardinality(Posters(n)') <= Cardinality(Posters(n)) + 1
        /\ (n \notin Rows => Tellers(n)' = Tellers(n) /\ Posters(n)' = Posters(n))
    <3>1. /\ IsFiniteSet(Tellers(n)) /\ IsFiniteSet(Posters(n))
          /\ Cardinality(Tellers(n)) \in Nat /\ Cardinality(Posters(n)) \in Nat
      BY PassesCount
    <3>2. Tellers(n)' \subseteq Tellers(n) \cup {j} /\ Posters(n)' \subseteq Posters(n) \cup {j}
          /\ (n \notin Rows => Tellers(n)' = Tellers(n) /\ Posters(n)' = Posters(n))
      BY <2>3
    <3>3. IsFiniteSet(Tellers(n) \cup {j}) /\ IsFiniteSet(Posters(n) \cup {j})
      BY <3>1, FS_AddElement
    <3> QED
      BY <3>1, <3>2, <3>3, CountOneMore, CountFewer
  <2>7. AtWork = {} => Cardinality(Tellers(n)) = 0 /\ Cardinality(Posters(n)) = 0
    BY <2>5, FS_EmptySet
  <2>8. /\ told[n] \in Nat /\ told'[n] = told[n] /\ posted[n] \in Nat /\ posted'[n] = posted[n]
        /\ trouble \in Nat /\ Said(n)' = Said(n)
    BY <1>1 DEF SnapInv, SnapType, Said
  <2>9. ToldRight(n)'
    <3>1. ToldRight(n)
      BY DEF SnapInv
    <3>2. (told[n] + Cardinality(Tellers(n)) <= 1 + trouble)'
      BY <1>2, <2>4, <2>5, <2>6, <2>7, <2>8, <3>1 DEF ToldRight
    <3> QED
      BY <1>2, <2>3, <2>8, <3>1, <3>2 DEF ToldRight
  <2>10. PostedRight(n)'
    <3>1. PostedRight(n)
      BY DEF SnapInv
    <3>2. (posted[n] + Cardinality(Posters(n)) <= 1 + trouble)'
      BY <1>2, <2>4, <2>5, <2>6, <2>7, <2>8, <3>1 DEF PostedRight
    <3> QED
      BY <1>2, <2>3, <2>8, <3>1, <3>2 DEF PostedRight
  <2> QED
    BY <2>9, <2>10
<1> QED
  BY <1>4, <1>5 DEF SnapInv

\* The digest is posted, or its answer is lost, before anything is marked.
LEMMA SendKeeps ==
  ASSUME SnapInv, NEW j \in Jobs, Send(j)
  PROVE  SnapInv'
<1>1. job[j].at = "checking" /\ job[j].rows = {} /\ UNCHANGED <<version, snap, told>>
      /\ job[j] \in Passings /\ job \in [Jobs -> Passings]
  BY DEF Send, Collected, SnapInv, SnapType
<1>2. PICK x \in {NoJob, [job[j] EXCEPT !.at = "delivering"]} :
        /\ job' = [job EXCEPT ![j] = x]
        /\ \/ /\ x.at = "delivering" /\ x.rows = {} /\ x.moved = job[j].moved
              /\ posted' = (IF j \in Posting THEN Naming(j) ELSE posted) /\ trouble' = trouble
           \/ /\ x = NoJob /\ trouble' = trouble + 1 /\ posted' \in {posted, Naming(j)}
  <2>1. CASE job' = [job EXCEPT ![j] = NoJob] /\ trouble' = trouble + 1
             /\ posted' \in {posted, Naming(j)}
    BY <2>1
  <2>2. CASE job' = [job EXCEPT ![j].at = "delivering"] /\ trouble' = trouble
             /\ posted' = (IF j \in Posting THEN Naming(j) ELSE posted)
    <3> DEFINE y == [job[j] EXCEPT !.at = "delivering"]
    <3>1. job' = [job EXCEPT ![j] = y] /\ y.at = "delivering" /\ y.rows = {} /\ y.moved = job[j].moved
      BY <1>1, <2>2 DEF Passings
    <3> QED
      BY <2>2, <3>1
  <2> QED
    BY <2>1, <2>2 DEF Send, Trouble
<1>3. x \in Passings /\ x.rows = {} /\ x.moved \subseteq job[j].moved
      /\ x.at \in {"idle", "delivering"} /\ (x.at = "idle" => x.moved = {})
  BY <1>1, <1>2 DEF Passings, NoJob
<1>4. trouble \in Nat /\ posted \in [Snaps -> Nat] /\ job[j].moved \subseteq Snaps
  BY <1>1 DEF SnapInv, SnapType, Passings
<1>5. posted' \in [Snaps -> Nat] /\ trouble' \in Nat
  <2>1. Naming(j) \in [Snaps -> Nat]
    BY <1>4 DEF Naming
  <2> QED
    BY <1>2, <1>4, <2>1
<1>6. SnapType'
  <2>1. job' \in [Jobs -> Passings] /\ job'[j] = x /\ \A k \in Jobs \ {j} : job'[k] = job[k]
    BY <1>1, <1>2, <1>3
  <2> QED
    BY <1>1, <1>3, <1>5, <2>1 DEF SnapInv, SnapType
<1>7. ASSUME NEW n \in Snaps PROVE ToldRight(n)' /\ PostedRight(n)'
  <2>1. /\ ~Marks(x, n) /\ ~Marks(job[j], n) /\ ~PostsYet(x, n) /\ ~Bears(job[j], n)
        /\ (Tells(x, n) => Tells(job[j], n))
        /\ (PostsYet(job[j], n) <=> n \in job[j].moved)
        /\ (Bears(x, n) <=> x.at = "delivering" /\ n \in job[j].moved)
    <3>1. ~Marks(x, n) /\ ~Marks(job[j], n) /\ ~PostsYet(x, n) /\ ~Bears(job[j], n)
      BY <1>1, <1>3 DEF Marks, PostsYet, Bears
    <3>2. Tells(x, n) => Tells(job[j], n)
      BY <1>1, <1>3 DEF Tells, Marks
    <3>3. PostsYet(job[j], n) <=> n \in job[j].moved
      BY <1>1 DEF PostsYet
    <3>4. x.at = "delivering" => x.moved = job[j].moved
      BY <1>2 DEF NoJob
    <3>5. Bears(x, n) <=> x.at = "delivering" /\ n \in job[j].moved
      BY <1>3, <3>4 DEF Bears
    <3> QED
      BY <3>1, <3>2, <3>3, <3>5
  <2>2. ToldRight(n)'
    BY <1>1, <1>2, <2>1, TellsNoMore
  <2>3. /\ Posters(n)' = Posters(n) \ {j}
        /\ Bearers(n)' = Bearers(n) \cup (IF Bears(x, n) THEN {j} ELSE {})
        /\ (n \in job[j].moved => j \in Posters(n)) /\ j \notin Bearers(n)
    <3>1. SnapType
      BY DEF SnapInv
    <3>2. /\ Posters(n)' = (Posters(n) \ {j}) \cup (IF PostsYet(x, n) THEN {j} ELSE {})
          /\ Bearers(n)' = (Bearers(n) \ {j}) \cup (IF Bears(x, n) THEN {j} ELSE {})
      BY <1>2, <3>1, PassMoves
    <3>3. (n \in job[j].moved => j \in Posters(n)) /\ j \notin Bearers(n)
      BY <2>1 DEF Posters, Bearers
    <3>4. Posters(n)' = Posters(n) \ {j}
      BY <2>1, <3>2
    <3> QED
      BY <3>2, <3>3, <3>4
  <2>4. /\ Cardinality(Posters(n)) \in Nat /\ Cardinality(Posters(n)') \in Nat
        /\ Cardinality(Posters(n)') <= Cardinality(Posters(n))
        /\ (n \in job[j].moved => Cardinality(Posters(n)') + 1 <= Cardinality(Posters(n)))
    <3>1. Posters(n)' \subseteq Posters(n) \ {j} /\ Posters(n)' \subseteq Posters(n)
          /\ IsFiniteSet(Posters(n))
      BY <2>3, PassesCount
    <3>2. n \in job[j].moved => j \in Posters(n)
      BY <2>3
    <3> QED
      BY <3>1, <3>2, CountOneFewer, CountFewer
  <2>5. Naming(j)[n] = IF n \in job[j].moved THEN posted[n] + 1 ELSE posted[n]
    BY <1>4 DEF Naming
  <2>6. PostedRight(n) /\ posted[n] \in Nat /\ Said(n)' = Said(n)
    BY <1>1, <1>4 DEF SnapInv, Said
  <2>7. \/ /\ trouble' = trouble
           /\ posted'[n] = IF n \in job[j].moved /\ j \in Posting THEN posted[n] + 1 ELSE posted[n]
        \/ /\ trouble' = trouble + 1 /\ posted'[n] \in {posted[n], Naming(j)[n]} /\ ~Bears(x, n)
    BY <1>2, <2>1, <2>5 DEF NoJob
  <2>8. (posted[n] + Cardinality(Posters(n)) <= 1 + trouble)'
    BY <1>4, <2>4, <2>5, <2>6, <2>7 DEF PostedRight
  <2>9. (~Said(n) /\ Bearers(n) = {} => posted[n] <= trouble)'
    <3>1. Bears(x, n) <=> trouble' = trouble /\ n \in job[j].moved
      BY <1>2, <1>4, <2>1 DEF NoJob
    <3>2. SUFFICES ASSUME ~Said(n)', Bearers(n)' = {} PROVE posted'[n] <= trouble'
      OBVIOUS
    <3>3. ~Said(n) /\ Bearers(n) = {} /\ ~Bears(x, n)
      BY <2>3, <2>6, <3>2
    <3>4. posted[n] <= trouble
      BY <2>6, <3>3 DEF PostedRight
    <3> QED
      BY <1>4, <2>5, <2>6, <2>7, <3>1, <3>3, <3>4
  <2>10. (Posting = Jobs /\ (Said(n) \/ Bearers(n) # {}) => posted[n] > 0)'
    <3>1. SUFFICES ASSUME Posting = Jobs, Said(n)' \/ Bearers(n)' # {} PROVE posted'[n] > 0
      OBVIOUS
    <3>2. posted'[n] >= posted[n]
      BY <2>5, <2>6, <2>7
    <3>3. CASE Said(n) \/ Bearers(n) # {}
      BY <2>6, <3>1, <3>2, <3>3, <1>5 DEF PostedRight
    <3>4. CASE Bears(x, n)
      BY <2>1, <2>6, <2>7, <3>1, <3>4
    <3> QED
      BY <2>3, <2>6, <3>1, <3>3, <3>4
  <2> QED
    BY <2>2, <2>8, <2>9, <2>10 DEF PostedRight
<1> QED
  BY <1>6, <1>7 DEF SnapInv
\* The event of the first row that moved is appended; its mark is yet to come.
LEMMA AnnounceKeeps ==
  ASSUME SnapInv, NEW j \in Jobs, Announce(j)
  PROVE  SnapInv'
<1> DEFINE n0 == Min(job[j].moved)
           x  == [job[j] EXCEPT !.at = "marking"]
<1>1. job[j] \in Passings /\ job \in [Jobs -> Passings] /\ job[j].rows = {}
      /\ job[j].at = "delivering" /\ job[j].moved # {}
  BY DEF Announce, SnapInv, SnapType
<1>2. n0 \in job[j].moved /\ n0 \in Snaps
  <2>1. job[j].moved \subseteq Nat /\ job[j].moved \subseteq Snaps
    BY <1>1, SnapAssumption DEF Passings
  <2> QED
    BY <1>1, <2>1, FirstOf
<1>3. job' = [job EXCEPT ![j] = x] /\ x \in Passings /\ x.at = "marking" /\ x.rows = {}
      /\ x.moved = job[j].moved
  BY <1>1 DEF Announce, Passings
<1>4. UNCHANGED <<version, snap, posted, trouble>> /\ told' = [told EXCEPT ![n0] = @ + 1]
  BY DEF Announce
<1> HIDE DEF x
<1>5. SnapType'
  <2>1. job' \in [Jobs -> Passings] /\ job'[j] = x /\ \A k \in Jobs \ {j} : job'[k] = job[k]
    BY <1>1, <1>3
  <2>2. told' \in [Snaps -> Nat]
    BY <1>2, <1>4 DEF SnapInv, SnapType
  <2> QED
    BY <1>1, <1>3, <1>4, <2>1, <2>2 DEF SnapInv, SnapType
<1>6. ASSUME NEW n \in Snaps PROVE ToldRight(n)' /\ PostedRight(n)'
  <2>1. /\ (Marks(x, n) <=> n = n0) /\ ~Marks(job[j], n) /\ ~PostsYet(x, n)
        /\ (Tells(job[j], n) <=> n \in job[j].moved) /\ (Tells(x, n) <=> n \in job[j].moved \ {n0})
        /\ (Bears(x, n) <=> n \in job[j].moved) /\ (Bears(job[j], n) <=> n \in job[j].moved)
    BY <1>1, <1>3 DEF Marks, Tells, PostsYet, Bears
  <2>2. PostedRight(n)'
    BY <1>3, <1>4, <2>1, PostsNoMore
  <2>3. /\ Tellers(n)' = (Tellers(n) \ {j}) \cup (IF Tells(x, n) THEN {j} ELSE {})
        /\ Markers(n)' = (Markers(n) \ {j}) \cup (IF Marks(x, n) THEN {j} ELSE {})
    <3>1. SnapType
      BY DEF SnapInv
    <3> QED
      BY <1>3, <3>1, PassMoves
  <2>4. j \notin Markers(n) /\ (n \in job[j].moved => j \in Tellers(n))
    BY <2>1 DEF Markers, Tellers
  <2>5. ToldRight(n) /\ told[n] \in Nat /\ trouble \in Nat /\ Said(n)' = Said(n)
        /\ told'[n] = IF n = n0 THEN told[n] + 1 ELSE told[n]
    BY <1>4 DEF SnapInv, SnapType, Said
  <2>6. CASE n = n0
    <3>1. Tellers(n)' \subseteq Tellers(n) \ {j} /\ j \in Tellers(n) /\ j \in Markers(n)'
      BY <1>2, <2>1, <2>3, <2>4, <2>6
    <3>2. /\ Cardinality(Tellers(n)) \in Nat /\ Cardinality(Tellers(n)') \in Nat
          /\ Cardinality(Tellers(n)') + 1 <= Cardinality(Tellers(n))
      <4>1. IsFiniteSet(Tellers(n)) /\ Tellers(n)' \subseteq Tellers(n)
        BY <3>1, PassesCount
      <4> QED
        BY <3>1, <4>1, CountOneFewer, CountFewer
    <3>3. (told[n] + Cardinality(Tellers(n)) <= 1 + trouble)'
      BY <1>4, <2>5, <2>6, <3>2 DEF ToldRight
    <3>4. told'[n] > 0
      BY <2>5, <2>6
    <3>5. ToldRight(n)'
      BY <3>1, <3>3, <3>4 DEF ToldRight
    <3> QED
      BY <2>2, <3>5
  <2>7. CASE n # n0
    <3>1. Tellers(n)' = Tellers(n) /\ Markers(n)' = Markers(n)
      <4>1. Tells(x, n) <=> j \in Tellers(n)
        BY <2>1, <2>7 DEF Tellers
      <4> QED
        BY <2>1, <2>3, <2>4, <2>7, <4>1
    <3>2. ToldRight(n)'
      BY <1>4, <2>5, <2>7, <3>1 DEF ToldRight
    <3> QED
      BY <2>2, <3>2
  <2> QED
    BY <2>2, <2>6, <2>7
<1> QED
  BY <1>5, <1>6 DEF SnapInv

\* The row that was announced is marked.
LEMMA MarkKeeps ==
  ASSUME SnapInv, NEW j \in Jobs, Mark(j)
  PROVE  SnapInv'
<1> DEFINE n0 == Min(job[j].moved)
           x  == [job[j] EXCEPT !.at = "delivering", !.moved = @ \ {n0}]
<1>1. job[j] \in Passings /\ job \in [Jobs -> Passings] /\ job[j].rows = {}
      /\ job[j].at = "marking" /\ job[j].moved # {}
  BY DEF Mark, SnapInv, SnapType
<1>2. n0 \in job[j].moved /\ n0 \in Snaps
  <2>1. job[j].moved \subseteq Nat /\ job[j].moved \subseteq Snaps
    BY <1>1, SnapAssumption DEF Passings
  <2> QED
    BY <1>1, <2>1, FirstOf
<1>3. job' = [job EXCEPT ![j] = x] /\ x \in Passings /\ x.at = "delivering" /\ x.rows = {}
      /\ x.moved = job[j].moved \ {n0}
  BY <1>1 DEF Mark, Passings
<1>4. UNCHANGED <<version, told, posted, trouble>>
      /\ snap' = [snap EXCEPT ![n0].delivered = TRUE]
  BY DEF Mark
<1> HIDE DEF x
<1>5. snap' \in [Snaps -> SnapRows] /\ snap'[n0].delivered /\ snap'[n0].state # "none"
      /\ (\A n \in Snaps : snap'[n].state = snap[n].state)
      /\ (\A n \in Snaps \ {n0} : snap'[n] = snap[n])
  <2>1. snap \in [Snaps -> SnapRows] /\ snap[n0].state # "none"
    BY <1>2 DEF SnapInv, SnapType
  <2>2. snap[n0] \in [state : {"live", "expired"}, uri : Artifacts, content : Nat,
                      delivered : BOOLEAN]
    BY <1>2, <2>1 DEF SnapRows, NoSnap
  <2> DEFINE r == [snap[n0] EXCEPT !.delivered = TRUE]
  <2>3. r \in SnapRows /\ r.delivered /\ r.state = snap[n0].state
    BY <2>2 DEF SnapRows
  <2>4. snap' = [snap EXCEPT ![n0] = r]
    BY <1>4
  <2> HIDE DEF r
  <2> QED
    BY <1>2, <2>1, <2>3, <2>4
<1>6. SnapType'
  <2>1. job' \in [Jobs -> Passings] /\ job'[j] = x /\ \A k \in Jobs \ {j} : job'[k] = job[k]
    BY <1>1, <1>3
  <2>2. \A k \in Jobs : \A n \in job'[k].rows \cup job'[k].moved : snap'[n].state # "none"
    <3> SUFFICES ASSUME NEW k \in Jobs, NEW n \in job'[k].rows \cup job'[k].moved
                 PROVE  snap'[n].state # "none"
      OBVIOUS
    <3>1. n \in job[k].rows \cup job[k].moved
      BY <1>3, <2>1
    <3>2. snap[n].state # "none" /\ n \in Snaps
      BY <1>1, <3>1 DEF SnapInv, SnapType, Passings
    <3> QED
      BY <1>5, <3>2
  <2> QED
    BY <1>3, <1>4, <1>5, <2>1, <2>2 DEF SnapInv, SnapType
<1>7. ASSUME NEW n \in Snaps PROVE ToldRight(n)' /\ PostedRight(n)'
  <2>1. /\ ~Marks(x, n) /\ (Marks(job[j], n) <=> n = n0)
        /\ ~PostsYet(x, n) /\ ~PostsYet(job[j], n)
        /\ (Tells(job[j], n) <=> n \in job[j].moved \ {n0})
        /\ (Tells(x, n) <=> n \in job[j].moved \ {n0})
        /\ (Bears(x, n) <=> n \in job[j].moved \ {n0}) /\ (Bears(job[j], n) <=> n \in job[j].moved)
    BY <1>1, <1>3 DEF Marks, Tells, PostsYet, Bears
  <2>2. /\ Tellers(n)' = (Tellers(n) \ {j}) \cup (IF Tells(x, n) THEN {j} ELSE {})
        /\ Markers(n)' = (Markers(n) \ {j}) \cup (IF Marks(x, n) THEN {j} ELSE {})
        /\ Posters(n)' = (Posters(n) \ {j}) \cup (IF PostsYet(x, n) THEN {j} ELSE {})
        /\ Bearers(n)' = (Bearers(n) \ {j}) \cup (IF Bears(x, n) THEN {j} ELSE {})
    <3>1. SnapType
      BY DEF SnapInv
    <3> QED
      BY <1>3, <3>1, PassMoves
  <2>3. /\ j \in Tellers(n) <=> Tells(job[j], n)
        /\ j \in Markers(n) <=> Marks(job[j], n)
        /\ j \in Posters(n) <=> PostsYet(job[j], n)
        /\ j \in Bearers(n) <=> Bears(job[j], n)
    BY DEF Tellers, Markers, Posters, Bearers
  <2>4. Tellers(n)' = Tellers(n) /\ Posters(n)' = Posters(n)
    <3>1. Tellers(n)' = Tellers(n)
      BY <2>1, <2>2, <2>3
    <3>2. Posters(n)' = Posters(n)
      BY <2>1, <2>2, <2>3
    <3> QED
      BY <3>1, <3>2
  <2>5. n = n0 => j \in Markers(n) /\ j \in Bearers(n) /\ Said(n)'
    BY <1>2, <1>5, <2>1, <2>3 DEF Said
  <2>6. n # n0 => Markers(n)' = Markers(n) /\ Bearers(n)' = Bearers(n) /\ Said(n)' = Said(n)
    <3> SUFFICES ASSUME n # n0
                 PROVE  Markers(n)' = Markers(n) /\ Bearers(n)' = Bearers(n) /\ Said(n)' = Said(n)
      OBVIOUS
    <3>1. Markers(n)' = Markers(n)
      BY <2>1, <2>2, <2>3
    <3>2. Bearers(n)' = Bearers(n)
      BY <2>1, <2>2, <2>3
    <3>3. Said(n)' = Said(n)
      BY <1>5 DEF Said
    <3> QED
      BY <3>1, <3>2, <3>3
  <2>7. ToldRight(n) /\ PostedRight(n) /\ told' = told /\ posted' = posted /\ trouble' = trouble
    BY <1>4 DEF SnapInv
  <2>8. ToldRight(n)'
    BY <2>4, <2>5, <2>6, <2>7 DEF ToldRight
  <2>9. PostedRight(n)'
    BY <2>4, <2>5, <2>6, <2>7 DEF PostedRight
  <2> QED
    BY <2>8, <2>9
<1> QED
  BY <1>6, <1>7 DEF SnapInv

\* A snapshot is taken or expires, an artifact changes or is out of reach.
LEMMA WorldKeeps ==
  ASSUME SnapInv,
         \/ \E n \in Snaps : Take(n) \/ Expire(n)
         \/ \E a \in Artifacts : \/ \E v \in 1..MaxVersion : Edit(a, v)
                                 \/ \E how \in Reaches : Turn(a, how)
  PROVE  SnapInv'
<1>1. CASE \E n \in Snaps : Take(n)
  <2>1. PICK n \in Snaps : Take(n)
    BY <1>1
  <2> DEFINE r == [state |-> "live", uri |-> UriOf[n], content |-> Token(UriOf[n]),
                   delivered |-> FALSE]
  <2>2. snap[n] = NoSnap /\ snap' = [snap EXCEPT ![n] = r]
        /\ UNCHANGED <<version, job, told, posted, trouble>>
    BY <2>1 DEF Take
  <2>3. r \in SnapRows
    BY SnapAssumption DEF SnapInv, SnapType, SnapRows, Token, Unread
  <2>4. r.state = "live" /\ ~r.delivered /\ snap[n].state = "none"
    BY <2>2 DEF NoSnap
  <2> HIDE DEF r
  <2>5. snap' \in [Snaps -> SnapRows] /\ snap'[n] = r /\ \A m \in Snaps \ {n} : snap'[m] = snap[m]
    BY <2>2, <2>3 DEF SnapInv, SnapType
  <2>6. SnapType'
    <3>1. \A m \in Snaps : snap[m].state # "none" => snap'[m].state # "none"
      BY <2>4, <2>5
    <3>2. \A k \in Jobs : job[k].rows \cup job[k].moved \subseteq Snaps
      BY DEF SnapInv, SnapType, Passings
    <3> QED
      BY <2>2, <2>5, <3>1, <3>2 DEF SnapInv, SnapType
  <2>7. \A m \in Snaps : Said(m)' = Said(m)
    BY <2>4, <2>5 DEF Said
  <2> QED
    BY <2>2, <2>6, <2>7, RowsRest DEF SnapInv, SnapType
<1>2. CASE \E n \in Snaps : Expire(n)
  <2>1. PICK n \in Snaps : Expire(n)
    BY <1>2
  <2>2. snap[n].state = "live" /\ snap' = [snap EXCEPT ![n].state = "expired"]
        /\ UNCHANGED <<version, job, told, posted, trouble>>
    BY <2>1 DEF Expire, Live
  <2>3. snap \in [Snaps -> SnapRows] /\ snap[n] \in [state : {"live", "expired"}, uri : Artifacts,
                                                     content : Nat, delivered : BOOLEAN]
    BY <2>2 DEF SnapInv, SnapType, SnapRows, NoSnap
  <2> DEFINE r == [snap[n] EXCEPT !.state = "expired"]
  <2>4. r \in SnapRows /\ r.state = "expired" /\ r.delivered = snap[n].delivered
    BY <2>3 DEF SnapRows
  <2>5. snap' = [snap EXCEPT ![n] = r]
    BY <2>2
  <2> HIDE DEF r
  <2>6. snap' \in [Snaps -> SnapRows] /\ snap'[n] = r /\ \A m \in Snaps \ {n} : snap'[m] = snap[m]
    BY <2>3, <2>4, <2>5
  <2>7. SnapType'
    <3>1. \A m \in Snaps : snap[m].state # "none" => snap'[m].state # "none"
      BY <2>4, <2>6
    <3>2. \A k \in Jobs : job[k].rows \cup job[k].moved \subseteq Snaps
      BY DEF SnapInv, SnapType, Passings
    <3> QED
      BY <2>2, <2>6, <3>1, <3>2 DEF SnapInv, SnapType
  <2>8. \A m \in Snaps : Said(m)' = Said(m)
    BY <2>2, <2>4, <2>6 DEF Said
  <2> QED
    BY <2>2, <2>7, <2>8, RowsRest DEF SnapInv, SnapType
<1>3. CASE \E a \in Artifacts : \/ \E v \in 1..MaxVersion : Edit(a, v)
                                \/ \E how \in Reaches : Turn(a, how)
  <2>1. UNCHANGED <<snap, job, told, posted>> /\ trouble' \in {trouble, trouble + 1}
    BY <1>3 DEF Edit, Turn, Trouble
  <2>2. version' \in [Artifacts -> Nat]
    BY <1>3 DEF Edit, Turn, SnapInv, SnapType
  <2>3. trouble' \in Nat /\ trouble <= trouble'
    BY <2>1 DEF SnapInv, SnapType
  <2>4. SnapType'
    BY <2>1, <2>2, <2>3 DEF SnapInv, SnapType
  <2>5. \A m \in Snaps : Said(m)' = Said(m)
    BY <2>1 DEF Said
  <2> QED
    BY <2>1, <2>3, <2>4, <2>5, RowsRest
<1> QED
  BY <1>1, <1>2, <1>3

LEMMA SnapBegins == SnapInit => SnapInv
<1> SUFFICES ASSUME SnapInit PROVE SnapInv
  OBVIOUS
<1>1. SnapType
  <2>1. NoJob \in Passings /\ NoJob.rows = {} /\ NoJob.moved = {} /\ NoJob.at = "idle"
    BY DEF NoJob, Passings
  <2> QED
    BY <2>1 DEF SnapInit, SnapType, SnapRows
<1>2. ASSUME NEW n \in Snaps PROVE ToldRight(n) /\ PostedRight(n)
  <2>1. Tellers(n) = {} /\ Markers(n) = {} /\ Posters(n) = {} /\ Bearers(n) = {}
    BY DEF SnapInit, NoJob, Tellers, Tells, Markers, Marks, Posters, PostsYet, Bearers, Bears
  <2>2. ~Said(n) /\ told[n] = 0 /\ posted[n] = 0 /\ trouble = 0
    BY DEF SnapInit, Said, NoSnap
  <2> QED
    BY <2>1, <2>2, FS_EmptySet DEF ToldRight, PostedRight
<1> QED
  BY <1>1, <1>2 DEF SnapInv

LEMMA RegistryKeepsSnaps ==
  ASSUME SnapInv, [RegistryNext]_registryVars
  PROVE  SnapInv'
<1>1. UNCHANGED snapVars \/ SnapNext
  BY DEF RegistryNext, registryVars, FeedPart, BackPart, FollowPart, SnapPart, LeasePart,
         AnswerPart, SchemaPart, WorkPart, CallPart
<1>2. CASE UNCHANGED snapVars
  <2>1. UNCHANGED <<version, snap, job, told, posted, trouble>>
    BY <1>2 DEF snapVars
  <2>2. SnapType' /\ trouble <= trouble' /\ \A n \in Snaps : Said(n)' = Said(n)
    BY <2>1 DEF SnapInv, SnapType, Said
  <2> QED
    BY <2>1, <2>2, RowsRest
<1>3. CASE SnapNext
  BY <1>3, WorldKeeps, JobStartKeeps, CheckKeeps, LeaveKeeps, SendKeeps, AnnounceKeeps, MarkKeeps
  DEF SnapNext, JobStep
<1> QED
  BY <1>1, <1>2, <1>3

\* A movement is announced once, and posted once, but for what a crash, a lost
\* answer or a pass beside another makes it say again; and nothing is marked as
\* delivered that was not (divergence.deliver, cmd_digest).
THEOREM MovementsAreSaidOnce == RegistrySpec => []MovementSaidOnce
<1>1. RegistryInit => SnapInv
  BY SnapBegins DEF RegistryInit
<1>2. SnapInv /\ [RegistryNext]_registryVars => SnapInv'
  BY RegistryKeepsSnaps
<1>3. SnapInv => MovementSaidOnce
  <2> SUFFICES ASSUME SnapInv, NEW n \in Snaps
               PROVE  /\ told[n] <= 1 + trouble /\ posted[n] <= 1 + trouble
                      /\ snap[n].state # "none" /\ snap[n].delivered
                           => told[n] > 0 /\ (Posting = Jobs => posted[n] > 0)
    BY DEF MovementSaidOnce
  <2>1. ToldRight(n) /\ PostedRight(n) /\ told[n] \in Nat /\ posted[n] \in Nat /\ trouble \in Nat
    BY DEF SnapInv, SnapType
  <2> QED
    BY <2>1, PassesCount DEF ToldRight, PostedRight, Said
<1> QED
  BY <1>1, <1>2, <1>3, PTL DEF RegistrySpec

-----------------------------------------------------------------------------
(* The work table.                                                          *)

WorkRows == [status : {"open", "done"}, waits : SUBSET Items, stamp : Nat]
RowTables == UNION {[S -> WorkRows] : S \in SUBSET Items}

\* What a transaction keeps, by how far it got.
Begun     == [at : {"new", "joined", "filed"}, row : Items, locked : SUBSET Items, wrote : RowTables]
Placed    == [at : {"placed"}, row : Items, waits : SUBSET Items, locked : SUBSET Items,
              wrote : RowTables]
Mutating  == [at : {"chosen", "cascading", "writing"}, why : {"finish", "touch", "close"},
              row : Items, seen : WorkRows, locked : SUBSET Items, wrote : RowTables]
Closing   == [at : {"closing"}, todo : SUBSET Items, locked : SUBSET Items, wrote : RowTables]
Rewriting == [at : {"overwriting"}, row : Items, seen : WorkRows, todo : SUBSET Items,
              locked : SUBSET Items, wrote : RowTables]
Swept     == [at : {"swept"}, row : Items, wrote : RowTables]

Hauls == {NoTrans, Failed} \cup Begun \cup Placed \cup Mutating \cup Closing \cup Rewriting \cup Swept

WorkType ==
  /\ stored \in RowTables /\ engine \in {"sqlite", "postgres"} /\ trans \in [Hands -> Hauls]

\* A row that was read beside another's write of it.
Astray(r) == engine = "postgres" /\ r \in crossed

\* A row as a transaction leaves it: done, or as open as it was and waiting for
\* all that it waited for.
LeftWhole(r, x) ==
  \/ x.status = "done"
  \/ x.status = stored[r].status /\ (stored[r].waits \subseteq x.waits \/ Astray(r))

\* An open transaction writes what it locked, and of that no row it does not know.
Works(t) == t.at \notin {"none", "swept", "failed"}
Grasps(t) ==
  Works(t) => /\ DOMAIN t.wrote \subseteq t.locked
              /\ \A r \in DOMAIN t.wrote :
                   \/ r \in DOMAIN stored /\ LeftWhole(r, t.wrote[r])
                   \/ t.at = "filed" /\ r = t.row
              /\ t.at \in {"new", "placed", "chosen"} => DOMAIN t.wrote = {}

\* What one of a change of a row has read; what one of a new row is sure of.
Changes(t) ==
  /\ t.at = "chosen" => t.row \in t.locked \cap DOMAIN stored /\ t.seen = stored[t.row]
  /\ t.at \in {"closing", "overwriting"} => t.todo \subseteq DOMAIN stored
  /\ t.at = "overwriting" => t.row \in DOMAIN stored

Adds(t) ==
  t.at \in Creating =>
    /\ t.row \notin DOMAIN stored
    /\ t.at = "placed" => ItemParent[t.row] # NoParent
    /\ t.at # "new" /\ ItemParent[t.row] # NoParent => ItemParent[t.row] \in DOMAIN stored
    /\ t.at = "placed" => \/ stored[ItemParent[t.row]].waits \subseteq t.waits
                          \/ Astray(ItemParent[t.row])
    /\ t.at \in {"joined", "filed"} /\ ItemParent[t.row] # NoParent
         => ItemParent[t.row] \in DOMAIN t.wrote /\ t.row \in t.wrote[ItemParent[t.row]].waits

\* Two open transactions hold different rows, and there are two on Postgres alone.
Beside(t, u) ==
  Works(t) /\ Works(u) =>
    /\ engine # "sqlite" /\ t.locked \cap u.locked = {}
    /\ t.at \in Creating /\ u.at \in Creating => t.row # u.row

HandsApart == \A g, h \in Hands : g # h => Beside(trans[g], trans[h])

ParentsThere == \A r \in DOMAIN stored : ItemParent[r] \in DOMAIN stored \cup {NoParent}

WorkInv ==
  /\ WorkType /\ HandsApart /\ NoneFailsTheRace /\ ParentsThere /\ ChildrenHoldTheirParent
  /\ \A h \in Hands : Grasps(trans[h]) /\ Changes(trans[h]) /\ Adds(trans[h])

-----------------------------------------------------------------------------
LEMMA OverTables ==
  ASSUME NEW f \in RowTables, NEW g \in RowTables
  PROVE  /\ Over(f, g) \in RowTables /\ DOMAIN Over(f, g) = DOMAIN f \cup DOMAIN g
         /\ \A r \in DOMAIN f : Over(f, g)[r] = f[r]
         /\ \A r \in DOMAIN g \ DOMAIN f : Over(f, g)[r] = g[r]
<1>1. PICK S \in SUBSET Items : f \in [S -> WorkRows]
  BY DEF RowTables
<1>2. PICK U \in SUBSET Items : g \in [U -> WorkRows]
  BY DEF RowTables
<1>3. Over(f, g) \in [S \cup U -> WorkRows]
  BY <1>1, <1>2 DEF Over
<1>4. Over(f, g) \in RowTables
  BY <1>3 DEF RowTables
<1> QED
  BY <1>4 DEF Over

LEMMA RowsOf ==
  ASSUME NEW f \in RowTables
  PROVE  DOMAIN f \subseteq Items /\ \A r \in DOMAIN f : f[r] \in WorkRows
  BY DEF RowTables

LEMMA OneRow ==
  ASSUME NEW a \in Items, NEW v \in WorkRows
  PROVE  /\ [r \in {a} |-> v] \in RowTables /\ DOMAIN [r \in {a} |-> v] = {a}
         /\ [r \in {a} |-> v][a] = v
<1>1. [r \in {a} |-> v] \in [{a} -> WorkRows] /\ {a} \in SUBSET Items
  OBVIOUS
<1>2. [r \in {a} |-> v] \in RowTables
  BY <1>1 DEF RowTables
<1> QED
  BY <1>2

LEMMA NothingWritten == Unwritten \in RowTables /\ DOMAIN Unwritten = {}
<1>1. Unwritten \in [{} -> WorkRows] /\ DOMAIN Unwritten = {}
  BY DEF Unwritten
<1> QED
  BY <1>1 DEF RowTables

LEMMA DoneRow ==
  ASSUME NEW x \in WorkRows
  PROVE  Done(x) \in WorkRows /\ Done(x).status = "done"
<1> DEFINE n == x.stamp + 1
<1>1. n \in Nat
  BY DEF WorkRows
<1>2. Done(x) = [x EXCEPT !.status = "done", !.stamp = n]
  BY DEF Done
<1> HIDE DEF n
<1> QED
  BY <1>1, <1>2 DEF WorkRows

\* Where a transaction is tells what it keeps.
LEMMA HaulShapes ==
  ASSUME NEW t \in Hauls
  PROVE  /\ t.at \in {"new", "joined", "filed"} => t \in Begun
         /\ t.at = "placed" => t \in Placed
         /\ t.at \in {"chosen", "cascading", "writing"} => t \in Mutating
         /\ t.at = "closing" => t \in Closing
         /\ t.at = "overwriting" => t \in Rewriting
         /\ t.at = "swept" => t \in Swept
         /\ Works(t) => t.wrote \in RowTables /\ t.locked \subseteq Items
  BY DEF Hauls, NoTrans, Failed, Begun, Placed, Mutating, Closing, Rewriting, Swept, Works

\* A transaction goes on without writing to the table.
LEMMA HandMoves ==
  ASSUME WorkInv, NEW h \in Hands, NEW x \in Hauls, trans' = [trans EXCEPT ![h] = x],
         UNCHANGED <<engine, stored, crossed>>,
         x.at # "failed", Grasps(x), Changes(x), Adds(x),
         \A g \in Hands \ {h} : Beside(trans[g], x)
  PROVE  WorkInv'
<1>1. trans' \in [Hands -> Hauls] /\ trans'[h] = x /\ \A g \in Hands \ {h} : trans'[g] = trans[g]
  BY DEF WorkInv, WorkType
<1>2. WorkType' /\ ParentsThere'
  BY <1>1 DEF WorkInv, WorkType, ParentsThere
<1>3. ChildrenHoldTheirParent'
  BY DEF WorkInv, ChildrenHoldTheirParent, IsDone
<1>4. NoneFailsTheRace'
  BY <1>1 DEF WorkInv, NoneFailsTheRace
<1>5. \A r, y : LeftWhole(r, y)' <=> LeftWhole(r, y)
  BY DEF LeftWhole, Astray
<1>6. ASSUME NEW g \in Hands PROVE (Grasps(trans[g]) /\ Changes(trans[g]) /\ Adds(trans[g]))'
  <2> DEFINE t == trans'[g]
  <2>1. Grasps(t) /\ Changes(t) /\ Adds(t)
    BY <1>1 DEF WorkInv
  <2>2. Grasps(trans[g])'
    BY <1>5, <2>1 DEF Grasps, Works
  <2>3. Changes(trans[g])'
    BY <2>1 DEF Changes
  <2>4. Adds(trans[g])'
    BY <2>1 DEF Adds, Astray
  <2> QED
    BY <2>2, <2>3, <2>4
<1>7. HandsApart'
  <2> SUFFICES ASSUME NEW g \in Hands, NEW k \in Hands, g # k
               PROVE  Beside(trans[g], trans[k])'
    BY DEF HandsApart
  <2>1. Beside(trans'[g], trans'[k])
    <3>1. CASE g = h
      BY <1>1, <3>1 DEF Beside
    <3>2. CASE k = h
      BY <1>1, <3>2
    <3>3. CASE g # h /\ k # h
      BY <1>1, <3>3 DEF WorkInv, HandsApart
    <3> QED
      BY <3>1, <3>2, <3>3
  <2> QED
    BY <2>1 DEF Beside, Works
<1> QED
  BY <1>2, <1>3, <1>4, <1>6, <1>7 DEF WorkInv

\* It takes another lock, on a row that none holds, or goes on with those it has.
LEMMA TakesLock ==
  ASSUME WorkInv, NEW h \in Hands, Busy(h), NEW x, NEW r, Unlocked(h, r),
         x.locked \subseteq trans[h].locked \cup {r},
         x.at \in Creating => trans[h].at \in Creating /\ x.row = trans[h].row
  PROVE  \A g \in Hands \ {h} : Beside(trans[g], x)
<1> SUFFICES ASSUME NEW g \in Hands \ {h}, Works(trans[g]), Works(x)
             PROVE  /\ engine # "sqlite" /\ trans[g].locked \cap x.locked = {}
                    /\ trans[g].at \in Creating /\ x.at \in Creating => trans[g].row # x.row
  BY DEF Beside
<1>1. Beside(trans[g], trans[h]) /\ Works(trans[h])
  BY DEF WorkInv, HandsApart, Busy, Works
<1>2. r \notin trans[g].locked
  BY DEF Unlocked, Busy, Works
<1> QED
  BY <1>1, <1>2 DEF Beside

LEMMA GoesOn ==
  ASSUME WorkInv, NEW h \in Hands, Busy(h), NEW x,
         x.locked \subseteq trans[h].locked,
         x.at \in Creating => trans[h].at \in Creating /\ x.row = trans[h].row
  PROVE  \A g \in Hands \ {h} : Beside(trans[g], x)
<1> SUFFICES ASSUME NEW g \in Hands \ {h}, Works(trans[g]), Works(x)
             PROVE  /\ engine # "sqlite" /\ trans[g].locked \cap x.locked = {}
                    /\ trans[g].at \in Creating /\ x.at \in Creating => trans[g].row # x.row
  BY DEF Beside
<1>1. Beside(trans[g], trans[h]) /\ Works(trans[h])
  BY DEF WorkInv, HandsApart, Busy, Works
<1> QED
  BY <1>1 DEF Beside

\* A connection is done with its transaction, or loses it.
LEMMA LetsGo ==
  ASSUME WorkInv, NEW h \in Hands, trans' = [trans EXCEPT ![h] = NoTrans],
         UNCHANGED <<engine, stored, crossed>>
  PROVE  WorkInv'
<1>1. NoTrans \in Hauls /\ NoTrans.at = "none"
  BY DEF Hauls, NoTrans
<1>2. Grasps(NoTrans) /\ Changes(NoTrans) /\ Adds(NoTrans) /\ \A g : Beside(trans[g], NoTrans)
  BY <1>1 DEF Grasps, Works, Changes, Adds, Creating, Beside
<1> QED
  BY <1>1, <1>2, HandMoves

\* A row is read under a lock.
LEMMA MutateReadKeeps ==
  ASSUME WorkInv, NEW h \in Hands, NEW r, NEW why \in {"finish", "touch", "close"},
         MutateRead(h, r, why)
  PROVE  WorkInv'
<1> DEFINE x == [at |-> "chosen", why |-> why, row |-> r, seen |-> stored[r], locked |-> {r},
                 wrote |-> Unwritten]
<1>1. r \in DOMAIN stored /\ trans' = [trans EXCEPT ![h] = x] /\ UNCHANGED <<engine, stored, crossed>>
  BY DEF MutateRead, Only, LockedFirst
<1>2. r \in Items /\ stored[r] \in WorkRows
  BY <1>1, RowsOf DEF WorkInv, WorkType
<1>3. x \in Hauls
  <2>1. x \in Mutating
    BY <1>2, NothingWritten DEF Mutating
  <2> QED
    BY <2>1 DEF Hauls
<1>4. Grasps(x)
  BY NothingWritten DEF Grasps
<1>5. Changes(x) /\ Adds(x)
  BY <1>1 DEF Changes, Adds, Creating
<1>6. \A g \in Hands \ {h} : Beside(trans[g], x)
  BY DEF MutateRead, Alone, Unlocked, Busy, Works, Beside, Creating
<1>7. x.at # "failed"
  OBVIOUS
<1> HIDE DEF x
<1> QED
  BY <1>1, <1>3, <1>4, <1>5, <1>6, <1>7, HandMoves

\* The row is written as it was read: nobody wrote it since.
LEMMA MutateWriteKeeps ==
  ASSUME WorkInv, NEW h \in Hands, MutateWrite(h)
  PROVE  WorkInv'
<1> DEFINE t == trans[h]
           v == IF t.why = "touch" THEN [t.seen EXCEPT !.stamp = @ + 1] ELSE Done(t.seen)
           a == IF t.why = "finish" THEN "cascading" ELSE "writing"
           x == [t EXCEPT !.at = a, !.locked = @ \cup {t.row}, !.wrote = [r \in {t.row} |-> v]]
<1>1. t.at = "chosen" /\ t \in Mutating /\ Unlocked(h, t.row)
  BY HaulShapes DEF MutateWrite, WorkInv, WorkType
<1>2. t.row \in DOMAIN stored /\ t.seen = stored[t.row] /\ t.seen \in WorkRows /\ t.row \in Items
      /\ t.row \in t.locked /\ t.locked \subseteq Items
  BY <1>1 DEF WorkInv, Changes, Mutating
<1>3. trans' = [trans EXCEPT ![h] = x] /\ UNCHANGED <<engine, stored, crossed>>
  BY <1>2 DEF MutateWrite, Only
<1>4. v \in WorkRows /\ LeftWhole(t.row, v)
  <2>1. CASE t.why = "touch"
    <3>1. v \in WorkRows /\ v.status = t.seen.status /\ v.waits = t.seen.waits
      BY <1>2, <2>1 DEF WorkRows
    <3> QED
      BY <1>2, <3>1 DEF LeftWhole
  <2>2. CASE t.why # "touch"
    <3>1. v \in WorkRows /\ v.status = "done"
      BY <1>2, <2>2, DoneRow
    <3> QED
      BY <3>1 DEF LeftWhole
  <2> QED
    BY <2>1, <2>2
<1> HIDE DEF v
<1>5. [r \in {t.row} |-> v] \in RowTables /\ DOMAIN [r \in {t.row} |-> v] = {t.row}
      /\ [r \in {t.row} |-> v][t.row] = v
  BY <1>2, <1>4, OneRow
<1>6. a \in {"cascading", "writing"}
  OBVIOUS
<1> HIDE DEF a
<1>7. x \in Mutating /\ x.at = a /\ x.locked = t.locked \cup {t.row} /\ x.wrote = [r \in {t.row} |-> v]
      /\ x.row = t.row
  BY <1>1, <1>2, <1>5, <1>6 DEF Mutating
<1> HIDE DEF x
<1>8. x \in Hauls /\ x.at # "failed"
  BY <1>6, <1>7 DEF Hauls
<1>9. Grasps(x)
  BY <1>2, <1>4, <1>5, <1>6, <1>7 DEF Grasps
<1>10. Changes(x) /\ Adds(x)
  BY <1>6, <1>7 DEF Changes, Adds, Creating
<1>11. \A g \in Hands \ {h} : Beside(trans[g], x)
  <2>1. Busy(h) /\ x.locked \subseteq t.locked \cup {t.row} /\ x.at \notin Creating
    BY <1>1, <1>6, <1>7 DEF Busy, Creating
  <2> QED
    BY <1>1, <2>1, TakesLock
<1> QED
  BY <1>3, <1>8, <1>9, <1>10, <1>11, HandMoves

\* What a transaction sees: the rows that are committed, and as it wrote them.
LEMMA SeesTable ==
  ASSUME WorkInv, NEW h \in Hands, Busy(h)
  PROVE  /\ Sees(h) \in RowTables /\ trans[h].wrote \in RowTables
         /\ DOMAIN Sees(h) = DOMAIN trans[h].wrote \cup DOMAIN stored
         /\ trans[h].at # "filed" => DOMAIN Sees(h) = DOMAIN stored
         /\ \A r \in DOMAIN trans[h].wrote : Sees(h)[r] = trans[h].wrote[r]
         /\ \A r \in DOMAIN stored \ DOMAIN trans[h].wrote : Sees(h)[r] = stored[r]
<1>1. Works(trans[h]) /\ trans[h].wrote \in RowTables /\ stored \in RowTables
  BY HaulShapes DEF WorkInv, WorkType, Busy, Works
<1>2. trans[h].at # "filed" => DOMAIN trans[h].wrote \subseteq DOMAIN stored
  BY <1>1 DEF WorkInv, Grasps
<1> DEFINE w == trans[h].wrote
<1>3. Sees(h) = Over(w, stored)
  BY DEF Sees
<1> HIDE DEF w
<1>4. /\ Over(w, stored) \in RowTables /\ DOMAIN Over(w, stored) = DOMAIN w \cup DOMAIN stored
      /\ \A r \in DOMAIN w : Over(w, stored)[r] = w[r]
      /\ \A r \in DOMAIN stored \ DOMAIN w : Over(w, stored)[r] = stored[r]
  <2>1. w \in RowTables
    BY <1>1 DEF w
  <2> QED
    BY <1>1, <2>1, OverTables
<1>5. trans[h].at # "filed" => DOMAIN w \cup DOMAIN stored = DOMAIN stored
  BY <1>2 DEF w
<1> QED
  BY <1>1, <1>3, <1>4, <1>5 DEF w

\* Every row is read, and those that are to be closed.
LEMMA CascadeReadKeeps ==
  ASSUME WorkInv, NEW h \in Hands, CascadeRead(h)
  PROVE  WorkInv'
<1> DEFINE t == trans[h]
           c == FinishedRuns(Sees(h))
           x == [at |-> "closing", todo |-> c, locked |-> t.locked, wrote |-> t.wrote]
<1>1. t.at = "cascading" /\ t \in Mutating /\ Busy(h)
  BY HaulShapes DEF CascadeRead, WorkInv, WorkType, Busy
<1>2. trans' = [trans EXCEPT ![h] = x] /\ UNCHANGED <<engine, stored, crossed>>
  BY DEF CascadeRead, Only
<1>3. c \subseteq DOMAIN stored /\ c \subseteq Items
  BY <1>1, SeesTable, WorkTableAssumption DEF FinishedRuns
<1> HIDE DEF c
<1>4. x \in Hauls
  <2>1. x \in Closing
    BY <1>1, <1>3 DEF Closing, Mutating
  <2> QED
    BY <2>1 DEF Hauls
<1>5. Grasps(x)
  BY <1>1 DEF WorkInv, Grasps, Works
<1>6. Changes(x) /\ Adds(x) /\ x.at # "failed"
  BY <1>3 DEF Changes, Adds, Creating
<1>7. \A g \in Hands \ {h} : Beside(trans[g], x)
  BY <1>1, GoesOn DEF Creating
<1> HIDE DEF x
<1> QED
  BY <1>2, <1>4, <1>5, <1>6, <1>7, HandMoves

\* A container is read, under no lock.
LEMMA CloseReadKeeps ==
  ASSUME WorkInv, NEW h \in Hands, CloseRead(h)
  PROVE  WorkInv'
<1> DEFINE t == trans[h]
<1>1. t.at = "closing" /\ t \in Closing /\ Busy(h)
  BY HaulShapes DEF CloseRead, WorkInv, WorkType, Busy
<1>2. PICK c \in t.todo :
        trans' = [trans EXCEPT ![h] = [at |-> "overwriting", row |-> c, seen |-> Sees(h)[c],
                                       todo |-> t.todo \ {c}, locked |-> t.locked, wrote |-> t.wrote]]
  BY DEF CloseRead, Only
<1> DEFINE s == Sees(h)[c]
           x == [at |-> "overwriting", row |-> c, seen |-> s, todo |-> t.todo \ {c},
                 locked |-> t.locked, wrote |-> t.wrote]
<1>3. UNCHANGED <<engine, stored, crossed>> /\ t.todo \subseteq DOMAIN stored
  BY <1>1 DEF CloseRead, WorkInv, Changes
<1>4. s \in WorkRows /\ c \in Items
  <2>1. Sees(h) \in RowTables /\ c \in DOMAIN Sees(h)
    BY <1>1, <1>2, <1>3, SeesTable
  <2> QED
    BY <2>1, RowsOf
<1>5. trans' = [trans EXCEPT ![h] = x]
  BY <1>2
<1> HIDE DEF s
<1>6. x \in Hauls
  <2>1. x \in Rewriting
    BY <1>1, <1>4 DEF Closing, Rewriting
  <2> QED
    BY <2>1 DEF Hauls
<1>7. Grasps(x)
  BY <1>1 DEF WorkInv, Grasps, Works
<1>8. Changes(x) /\ Adds(x) /\ x.at # "failed"
  BY <1>2, <1>3 DEF Changes, Adds, Creating
<1>9. \A g \in Hands \ {h} : Beside(trans[g], x)
  BY <1>1, GoesOn DEF Creating
<1> HIDE DEF x
<1> QED
  BY <1>3, <1>5, <1>6, <1>7, <1>8, <1>9, HandMoves

\* It is written as done, whatever it has become.
LEMMA CloseWriteKeeps ==
  ASSUME WorkInv, NEW h \in Hands, CloseWrite(h)
  PROVE  WorkInv'
<1> DEFINE t == trans[h]
           v == Done(t.seen)
           w == Over([r \in {t.row} |-> v], t.wrote)
           x == [at |-> "closing", todo |-> t.todo, locked |-> t.locked \cup {t.row}, wrote |-> w]
<1>1. t.at = "overwriting" /\ t \in Rewriting /\ Busy(h) /\ Unlocked(h, t.row)
  BY HaulShapes DEF CloseWrite, WorkInv, WorkType, Busy
<1>2. trans' = [trans EXCEPT ![h] = x] /\ UNCHANGED <<engine, stored, crossed>>
  BY DEF CloseWrite, Only
<1>3. v \in WorkRows /\ v.status = "done" /\ t.row \in Items
  BY <1>1, DoneRow DEF Rewriting
<1>4. t.row \in DOMAIN stored /\ t.todo \subseteq DOMAIN stored
  BY <1>1 DEF WorkInv, Changes
<1> HIDE DEF v
<1>5. /\ w \in RowTables /\ DOMAIN w = {t.row} \cup DOMAIN t.wrote /\ w[t.row] = v
      /\ \A r \in DOMAIN t.wrote \ {t.row} : w[r] = t.wrote[r]
  <2>1. /\ [r \in {t.row} |-> v] \in RowTables /\ DOMAIN [r \in {t.row} |-> v] = {t.row}
        /\ [r \in {t.row} |-> v][t.row] = v
    BY <1>3, OneRow
  <2>2. t.wrote \in RowTables
    BY <1>1 DEF Rewriting
  <2> QED
    BY <2>1, <2>2, OverTables
<1> HIDE DEF w
<1>6. x \in Hauls
  <2>1. x \in Closing
    BY <1>1, <1>3, <1>5 DEF Closing, Rewriting
  <2> QED
    BY <2>1 DEF Hauls
<1>7. Grasps(x)
  <2>1. DOMAIN t.wrote \subseteq t.locked
        /\ \A r \in DOMAIN t.wrote : r \in DOMAIN stored /\ LeftWhole(r, t.wrote[r])
    BY <1>1 DEF WorkInv, Grasps, Works
  <2>2. LeftWhole(t.row, v)
    BY <1>3 DEF LeftWhole
  <2>3. \A r \in DOMAIN w : r \in DOMAIN stored /\ LeftWhole(r, w[r])
    BY <1>4, <1>5, <2>1, <2>2
  <2> QED
    BY <1>5, <2>1, <2>3 DEF Grasps
<1>8. Changes(x) /\ Adds(x) /\ x.at # "failed"
  BY <1>4 DEF Changes, Adds, Creating
<1>9. \A g \in Hands \ {h} : Beside(trans[g], x)
  BY <1>1, TakesLock DEF Creating
<1> HIDE DEF x
<1> QED
  BY <1>2, <1>6, <1>7, <1>8, <1>9, HandMoves

\* close_finished_runs finds a run that is finished.
LEMMA SweepReadKeeps ==
  ASSUME WorkInv, NEW h \in Hands, SweepRead(h)
  PROVE  WorkInv'
<1>1. PICK c \in FinishedRuns(stored) :
        trans' = [trans EXCEPT ![h] = [at |-> "swept", row |-> c, wrote |-> Unwritten]]
  BY DEF SweepRead, Only
<1> DEFINE x == [at |-> "swept", row |-> c, wrote |-> Unwritten]
<1>2. c \in Items /\ UNCHANGED <<engine, stored, crossed>>
  BY WorkTableAssumption DEF SweepRead, FinishedRuns
<1>3. x \in Hauls
  <2>1. x \in Swept
    BY <1>2, NothingWritten DEF Swept
  <2> QED
    BY <2>1 DEF Hauls
<1>4. Grasps(x) /\ Changes(x) /\ Adds(x) /\ x.at # "failed" /\ \A g : Beside(trans[g], x)
  BY DEF Grasps, Works, Changes, Adds, Creating, Beside
<1>5. trans' = [trans EXCEPT ![h] = x]
  BY <1>1
<1> HIDE DEF x
<1> QED
  BY <1>2, <1>3, <1>4, <1>5, HandMoves

\* A new item: its key is locked, and it is not there.
LEMMA CreateLookKeeps ==
  ASSUME WorkInv, NEW h \in Hands, NEW r \in Items, CreateLook(h, r)
  PROVE  WorkInv'
<1> DEFINE x == [at |-> "new", row |-> r, locked |-> {}, wrote |-> Unwritten]
<1>1. trans' = [trans EXCEPT ![h] = x] /\ UNCHANGED <<engine, stored, crossed>> /\ r \notin DOMAIN stored
  BY DEF CreateLook, Only
<1>2. x \in Hauls
  <2>1. x \in Begun
    BY NothingWritten DEF Begun
  <2> QED
    BY <2>1 DEF Hauls
<1>3. Grasps(x) /\ Changes(x) /\ Adds(x) /\ x.at # "failed"
  BY <1>1, NothingWritten DEF Grasps, Changes, Adds
<1>4. \A g \in Hands \ {h} : Beside(trans[g], x)
  BY DEF CreateLook, MayBegin, Alone, KeyTaken, Busy, Works, Beside
<1> HIDE DEF x
<1> QED
  BY <1>1, <1>2, <1>3, <1>4, HandMoves

\* Its place: under no parent, under one that is there and open, or refused.
LEMMA CreatePlaceKeeps ==
  ASSUME WorkInv, NEW h \in Hands, CreatePlace(h)
  PROVE  WorkInv'
<1> DEFINE t == trans[h]
           p == ItemParent[t.row]
<1>1. t.at = "new" /\ t \in Begun /\ Busy(h)
  BY HaulShapes DEF CreatePlace, WorkInv, WorkType, Busy
<1>2. UNCHANGED <<engine, stored, crossed>> /\ t.row \notin DOMAIN stored /\ DOMAIN t.wrote = {}
      /\ DOMAIN t.wrote \subseteq t.locked
  BY <1>1 DEF CreatePlace, WorkInv, Adds, Creating, Grasps, Works
<1>3. CASE p = NoParent
  <2> DEFINE x == [t EXCEPT !.at = "joined"]
  <2>1. trans' = [trans EXCEPT ![h] = x]
    BY <1>3 DEF CreatePlace, Only
  <2>2. x \in Begun /\ x.at = "joined" /\ x.row = t.row /\ x.locked = t.locked /\ x.wrote = t.wrote
    BY <1>1 DEF Begun
  <2> HIDE DEF x
  <2>3. x \in Hauls /\ x.at # "failed"
    BY <2>2 DEF Hauls
  <2>4. Grasps(x) /\ Changes(x) /\ Adds(x)
    BY <1>2, <1>3, <2>2 DEF Grasps, Changes, Adds
  <2>5. \A g \in Hands \ {h} : Beside(trans[g], x)
    BY <1>1, <2>2, GoesOn DEF Creating
  <2> QED
    BY <1>2, <2>1, <2>3, <2>4, <2>5, HandMoves
<1>4. CASE p # NoParent /\ (p \notin DOMAIN stored \/ IsDone(stored, p))
  <2>1. trans' = [trans EXCEPT ![h] = NoTrans]
    BY <1>4 DEF CreatePlace, Only
  <2> QED
    BY <1>2, <2>1, LetsGo
<1>5. CASE p # NoParent /\ p \in DOMAIN stored /\ ~IsDone(stored, p)
  <2> DEFINE w == stored[p].waits
             x == [at |-> "placed", row |-> t.row, waits |-> w, locked |-> {}, wrote |-> Unwritten]
  <2>1. trans' = [trans EXCEPT ![h] = x]
    BY <1>5 DEF CreatePlace, Only
  <2>2. w \subseteq Items /\ t.row \in Items
    BY <1>1, <1>5, RowsOf DEF WorkInv, WorkType, WorkRows, Begun
  <2>3. x \in Hauls
    <3>1. x \in Placed
      BY <2>2, NothingWritten DEF Placed
    <3> QED
      BY <3>1 DEF Hauls
  <2>4. Grasps(x) /\ Changes(x) /\ x.at # "failed"
    BY NothingWritten DEF Grasps, Changes
  <2>5. Adds(x)
    BY <1>2, <1>5 DEF Adds
  <2>6. \A g \in Hands \ {h} : Beside(trans[g], x)
    BY <1>1, GoesOn DEF Creating
  <2> HIDE DEF x
  <2> QED
    BY <1>2, <2>1, <2>3, <2>4, <2>5, <2>6, HandMoves
<1> QED
  BY <1>3, <1>4, <1>5

\* The parent is made to wait: for what it waited for when it was read, and this.
LEMMA CreateBlockKeeps ==
  ASSUME WorkInv, NEW h \in Hands, CreateBlock(h)
  PROVE  WorkInv'
<1> DEFINE t == trans[h]
           p == ItemParent[t.row]
           n == stored[p].stamp + 1
           v == [stored[p] EXCEPT !.waits = Joined(t.waits, t.row), !.stamp = n]
           w == [r \in {p} |-> v]
           x == [at |-> "joined", row |-> t.row, locked |-> {p}, wrote |-> w]
<1>1. t.at = "placed" /\ t \in Placed /\ Busy(h) /\ Unlocked(h, p)
  BY HaulShapes DEF CreateBlock, WorkInv, WorkType, Busy
<1>2. /\ t.row \notin DOMAIN stored /\ p # NoParent /\ p \in DOMAIN stored
      /\ stored[p].waits \subseteq t.waits \/ Astray(p)
  BY <1>1 DEF WorkInv, Adds, Creating
<1>3. stored[p] \in WorkRows /\ p \in Items /\ t.row \in Items /\ t.waits \subseteq Items
  BY <1>1, <1>2, RowsOf DEF WorkInv, WorkType, Placed
<1>4. trans' = [trans EXCEPT ![h] = x] /\ UNCHANGED <<engine, stored, crossed>>
  BY DEF CreateBlock, Only
<1>5. v \in WorkRows /\ v.status = stored[p].status /\ v.waits = t.waits \cup {t.row}
  <2>1. n \in Nat /\ Joined(t.waits, t.row) \subseteq Items
        /\ Joined(t.waits, t.row) = t.waits \cup {t.row}
    BY <1>3 DEF WorkRows, Joined
  <2> HIDE DEF n
  <2> QED
    BY <1>3, <2>1 DEF WorkRows
<1> HIDE DEF v
<1>6. w \in RowTables /\ DOMAIN w = {p} /\ w[p] = v
  BY <1>3, <1>5, OneRow
<1> HIDE DEF w
<1>7. x \in Hauls
  <2>1. x \in Begun
    BY <1>3, <1>6 DEF Begun
  <2> QED
    BY <2>1 DEF Hauls
<1>8. Grasps(x)
  <2>1. LeftWhole(p, v)
    BY <1>2, <1>5 DEF LeftWhole
  <2> QED
    BY <1>2, <1>6, <2>1 DEF Grasps
<1>9. Adds(x)
  BY <1>2, <1>5, <1>6 DEF Adds
<1>10. Changes(x) /\ x.at # "failed"
  BY DEF Changes
<1>11. \A g \in Hands \ {h} : Beside(trans[g], x)
  BY <1>1, TakesLock DEF Creating
<1> HIDE DEF x
<1> QED
  BY <1>4, <1>7, <1>8, <1>9, <1>10, <1>11, HandMoves

\* The row is inserted: the key was locked, so nobody filed it since.
LEMMA CreateInsertKeeps ==
  ASSUME WorkInv, NEW h \in Hands, CreateInsert(h)
  PROVE  WorkInv'
<1> DEFINE t == trans[h]
           p == ItemParent[t.row]
           v == Filed({})
           w == Over([r \in {t.row} |-> v], t.wrote)
           x == [t EXCEPT !.at = "filed", !.locked = @ \cup {t.row}, !.wrote = w]
<1>1. t.at = "joined" /\ t \in Begun /\ Busy(h) /\ Unlocked(h, t.row)
  BY HaulShapes DEF CreateInsert, WorkInv, WorkType, Busy
<1>2. /\ t.row \notin DOMAIN stored
      /\ p # NoParent => p \in DOMAIN stored /\ p \in DOMAIN t.wrote /\ t.row \in t.wrote[p].waits
  BY <1>1 DEF WorkInv, Adds, Creating
<1>3. /\ t.row \in Items /\ t.locked \subseteq Items /\ t.wrote \in RowTables
      /\ DOMAIN t.wrote \subseteq t.locked
      /\ \A r \in DOMAIN t.wrote : r \in DOMAIN stored /\ LeftWhole(r, t.wrote[r])
  BY <1>1 DEF WorkInv, Grasps, Works, Begun
<1>4. trans' = [trans EXCEPT ![h] = x] /\ UNCHANGED <<engine, stored, crossed>>
  <2>1. trans' = [trans EXCEPT ![h] = [t EXCEPT !.at = "filed", !.locked = @ \cup {t.row},
                                                !.wrote = Over([r \in {t.row} |-> Filed({})], @)]]
    BY <1>2 DEF CreateInsert, Only
  <2> QED
    BY <1>1, <2>1 DEF CreateInsert, Begun
<1>5. v \in WorkRows
  BY DEF Filed, WorkRows
<1> HIDE DEF v
<1>6. /\ w \in RowTables /\ DOMAIN w = {t.row} \cup DOMAIN t.wrote
      /\ \A r \in DOMAIN t.wrote \ {t.row} : w[r] = t.wrote[r]
  <2>1. [r \in {t.row} |-> v] \in RowTables /\ DOMAIN [r \in {t.row} |-> v] = {t.row}
    BY <1>3, <1>5, OneRow
  <2> QED
    BY <1>3, <2>1, OverTables
<1> HIDE DEF w
<1>7. x \in Begun /\ x.at = "filed" /\ x.locked = t.locked \cup {t.row} /\ x.wrote = w
      /\ x.row = t.row
  BY <1>1, <1>3, <1>6 DEF Begun
<1> HIDE DEF x
<1>8. x \in Hauls /\ x.at # "failed" /\ Changes(x)
  BY <1>7 DEF Hauls, Changes
<1>9. Grasps(x)
  BY <1>3, <1>6, <1>7 DEF Grasps
<1>10. Adds(x)
  <2>1. p # NoParent => p \in DOMAIN w /\ p # t.row /\ t.row \in w[p].waits
    BY <1>2, <1>6
  <2> QED
    BY <1>2, <1>7, <2>1 DEF Adds
<1>11. \A g \in Hands \ {h} : Beside(trans[g], x)
  <2>1. x.locked \subseteq t.locked \cup {t.row} /\ t.at \in Creating
    BY <1>1, <1>7 DEF Creating
  <2> QED
    BY <1>1, <1>7, <2>1, TakesLock
<1> QED
  BY <1>4, <1>8, <1>9, <1>10, <1>11, HandMoves

\* What a transaction wrote becomes the table.
LEMMA CommitWorkKeeps ==
  ASSUME WorkInv, NEW h \in Hands, CommitWork(h)
  PROVE  WorkInv'
<1> DEFINE t == trans[h]
           D == DOMAIN stored
           W == DOMAIN t.wrote
<1>1. t.at \in {"writing", "filed", "closing"} /\ Busy(h) /\ Works(t)
  BY DEF CommitWork, Busy, Works
<1>2. /\ stored' = Sees(h) /\ engine' = engine /\ trans' = [trans EXCEPT ![h] = NoTrans]
      /\ crossed' = crossed \cup (W \cap UNION {InHand(g) : g \in Hands \ {h}})
  BY DEF CommitWork, Only
<1>3. /\ stored' \in RowTables /\ DOMAIN stored' = W \cup D
      /\ \A r \in W : stored'[r] = t.wrote[r]
      /\ \A r \in D \ W : stored'[r] = stored[r]
  BY <1>1, <1>2, SeesTable
<1>4. W \subseteq t.locked /\ \A r \in W : (r \in D /\ LeftWhole(r, t.wrote[r])) \/ (t.at = "filed" /\ r = t.row)
  BY <1>1 DEF WorkInv, Grasps
<1>5. t.at = "filed" =>
        /\ t.row \notin D
        /\ ItemParent[t.row] # NoParent =>
             /\ ItemParent[t.row] \in D /\ ItemParent[t.row] \in W
             /\ t.row \in t.wrote[ItemParent[t.row]].waits
  BY DEF WorkInv, Adds, Creating
<1>6. \A r \in D : \/ stored'[r] = stored[r]
                   \/ r \in W /\ LeftWhole(r, stored'[r])
  BY <1>3, <1>4, <1>5
<1>7. \A r : Astray(r) => Astray(r)'
  BY <1>2 DEF Astray
<1>8. trans' \in [Hands -> Hauls] /\ trans'[h] = NoTrans /\ \A g \in Hands \ {h} : trans'[g] = trans[g]
  BY <1>2 DEF WorkInv, WorkType, Hauls
<1>9. WorkType'
  BY <1>2, <1>3, <1>8 DEF WorkInv, WorkType
<1>10. NoneFailsTheRace'
  BY <1>8 DEF WorkInv, NoneFailsTheRace, NoTrans
<1>11. HandsApart'
  <2> SUFFICES ASSUME NEW g \in Hands, NEW k \in Hands, g # k
               PROVE  Beside(trans[g], trans[k])'
    BY DEF HandsApart
  <2>1. Beside(trans'[g], trans'[k])
    BY <1>8 DEF WorkInv, HandsApart, Beside, Works, NoTrans
  <2> QED
    BY <1>2, <2>1 DEF Beside, Works
<1>12. ParentsThere'
  <2> SUFFICES ASSUME NEW r \in DOMAIN stored' PROVE ItemParent[r] \in DOMAIN stored' \cup {NoParent}
    BY DEF ParentsThere
  <2>1. CASE r \in D
    BY <1>3, <2>1 DEF WorkInv, ParentsThere
  <2>2. CASE r \notin D
    BY <1>3, <1>4, <1>5, <2>2
  <2> QED
    BY <2>1, <2>2
<1>13. ChildrenHoldTheirParent'
  <2> SUFFICES ASSUME NEW r \in DOMAIN stored', ItemParent[r] # NoParent,
                      stored'[r].status # "done", stored'[ItemParent[r]].status # "done"
               PROVE  r \in stored'[ItemParent[r]].waits \/ Astray(ItemParent[r])'
    BY DEF ChildrenHoldTheirParent, IsDone, Astray
  <2> DEFINE p == ItemParent[r]
  <2>1. CASE r \in D
    <3>1. p \in D
      BY <2>1 DEF WorkInv, ParentsThere
    <3>2. stored[r].status # "done"
      BY <1>6, <2>1 DEF LeftWhole
    <3>3. stored'[p] = stored[p] \/ LeftWhole(p, stored'[p])
      BY <1>6, <3>1
    <3>4. stored[p].status # "done"
      BY <3>3 DEF LeftWhole
    <3>5. r \in stored[p].waits \/ Astray(p)
      BY <2>1, <3>2, <3>4 DEF WorkInv, ChildrenHoldTheirParent, IsDone, Astray
    <3>6. stored[p].waits \subseteq stored'[p].waits \/ Astray(p)
      BY <3>3 DEF LeftWhole
    <3> QED
      BY <1>7, <3>5, <3>6
  <2>2. CASE r \notin D
    <3>1. t.at = "filed" /\ r = t.row
      BY <1>3, <1>4, <2>2
    <3> QED
      BY <1>3, <1>5, <3>1
  <2> QED
    BY <2>1, <2>2
<1>14. ASSUME NEW g \in Hands PROVE (Grasps(trans[g]) /\ Changes(trans[g]) /\ Adds(trans[g]))'
  <2>1. CASE g = h
    <3>1. trans'[g].at = "none"
      BY <1>8, <2>1 DEF NoTrans
    <3> QED
      BY <3>1 DEF Grasps, Works, Changes, Adds, Creating
  <2>2. CASE g # h
    <3> DEFINE u == trans[g]
    <3>1. trans'[g] = u /\ Grasps(u) /\ Changes(u) /\ Adds(u) /\ Beside(u, t)
      BY <1>8, <2>2 DEF WorkInv, HandsApart
    <3>2. Works(u) => /\ engine = "postgres" /\ u.locked \cap W = {}
                      /\ u.at \in Creating /\ t.at = "filed" => u.row # t.row
      BY <1>1, <1>4, <3>1 DEF Beside, WorkInv, WorkType, Creating
    <3>3. Works(u) => \A r \in u.locked : r \in D => stored'[r] = stored[r]
      BY <1>3, <3>2
    <3>4. Grasps(trans[g])'
      <4> SUFFICES ASSUME Works(u) 
                   PROVE  /\ DOMAIN u.wrote \subseteq u.locked
                          /\ \A r \in DOMAIN u.wrote :
                               \/ r \in DOMAIN stored' /\ LeftWhole(r, u.wrote[r])'
                               \/ u.at = "filed" /\ r = u.row
                          /\ u.at \in {"new", "placed", "chosen"} => DOMAIN u.wrote = {}
        BY <3>1 DEF Grasps, Works
      <4>1. /\ DOMAIN u.wrote \subseteq u.locked
            /\ \A r \in DOMAIN u.wrote :
                 \/ r \in DOMAIN stored /\ LeftWhole(r, u.wrote[r])
                 \/ u.at = "filed" /\ r = u.row
            /\ u.at \in {"new", "placed", "chosen"} => DOMAIN u.wrote = {}
        BY <3>1 DEF Grasps
      <4>2. ASSUME NEW r \in DOMAIN u.wrote, r \in D, LeftWhole(r, u.wrote[r])
            PROVE  r \in DOMAIN stored' /\ LeftWhole(r, trans[g].wrote[r])'
        <5>1. stored'[r] = stored[r] /\ r \in DOMAIN stored'
          BY <1>3, <3>3, <4>1, <4>2
        <5> QED
          BY <1>7, <3>1, <4>2, <5>1 DEF LeftWhole
      <4> QED
        BY <3>1, <4>1, <4>2
    <3>5. Changes(trans[g])'
      <4>1. u.at = "chosen" => u.row \in u.locked \cap DOMAIN stored' /\ u.seen = stored'[u.row]
        BY <1>3, <3>1, <3>3 DEF Changes, Works
      <4>2. /\ u.at \in {"closing", "overwriting"} => u.todo \subseteq DOMAIN stored'
            /\ u.at = "overwriting" => u.row \in DOMAIN stored'
        BY <1>3, <3>1 DEF Changes
      <4> QED
        BY <3>1, <4>1, <4>2 DEF Changes
    <3>6. Adds(trans[g])'
      <4>0. PICK p : p = ItemParent[u.row]
        OBVIOUS
      <4> SUFFICES ASSUME u.at \in Creating
                   PROVE  /\ u.row \notin DOMAIN stored'
                          /\ u.at = "placed" => p # NoParent
                          /\ u.at # "new" /\ p # NoParent => p \in DOMAIN stored'
                          /\ u.at = "placed" => stored'[p].waits \subseteq u.waits \/ Astray(p)'
                          /\ u.at \in {"joined", "filed"} /\ p # NoParent
                               => p \in DOMAIN u.wrote /\ u.row \in u.wrote[p].waits
        BY <3>1, <4>0 DEF Adds, Astray
      <4>1. /\ u.row \notin D
            /\ u.at = "placed" => p # NoParent
            /\ u.at # "new" /\ p # NoParent => p \in D
            /\ u.at = "placed" => stored[p].waits \subseteq u.waits \/ Astray(p)
            /\ u.at \in {"joined", "filed"} /\ p # NoParent
                 => p \in DOMAIN u.wrote /\ u.row \in u.wrote[p].waits
        BY <3>1, <4>0 DEF Adds
      <4>2. Works(u)
        BY DEF Works, Creating
      <4>3. u.row \notin DOMAIN stored'
        BY <1>3, <1>4, <3>2, <4>1, <4>2
      <4>4. ASSUME u.at = "placed" PROVE stored'[p].waits \subseteq u.waits \/ Astray(p)'
        <5>1. CASE p \in W
          <6>1. p \in InHand(g)
            BY <4>0, <4>4 DEF InHand
          <6>2. p \in crossed'
            BY <1>2, <2>2, <5>1, <6>1
          <6> QED
            BY <1>2, <3>2, <4>2, <6>2 DEF Astray
        <5>2. CASE p \notin W
          <6>1. stored'[p] = stored[p]
            BY <1>3, <4>1, <4>4, <5>2
          <6> QED
            BY <1>7, <4>1, <4>4, <6>1
        <5> QED
          BY <5>1, <5>2
      <4> QED
        BY <1>3, <4>1, <4>3, <4>4
    <3> QED
      BY <3>4, <3>5, <3>6
  <2> QED
    BY <2>1, <2>2
<1> QED
  BY <1>9, <1>10, <1>11, <1>12, <1>13, <1>14 DEF WorkInv

LEMMA WorkBegins == RegistryInit => WorkInv
<1> SUFFICES ASSUME RegistryInit PROVE WorkInv
  OBVIOUS
<1>1. /\ stored = [r \in Standing |-> Filed({k \in Standing : ItemParent[k] = r})]
      /\ trans = [h \in Hands |-> NoTrans] /\ engine \in {"sqlite", "postgres"}
  BY DEF RegistryInit, WorkInit, SchemaInit
<1>2. Standing \subseteq Items /\ \A r \in Standing : ItemParent[r] \in Standing \cup {NoParent}
  BY WorkTableAssumption
<1>3. stored \in RowTables
  <2>1. \A r \in Standing : Filed({k \in Standing : ItemParent[k] = r}) \in WorkRows
    BY <1>2 DEF Filed, WorkRows
  <2>2. stored \in [Standing -> WorkRows]
    BY <1>1, <2>1
  <2> QED
    BY <1>2, <2>2 DEF RowTables
<1>4. WorkType
  BY <1>1, <1>3 DEF WorkType, Hauls
<1>5. \A h \in Hands : trans[h] = NoTrans /\ trans[h].at = "none"
  BY <1>1 DEF NoTrans
<1>6. HandsApart /\ NoneFailsTheRace
  BY <1>5 DEF HandsApart, Beside, Works, NoneFailsTheRace
<1>7. \A h \in Hands : Grasps(trans[h]) /\ Changes(trans[h]) /\ Adds(trans[h])
  BY <1>5 DEF Grasps, Works, Changes, Adds, Creating
<1>8. ParentsThere /\ DOMAIN stored = Standing
  BY <1>1, <1>2 DEF ParentsThere
<1>9. ChildrenHoldTheirParent
  <2> SUFFICES ASSUME NEW r \in Standing, ItemParent[r] # NoParent
               PROVE  r \in stored[ItemParent[r]].waits
    BY <1>8 DEF ChildrenHoldTheirParent
  <2>1. ItemParent[r] \in Standing
    BY <1>2
  <2> QED
    BY <1>1, <2>1 DEF Filed
<1> QED
  BY <1>4, <1>6, <1>7, <1>8, <1>9 DEF WorkInv

LEMMA RegistryKeepsWork ==
  ASSUME WorkInv, [RegistryNext]_registryVars
  PROVE  WorkInv'
<1>1. UNCHANGED <<engine, workVars>> \/ WorkNext
  <2>1. CASE SchemaPart
    BY <2>1 DEF SchemaPart, SchemaNext, OpenStep, LookAtLedger, BeginMigration, CheckLedger,
                ApplyStatements, EnterLedger, CommitMigration, Opened, Restart, SchemaRest
  <2>2. CASE ~SchemaPart
    BY <2>2 DEF RegistryNext, registryVars, FeedPart, BackPart, FollowPart, SnapPart, LeasePart,
                AnswerPart, WorkPart, CallPart, tables
  <2> QED
    BY <2>1, <2>2
<1>2. CASE UNCHANGED <<engine, workVars>>
  <2>1. UNCHANGED <<engine, stored, trans, crossed>>
    BY <1>2 DEF workVars
  <2>2. WorkType' /\ HandsApart' /\ NoneFailsTheRace' /\ ParentsThere'
    BY <2>1 DEF WorkInv, WorkType, HandsApart, Beside, Works, NoneFailsTheRace, ParentsThere
  <2>3. ChildrenHoldTheirParent'
    BY <2>1 DEF WorkInv, ChildrenHoldTheirParent, IsDone
  <2>4. \A h \in Hands : (Grasps(trans[h]) /\ Changes(trans[h]) /\ Adds(trans[h]))'
    BY <2>1 DEF WorkInv, Grasps, Works, LeftWhole, Astray, Changes, Adds
  <2> QED
    BY <2>2, <2>3, <2>4 DEF WorkInv
<1>3. ASSUME NEW h \in Hands, Statement(h) \/ Start(h) \/ Broken(h) PROVE WorkInv'
  <2>1. CASE SweepClose(h)
    BY <2>1, MutateReadKeeps DEF SweepClose
  <2>2. CASE Broken(h)
    BY <2>2, LetsGo DEF Broken, Only
  <2>3. CASE \E r \in DOMAIN stored \ Runs : Finish(h, r) \/ Touch(h, r)
    BY <2>3, MutateReadKeeps DEF Finish, Touch
  <2>4. CASE SweepRead(h) \/ \E r \in Items : CreateLook(h, r)
    BY <2>4, SweepReadKeeps, CreateLookKeeps
  <2>5. CASE Statement(h) /\ ~SweepClose(h)
    BY <2>5, MutateWriteKeeps, CascadeReadKeeps, CloseReadKeeps, CloseWriteKeeps,
       CreatePlaceKeeps, CreateBlockKeeps, CreateInsertKeeps, CommitWorkKeeps DEF Statement
  <2> QED
    BY <1>3, <2>1, <2>2, <2>3, <2>4, <2>5 DEF Start
<1> QED
  BY <1>1, <1>2, <1>3 DEF WorkNext

\* No write of a row fails for another's: FOR UPDATE, the lock on the natural key
\* and BEGIN IMMEDIATE keep them apart, never the compare-and-swap
\* (SqlQueue._mutate, create).
THEOREM RacesAreLockedOut == RegistrySpec => []NoneFailsTheRace
<1>1. WorkInv => NoneFailsTheRace
  BY DEF WorkInv
<1> QED
  BY <1>1, WorkBegins, RegistryKeepsWork, PTL DEF RegistrySpec

\* An open parent waits for each of its open children, unless a write of it that
\* read its blockers under no lock crossed another on Postgres (create,
\* enforce_decomposition).
THEOREM ParentsWait == RegistrySpec => []ChildrenHoldTheirParent
<1>1. WorkInv => ChildrenHoldTheirParent
  BY DEF WorkInv
<1> QED
  BY <1>1, WorkBegins, RegistryKeepsWork, PTL DEF RegistrySpec

-----------------------------------------------------------------------------
(* The write-back.                                                          *)

EventPages == UNION {[S -> Events] : S \in SUBSET Seqs}
PassRows == [at : {"idle", "checked", "posting", "writing"}, start : {NoCursor} \cup Seqs \cup {0},
             cursor : {NoCursor} \cup Seqs \cup {0}, page : EventPages]

BackType ==
  /\ pass \in [Passes -> PassRows] /\ posts \in [Seqs -> Nat]
  /\ file \in {NoCursor} \cup Seqs \cup {0} /\ file <= issued /\ issued <= MaxSeq
  /\ \A s \in DOMAIN feed : feed[s] \in Events
  /\ \A o \in open : o.event \in Events

\* A number is committed once.
NumbersAreNew ==
  \A o \in open : o.seq \notin written /\ \A q \in open : q.seq = o.seq => q = o

\* What no pass need come back for; a file or a pass may stand there.
Settles(s) == ~Addressed(feed[s]) \/ Handled(s) \/ s \in late
Clear(c)   == \A s \in DOMAIN feed : s <= c => Settles(s)

\* A pass holds every row up to its last one that is not settled, as it was.
PassTrue(q) ==
  /\ q.start <= q.cursor /\ q.cursor <= issued /\ DOMAIN q.page \subseteq written
  /\ \A n \in DOMAIN q.page : q.start <= n
  /\ q.at = "idle" => q.cursor = NoCursor
  /\ q.at # "posting" => DOMAIN q.page = {}
  /\ Clear(q.cursor)
  /\ \A n \in DOMAIN q.page, s \in DOMAIN feed : s <= n => Settles(s) \/ s \in DOMAIN q.page
  /\ \A s \in DOMAIN q.page \cap DOMAIN feed : q.page[s] = feed[s]

BackTrue ==
  /\ BackType /\ NumbersAreNew /\ Clear(file)
  /\ \A s \in DOMAIN feed : s < floor => s \in late
  /\ \A w \in Passes : PassTrue(pass[w])

BackInv ==
  IF part = "writeback" THEN BackTrue ELSE file = NoCursor

\* The feed changes beside the passes: what is new is ahead of them all, or late.
LEMMA FeedBesidePasses ==
  ASSUME FeedInv, BackTrue, FeedType', UNCHANGED <<file, pass, posts, dead>>, late \subseteq late',
         written \subseteq written', issued <= issued', issued' <= MaxSeq, NumbersAreNew',
         \A s \in DOMAIN feed' : feed'[s] \in Events, \A o \in open' : o.event \in Events,
         \A s \in DOMAIN feed' : s < floor' => s \in late',
         \A s \in DOMAIN feed' : \/ s \in DOMAIN feed /\ feed'[s] = feed[s]
                                 \/ s \notin written /\ (Behind(s) => s \in late')
  PROVE  BackTrue'
<1>0. /\ issued \in Nat /\ written \subseteq 1..issued /\ DOMAIN feed \subseteq written
      /\ issued' \in Nat /\ written' \subseteq 1..issued' /\ DOMAIN feed' \subseteq written'
  BY DEF FeedInv, FeedType
<1>1. \A s \in written : s \in Nat
  BY <1>0
<1>2. \A s \in DOMAIN feed' : s \in Nat
  <2> SUFFICES ASSUME NEW s \in DOMAIN feed' PROVE s \in Nat
    OBVIOUS
  <2>1. s \in 1..issued'
    BY <1>0
  <2> QED
    BY <1>0, <2>1
<1>3. ASSUME NEW s \in DOMAIN feed', s \in DOMAIN feed, Settles(s), feed'[s] = feed[s]
      PROVE  Settles(s)'
  BY <1>3 DEF Settles, Addressed, Handled
<1>4. ASSUME NEW c, Clear(c), \A s \in DOMAIN feed' \ DOMAIN feed : s <= c => s \in late' PROVE Clear(c)'
  <2> SUFFICES ASSUME NEW s \in DOMAIN feed', s <= c PROVE Settles(s)'
    BY DEF Clear
  <2>1. CASE s \in DOMAIN feed
    BY <1>0, <1>3, <1>4, <2>1 DEF Clear
  <2>2. CASE s \notin DOMAIN feed
    BY <1>4, <2>2 DEF Settles
  <2> QED
    BY <2>1, <2>2
<1>5. issued \in Nat /\ issued' \in Nat /\ file \in Int /\ MaxSeq \in Nat
  BY FeedAssumption DEF FeedInv, FeedType, BackTrue, BackType, NoCursor, Seqs
<1>6. BackType'
  BY <1>5 DEF BackTrue, BackType
<1>7. (Clear(file))'
  <2>1. \A s \in DOMAIN feed' \ DOMAIN feed : s <= file => s \in late'
    BY DEF Behind
  <2>2. PICK c : c = file
    OBVIOUS
  <2>3. Clear(c)'
    BY <1>4, <2>1, <2>2 DEF BackTrue
  <2> QED
    BY <2>2, <2>3
<1>8. ASSUME NEW w \in Passes PROVE PassTrue(pass[w])'
  <2>1. PICK q : q = pass[w]
    OBVIOUS
  <2>2. q \in PassRows /\ PassTrue(q) /\ pass'[w] = q
    BY <2>1 DEF BackTrue, BackType
  <2>3. q.cursor \in Int /\ q.start \in Int
    BY <2>2, <1>5 DEF PassRows, NoCursor, Seqs
  <2>4. ASSUME NEW s \in DOMAIN feed', s \notin DOMAIN feed, s <= q.cursor \/ \E n \in DOMAIN q.page : s <= n
        PROVE  s \in late'
    <3>1. s \notin written /\ (Behind(s) => s \in late')
      BY <2>4
    <3>2. s \in Nat
      BY <1>2
    <3>3. CASE q.at = "idle"
      BY <2>2, <2>4, <3>2, <3>3 DEF PassTrue, NoCursor
    <3>4. CASE q.at # "idle"
      <4>1. w \in Active
        BY <2>1, <3>4 DEF Active
      <4>2. CASE s <= q.cursor
        BY <2>1, <3>1, <4>1, <4>2 DEF Behind
      <4>3. CASE \E n \in DOMAIN q.page : s <= n
        <5>1. PICK n \in DOMAIN q.page : s <= n
          BY <4>3
        <5>2. n \in written /\ n \in Nat
          BY <1>1, <2>2 DEF PassTrue
        <5>3. s < n
          BY <3>1, <3>2, <5>1, <5>2
        <5> QED
          BY <2>1, <3>1, <4>1, <5>3 DEF Behind
      <4> QED
        BY <2>4, <4>2, <4>3
    <3> QED
      BY <3>3, <3>4
  <2>5. Clear(q.cursor)'
    BY <1>4, <2>2, <2>4 DEF PassTrue
  <2>6. \A n \in DOMAIN q.page, s \in DOMAIN feed' : s <= n => Settles(s)' \/ s \in DOMAIN q.page
    <3> SUFFICES ASSUME NEW n \in DOMAIN q.page, NEW s \in DOMAIN feed', s <= n, s \notin DOMAIN q.page
                 PROVE  Settles(s)'
      OBVIOUS
    <3>1. CASE s \in DOMAIN feed /\ feed'[s] = feed[s]
      BY <1>3, <2>2, <3>1 DEF PassTrue
    <3>2. CASE s \notin DOMAIN feed
      BY <2>4, <3>2 DEF Settles
    <3> QED
      BY <1>0, <3>1, <3>2
  <2>7. \A s \in DOMAIN q.page \cap DOMAIN feed' : q.page[s] = feed'[s]
    BY <2>2 DEF PassTrue
  <2>8. q.cursor <= issued'
    BY <1>5, <2>2, <2>3 DEF PassTrue
  <2>9. PassTrue(q)'
    BY <2>2, <2>5, <2>6, <2>7, <2>8 DEF PassTrue
  <2> QED
    BY <2>2, <2>9
<1> QED
  BY <1>6, <1>7, <1>8 DEF BackTrue

\* A pass takes a step of its own.
LEMMA PassTakesStep ==
  ASSUME FeedInv, BackTrue, NEW w \in Passes, NEW x \in PassRows, pass' = [pass EXCEPT ![w] = x],
         UNCHANGED <<feedVars, late>>,
         file' \in {NoCursor} \cup Seqs \cup {0}, file' <= issued, Clear(file)',
         posts' \in [Seqs -> Nat], \A n \in Seqs : posts[n] <= posts'[n], dead \subseteq dead',
         PassTrue(x)'
  PROVE  BackTrue'
<1>1. UNCHANGED <<feed, open, written, issued, floor>>
  BY DEF feedVars, table, retained
<1>2. pass' \in [Passes -> PassRows] /\ pass'[w] = x /\ \A v \in Passes \ {w} : pass'[v] = pass[v]
  BY DEF BackTrue, BackType
<1>3. ASSUME NEW s \in DOMAIN feed, Settles(s) PROVE Settles(s)'
  <2>1. s \in Seqs /\ posts[s] \in Nat /\ posts'[s] \in Nat
    <3>1. s \in 1..issued /\ issued \in Nat /\ issued <= MaxSeq /\ MaxSeq \in Nat
      BY FeedAssumption DEF FeedInv, FeedType, BackTrue, BackType
    <3>2. s \in Seqs
      BY <3>1 DEF Seqs
    <3> QED
      BY <3>2 DEF BackTrue, BackType
  <2> QED
    BY <1>1, <1>3, <2>1 DEF Settles, Addressed, Handled
<1>4. BackType' /\ NumbersAreNew'
  BY <1>1, <1>2 DEF BackTrue, BackType, NumbersAreNew
<1>5. ASSUME NEW v \in Passes PROVE PassTrue(pass[v])'
  <2>1. CASE v = w
    BY <1>2, <2>1
  <2>2. CASE v # w
    <3>1. PICK q : q = pass[v]
      OBVIOUS
    <3>2. PassTrue(q) /\ pass'[v] = q
      BY <1>2, <2>2, <3>1 DEF BackTrue
    <3>3. PassTrue(q)'
      BY <1>1, <1>3, <3>2 DEF PassTrue, Clear
    <3> QED
      BY <3>2, <3>3
  <2> QED
    BY <2>1, <2>2
<1> QED
  BY <1>1, <1>4, <1>5 DEF BackTrue

LEMMA EmptyPage == NoPage \in EventPages /\ DOMAIN NoPage = {}
<1>1. NoPage \in [{} -> Events] /\ DOMAIN NoPage = {}
  BY DEF NoPage
<1> QED
  BY <1>1 DEF EventPages

\* The numbers that a pass and the file may stand at.
LEMMA BackNumbers ==
  ASSUME FeedInv, BackTrue
  PROVE  /\ issued \in Nat /\ MaxSeq \in Nat /\ issued <= MaxSeq /\ floor \in 1..(issued + 1)
         /\ written \subseteq 1..issued /\ DOMAIN feed \subseteq written /\ 1..issued \subseteq Seqs
         /\ file \in Int /\ \A s \in Seqs : s \in Nat /\ s >= 1
BY FeedAssumption DEF FeedInv, FeedType, BackTrue, BackType, NoCursor, Seqs

\* A pass rests.
LEMMA BackRests ==
  ASSUME FeedInv, BackTrue, NEW w \in Passes, pass' = [pass EXCEPT ![w] = NoPass],
         UNCHANGED <<feedVars, posts, dead, late>>,
         file' = file \/ file' = pass[w].cursor
  PROVE  BackTrue'
<1>1. NoPass \in PassRows /\ NoPass.start = NoCursor /\ NoPass.cursor = NoCursor
      /\ DOMAIN NoPass.page = {} /\ NoPass.at = "idle"
  BY EmptyPage DEF NoPass, PassRows
<1>2. pass[w] \in PassRows /\ PassTrue(pass[w]) /\ posts \in [Seqs -> Nat]
  BY DEF BackTrue, BackType
<1>3. UNCHANGED <<feed, issued, written>>
  BY DEF feedVars, table
<1>4. file' \in {NoCursor} \cup Seqs \cup {0} /\ file' <= issued
  BY <1>2 DEF BackTrue, BackType, PassRows, PassTrue
<1>5. \A s \in DOMAIN feed : Settles(s) => Settles(s)'
  BY <1>3 DEF Settles, Addressed, Handled
<1>6. Clear(file)'
  BY <1>2, <1>3, <1>5 DEF Clear, BackTrue, PassTrue
<1>7. PassTrue(NoPass)'
  <2>1. issued \in Nat /\ \A s \in DOMAIN feed : ~(s <= NoCursor)
    BY BackNumbers DEF NoCursor
  <2>2. NoCursor <= NoCursor /\ NoCursor <= issued
    BY <2>1 DEF NoCursor
  <2> QED
    BY <1>1, <1>3, <2>1, <2>2 DEF PassTrue, Clear
<1>8. \A n \in Seqs : posts[n] <= posts'[n]
  BY <1>2
<1> HIDE DEF NoPass
<1> QED
  BY <1>1, <1>2, <1>4, <1>6, <1>7, <1>8, PassTakesStep

\* A pass begins where the file says, or at the floor.
LEMMA BackStartKeeps ==
  ASSUME FeedInv, BackTrue, NEW w \in Passes, BackStart(w)
  PROVE  BackTrue'
<1>1. PICK x : x = [at |-> "checked", start |-> file, cursor |-> StartOf(file), page |-> NoPage]
  OBVIOUS
<1>2. pass' = [pass EXCEPT ![w] = x] /\ UNCHANGED <<file, posts, dead, late, feedVars>>
      /\ UNCHANGED <<feed, issued, written>>
  BY <1>1 DEF BackStart, feedVars, table
<1>3. /\ StartOf(file) \in {NoCursor} \cup Seqs \cup {0} /\ file <= StartOf(file)
      /\ StartOf(file) <= issued /\ Clear(StartOf(file))
  <2>1. CASE file = NoCursor
    <3>1. StartOf(file) = floor - 1
      BY <2>1 DEF StartOf
    <3>2. Clear(floor - 1)
      BY BackNumbers DEF BackTrue, Clear, Settles
    <3>3. floor - 1 \in 0..issued
      BY BackNumbers
    <3>4. floor - 1 \in Seqs \cup {0} /\ NoCursor <= floor - 1 /\ floor - 1 <= issued
      BY <3>3, BackNumbers DEF Seqs, NoCursor
    <3> QED
      BY <2>1, <3>1, <3>2, <3>4
  <2>2. CASE file # NoCursor
    BY <2>2, BackNumbers DEF StartOf, BackTrue, BackType
  <2> QED
    BY <2>1, <2>2
<1>4. x \in PassRows
  BY <1>1, <1>3, EmptyPage DEF PassRows, BackTrue, BackType
<1>5. \A s \in DOMAIN feed : Settles(s) => Settles(s)'
  BY <1>2 DEF Settles, Addressed, Handled
<1>6. PassTrue(x)'
  BY <1>1, <1>2, <1>3, <1>5, EmptyPage DEF PassTrue, Clear
<1>7. Clear(file)' /\ file' \in {NoCursor} \cup Seqs \cup {0} /\ file' <= issued
      /\ posts' \in [Seqs -> Nat] /\ \A n \in Seqs : posts[n] <= posts'[n]
  <2>1. Clear(file)'
    BY <1>2, <1>5 DEF BackTrue, Clear
  <2>2. posts \in [Seqs -> Nat] /\ file \in {NoCursor} \cup Seqs \cup {0} /\ file <= issued
    BY DEF BackTrue, BackType
  <2> QED
    BY <1>2, <2>1, <2>2
<1> QED
  BY <1>2, <1>4, <1>6, <1>7, PassTakesStep

\* What stands before a row of a page, and after where it starts, is in the page.
LEMMA PageClosed ==
  ASSUME FeedInv, BackTrue, NEW start \in Int, NEW n \in Page(start),
         NEW s \in DOMAIN feed, s > start, s <= n
  PROVE  s \in Page(start)
<1> DEFINE above    == {m \in DOMAIN feed : m > start}
           below(m) == {k \in above : k < m}
<1>1. DOMAIN feed \subseteq 1..issued /\ issued \in Nat /\ n \in DOMAIN feed
  BY BackNumbers DEF Page
<1>2. s \in above /\ s \in Nat /\ n \in Nat
  BY <1>1
<1>3. below(s) \subseteq below(n)
  <2> SUFFICES ASSUME NEW k \in below(s) PROVE k \in below(n)
    OBVIOUS
  <2>1. k \in Nat /\ k < s
    BY <1>1
  <2> QED
    BY <1>2, <2>1
<1>4. IsFiniteSet(below(s)) /\ IsFiniteSet(below(n))
  <2>1. IsFiniteSet(1..issued)
    BY <1>1, FS_Interval
  <2>2. below(s) \subseteq 1..issued /\ below(n) \subseteq 1..issued
    BY <1>1
  <2> QED
    BY <2>1, <2>2, FS_Subset
<1>5. Cardinality(below(s)) <= Cardinality(below(n)) /\ Cardinality(below(s)) \in Nat
      /\ Cardinality(below(n)) \in Nat
  BY <1>3, <1>4, FS_Subset, FS_CardinalityType
<1>6. Cardinality(below(n)) < PageSize
  BY DEF Page
<1>7. Cardinality(below(s)) < PageSize
  BY <1>5, <1>6, FeedAssumption
<1> QED
  BY <1>2, <1>7 DEF Page

\* The page is read: every row up to its last is settled, or in it.
LEMMA BackReadKeeps ==
  ASSUME FeedInv, BackTrue, NEW w \in Passes, BackRead(w)
  PROVE  BackTrue'
<1> DEFINE q    == pass[w]
           rows == {n \in Page(q.cursor) : feed[n].kind \notin Walled}
<1>0. PICK page : page = [n \in rows |-> feed[n]]
  OBVIOUS
<1>1. PICK x : x = [at |-> "posting", start |-> q.start, cursor |-> q.start, page |-> page]
  OBVIOUS
<1>2. pass' = [pass EXCEPT ![w] = x] /\ UNCHANGED <<file, posts, dead, late, feedVars>>
      /\ UNCHANGED <<feed, issued, written>> /\ q.at = "checked"
  BY <1>0, <1>1 DEF BackRead, feedVars, table
<1>3. q \in PassRows /\ PassTrue(q) /\ posts \in [Seqs -> Nat]
  BY DEF BackTrue, BackType
<1>4. q.cursor \in Int /\ q.start \in Int /\ q.start <= q.cursor /\ q.cursor <= issued
  BY <1>3 DEF PassTrue, PassRows, NoCursor, Seqs
<1>5. /\ rows \subseteq DOMAIN feed /\ DOMAIN page = rows
      /\ \A n \in rows : n \in Seqs /\ n \in Nat /\ feed[n] \in Events
      /\ \A n \in rows : page[n] = feed[n]
  <2>1. rows \subseteq DOMAIN feed
    BY DEF Page
  <2>2. \A n \in rows : n \in Seqs /\ n \in Nat /\ feed[n] \in Events
    BY <2>1, BackNumbers DEF BackTrue, BackType
  <2> QED
    BY <1>0, <2>1, <2>2
<1>6. page \in EventPages
  <2>1. page \in [rows -> Events] /\ rows \subseteq Seqs
    BY <1>0, <1>5
  <2> QED
    BY <2>1 DEF EventPages
<1>7. x \in PassRows
  BY <1>1, <1>3, <1>6 DEF PassRows
<1>8. \A s \in DOMAIN feed : Settles(s) => Settles(s)'
  BY <1>2 DEF Settles, Addressed, Handled
<1>9. Clear(q.cursor) /\ Clear(q.start)
  <2>1. \A s \in DOMAIN feed : s \in Int
    BY BackNumbers
  <2>2. Clear(q.cursor)
    BY <1>3 DEF PassTrue
  <2> QED
    BY <1>4, <2>1, <2>2 DEF Clear
<1>10. ASSUME NEW n \in rows, NEW s \in DOMAIN feed, s <= n PROVE Settles(s) \/ s \in rows
  <2>1. CASE s <= q.cursor
    BY <1>9, <2>1 DEF Clear
  <2>2. CASE ~(s <= q.cursor)
    <3>1. s > q.cursor /\ s \in Nat /\ n \in Nat /\ n \in Page(q.cursor)
      BY <1>4, <1>5, <2>2, BackNumbers
    <3>2. s \in Page(q.cursor)
      BY <1>4, <1>10, <2>2, <3>1, PageClosed, BackNumbers
    <3>3. CASE feed[s].kind \notin Walled
      BY <3>2, <3>3
    <3>4. CASE feed[s].kind \in Walled
      BY <3>4, BackAssumption DEF Settles, Addressed
    <3> QED
      BY <3>3, <3>4
  <2> QED
    BY <2>1, <2>2
<1>11. PassTrue(x)'
  <2>1. x.at = "posting" /\ x.start = q.start /\ x.cursor = q.start /\ x.page = page
    BY <1>1
  <2>2. x.start <= x.cursor /\ x.cursor <= issued' /\ DOMAIN x.page \subseteq written'
    BY <1>2, <1>4, <1>5, <2>1, BackNumbers
  <2>6. \A n \in DOMAIN x.page : x.start <= n
    <3>1. \A n \in rows : n > q.cursor /\ n \in Nat
      BY <1>5 DEF Page
    <3> QED
      BY <1>4, <1>5, <2>1, <3>1
  <2>3. Clear(x.cursor)'
    BY <1>2, <1>8, <1>9, <2>1 DEF Clear
  <2>4. \A n \in DOMAIN x.page, s \in DOMAIN feed' : s <= n => Settles(s)' \/ s \in DOMAIN x.page
    BY <1>2, <1>5, <1>8, <1>10, <2>1
  <2>5. \A s \in DOMAIN x.page \cap DOMAIN feed' : x.page[s] = feed'[s]
    BY <1>2, <1>5, <2>1
  <2> QED
    BY <2>1, <2>2, <2>3, <2>4, <2>5, <2>6 DEF PassTrue
<1>12. Clear(file)' /\ file' \in {NoCursor} \cup Seqs \cup {0} /\ file' <= issued
       /\ posts' \in [Seqs -> Nat] /\ \A n \in Seqs : posts[n] <= posts'[n]
  <2>1. Clear(file)'
    BY <1>2, <1>8 DEF BackTrue, Clear
  <2> QED
    BY <1>2, <1>3, <2>1 DEF BackTrue, BackType
<1> QED
  BY <1>2, <1>7, <1>11, <1>12, PassTakesStep

\* An event is handled and passed, or the pass stops before it.
LEMMA BackEventKeeps ==
  ASSUME FeedInv, BackTrue, NEW w \in Passes, BackEvent(w)
  PROVE  BackTrue'
<1>0. PICK q : q = pass[w]
  OBVIOUS
<1>1. PICK n : n = Min(DOMAIN q.page)
  OBVIOUS
<1>2. q \in PassRows /\ PassTrue(q) /\ q.at = "posting" /\ DOMAIN q.page # {}
      /\ UNCHANGED <<file, late, feedVars, feed, issued, written>> /\ posts \in [Seqs -> Nat]
  BY <1>0 DEF BackEvent, BackTrue, BackType, feedVars, table
<1>3. PICK S \in SUBSET Seqs : q.page \in [S -> Events]
  BY <1>2 DEF PassRows, EventPages
<1>4. n \in DOMAIN q.page /\ (\A s \in DOMAIN q.page : n <= s) /\ n \in Seqs /\ n \in Nat
      /\ DOMAIN q.page = S
  <2>1. DOMAIN q.page = S /\ DOMAIN q.page \in SUBSET Nat
    BY <1>3, BackNumbers
  <2> QED
    BY <1>1, <1>2, <2>1, LeastOf
<1>5. PICK x : \/ /\ x = [q EXCEPT !.cursor = n, !.page = [s \in DOMAIN @ \ {n} |-> @[s]]]
                  /\ pass' = [pass EXCEPT ![w] = x]
                  /\ ~Addressed(q.page[n]) \/ posts' = Told(n) \/ dead' = dead \cup {n}
               \/ /\ x = [q EXCEPT !.page = NoPage] /\ pass' = [pass EXCEPT ![w] = x]
  <2>1. \/ pass' = Advanced(w) /\ (~Addressed(q.page[n]) \/ posts' = Told(n) \/ dead' = dead \cup {n})
        \/ pass' = Halted(w)
    BY <1>0, <1>1 DEF BackEvent, At
  <2>2. Halted(w) = [pass EXCEPT ![w] = [q EXCEPT !.page = NoPage]]
    BY <1>0 DEF Halted
  <2>3. Advanced(w) = [pass EXCEPT ![w] = [q EXCEPT !.cursor = n,
                                                    !.page = [s \in DOMAIN @ \ {n} |-> @[s]]]]
    BY <1>0, <1>1 DEF Advanced, At
  <2> QED
    BY <2>1, <2>2, <2>3
<1>6. /\ posts' = posts \/ posts' = Told(n)
      /\ dead' = dead \/ dead' = dead \cup {n}
  BY <1>0, <1>1 DEF BackEvent, At
<1>7. posts' \in [Seqs -> Nat] /\ (\A s \in Seqs : posts[s] <= posts'[s]) /\ dead \subseteq dead'
      /\ (posts' = Told(n) => posts'[n] > 0)
  BY <1>2, <1>4, <1>6 DEF Told
<1>8. \A s \in DOMAIN feed : Settles(s) => Settles(s)'
  <2> SUFFICES ASSUME NEW s \in DOMAIN feed, Settles(s) PROVE Settles(s)'
    OBVIOUS
  <2>1. s \in Seqs
    BY BackNumbers
  <2>2. posts[s] \in Nat /\ posts'[s] \in Nat /\ posts[s] <= posts'[s]
    BY <1>2, <1>7, <2>1
  <2> QED
    BY <1>2, <1>7, <2>2 DEF Settles, Addressed, Handled
<1>9. x \in PassRows /\ PassTrue(x)'
  <2>1. CASE x = [q EXCEPT !.page = NoPage]
    <3>1. x \in PassRows /\ x.at = q.at /\ x.start = q.start /\ x.cursor = q.cursor
          /\ DOMAIN x.page = {}
      BY <1>2, <2>1, EmptyPage DEF PassRows
    <3>2. Clear(x.cursor)'
      BY <1>2, <1>8, <3>1 DEF PassTrue, Clear
    <3> QED
      BY <1>2, <3>1, <3>2 DEF PassTrue
  <2>2. CASE /\ x = [q EXCEPT !.cursor = n, !.page = [s \in DOMAIN @ \ {n} |-> @[s]]]
             /\ ~Addressed(q.page[n]) \/ posts' = Told(n) \/ dead' = dead \cup {n}
    <3> DEFINE page == [s \in S \ {n} |-> q.page[s]]
    <3>1. page \in EventPages
      <4>1. page \in [S \ {n} -> Events] /\ S \ {n} \in SUBSET Seqs
        BY <1>3
      <4> QED
        BY <4>1 DEF EventPages
    <3>2. DOMAIN page = S \ {n} /\ \A s \in S \ {n} : page[s] = q.page[s]
      OBVIOUS
    <3>3. x = [q EXCEPT !.cursor = n, !.page = page]
      BY <1>2, <1>4, <2>2 DEF PassRows
    <3> HIDE DEF page
    <3>4. x \in PassRows /\ x.at = q.at /\ x.start = q.start /\ x.cursor = n /\ x.page = page
      BY <1>2, <1>4, <3>1, <3>3 DEF PassRows
    <3>10. \A m \in DOMAIN x.page : x.start <= m
      BY <1>2, <1>4, <3>2, <3>4 DEF PassTrue
    <3>5. x.start <= x.cursor /\ x.cursor <= issued' /\ DOMAIN x.page \subseteq written'
      <4>1. n \in written /\ n <= issued /\ DOMAIN q.page \subseteq written
        BY <1>2, <1>4, BackNumbers DEF PassTrue
      <4>2. q.start <= n
        BY <1>2, <1>4 DEF PassTrue
      <4> QED
        BY <1>2, <1>4, <3>2, <3>4, <4>1, <4>2
    <3>6. n \in DOMAIN feed => Settles(n)'
      <4> SUFFICES ASSUME n \in DOMAIN feed, Addressed(feed[n]) PROVE Handled(n)'
        BY <1>2 DEF Settles, Addressed
      <4>1. q.page[n] = feed[n]
        BY <1>2, <1>4 DEF PassTrue
      <4> QED
        BY <1>7, <2>2, <4>1 DEF Handled
    <3>7. Clear(x.cursor)'
      <4> SUFFICES ASSUME NEW s \in DOMAIN feed, s <= n PROVE Settles(s)'
        BY <1>2, <3>4 DEF Clear
      <4>1. Settles(s) \/ s \in DOMAIN q.page
        BY <1>2, <1>4 DEF PassTrue
      <4>2. s \in DOMAIN q.page => s = n
        BY <1>3, <1>4, BackNumbers
      <4> QED
        BY <1>8, <3>6, <4>1, <4>2
    <3>8. \A m \in DOMAIN x.page, s \in DOMAIN feed' : s <= m => Settles(s)' \/ s \in DOMAIN x.page
      <4> SUFFICES ASSUME NEW m \in S \ {n}, NEW s \in DOMAIN feed, s <= m
                   PROVE  Settles(s)' \/ s \in S \ {n}
        BY <1>2, <3>2, <3>4
      <4>1. Settles(s) \/ s \in S
        BY <1>2, <1>4 DEF PassTrue
      <4> QED
        BY <1>8, <3>6, <4>1
    <3>9. \A s \in DOMAIN x.page \cap DOMAIN feed' : x.page[s] = feed'[s]
      BY <1>2, <1>4, <3>2, <3>4 DEF PassTrue
    <3> QED
      BY <1>2, <3>4, <3>5, <3>7, <3>8, <3>9, <3>10 DEF PassTrue
  <2> QED
    BY <1>5, <2>1, <2>2
<1>10. Clear(file)' /\ file' \in {NoCursor} \cup Seqs \cup {0} /\ file' <= issued
  <2>1. Clear(file)'
    BY <1>2, <1>8 DEF BackTrue, Clear
  <2> QED
    BY <1>2, <2>1 DEF BackTrue, BackType
<1>11. pass' = [pass EXCEPT ![w] = x]
  BY <1>5
<1> QED
  BY <1>2, <1>7, <1>9, <1>10, <1>11, PassTakesStep

\* The pass ends: at rest, or with the file truncated.
LEMMA BackTruncateKeeps ==
  ASSUME FeedInv, BackTrue, NEW w \in Passes, BackTruncate(w)
  PROVE  BackTrue'
<1>0. PICK q : q = pass[w]
  OBVIOUS
<1>1. UNCHANGED <<posts, dead, late, feedVars, feed, issued, written>>
  BY DEF BackTruncate, feedVars, table
<1>2. q \in PassRows /\ PassTrue(q) /\ posts \in [Seqs -> Nat] /\ DOMAIN q.page = {}
  BY <1>0 DEF BackTrue, BackType, BackTruncate
<1>3. CASE pass' = [pass EXCEPT ![w] = NoPass] /\ file' = file
  BY <1>1, <1>3, BackRests
<1>4. CASE pass' = [pass EXCEPT ![w].at = "writing"] /\ file' = NoCursor
  <2>1. PICK x : x = [q EXCEPT !.at = "writing"]
    OBVIOUS
  <2>2. pass' = [pass EXCEPT ![w] = x]
    BY <1>0, <1>4, <2>1
  <2>3. x \in PassRows /\ x.at = "writing" /\ x.start = q.start /\ x.cursor = q.cursor
        /\ x.page = q.page
    BY <1>2, <2>1 DEF PassRows
  <2>4. \A s \in DOMAIN feed : Settles(s) => Settles(s)'
    BY <1>1 DEF Settles, Addressed, Handled
  <2>5. PassTrue(x)'
    BY <1>1, <1>2, <2>3, <2>4 DEF PassTrue, Clear
  <2>6. Clear(file)' /\ file' <= issued
    <3>1. file' <= issued /\ \A s \in DOMAIN feed : ~(s <= file')
      BY <1>4, BackNumbers DEF NoCursor
    <3> QED
      BY <1>1, <3>1 DEF Clear
  <2>7. \A n \in Seqs : posts[n] <= posts'[n]
    BY <1>1, <1>2
  <2> QED
    BY <1>1, <1>2, <1>4, <2>2, <2>3, <2>5, <2>6, <2>7, PassTakesStep
<1> QED
  BY <1>3, <1>4 DEF BackTruncate

LEMMA BackWriteKeeps ==
  ASSUME FeedInv, BackTrue, NEW w \in Passes, BackWrite(w) \/ BackCrash(w)
  PROVE  BackTrue'
<1>1. UNCHANGED <<feedVars, posts, dead, late>> /\ pass' = [pass EXCEPT ![w] = NoPass]
      /\ (file' = file \/ file' = pass[w].cursor)
  BY DEF BackWrite, BackCrash
<1> QED
  BY <1>1, BackRests

\* The file is as it was, or gone, and the passes and the feed rest.
LEMMA BackStands ==
  ASSUME FeedInv, BackTrue, UNCHANGED <<pass, posts, dead, late, feedVars>>,
         file' = file \/ file' = NoCursor
  PROVE  BackTrue'
<1>1. UNCHANGED <<feed, open, issued, written, floor>>
  BY DEF feedVars, table, retained
<1>2. \A s \in DOMAIN feed : Settles(s) => Settles(s)'
  BY <1>1 DEF Settles, Addressed, Handled
<1>3. Clear(file)' /\ file' <= issued
  <2>1. CASE file' = file
    BY <1>1, <1>2, <2>1 DEF BackTrue, BackType, Clear
  <2>2. CASE file' = NoCursor
    <3>1. file' <= issued /\ \A s \in DOMAIN feed : ~(s <= file')
      BY <2>2, BackNumbers DEF NoCursor
    <3> QED
      BY <1>1, <3>1 DEF Clear
  <2> QED
    BY <2>1, <2>2
<1>4. BackType' /\ NumbersAreNew'
  BY <1>1, <1>3 DEF BackTrue, BackType, NumbersAreNew
<1>5. ASSUME NEW v \in Passes PROVE PassTrue(pass[v])'
  <2>1. PICK q : q = pass[v]
    OBVIOUS
  <2>2. PassTrue(q) /\ pass'[v] = q
    BY <2>1 DEF BackTrue
  <2>3. PassTrue(q)'
    BY <1>1, <1>2, <2>2 DEF PassTrue, Clear
  <2> QED
    BY <2>2, <2>3
<1> QED
  BY <1>1, <1>3, <1>4, <1>5 DEF BackTrue

\* A row that is new stands behind nobody.
LEMMA NextIsAhead ==
  ASSUME FeedInv, BackTrue
  PROVE  issued + 1 \notin written /\ ~Behind(issued + 1)
<1>1. issued \in Nat /\ written \subseteq 1..issued /\ floor \in 1..(issued + 1) /\ file \in Int
  BY BackNumbers
<1>2. issued + 1 \notin written
  BY <1>1
<1>3. ~(issued + 1 < floor) /\ ~(issued + 1 <= file)
  BY <1>1 DEF BackTrue, BackType
<1>4. ASSUME NEW w \in Active
      PROVE  ~(issued + 1 <= pass[w].cursor) /\ \A s \in DOMAIN pass[w].page : ~(issued + 1 < s)
  <2>1. PICK q : q = pass[w]
    OBVIOUS
  <2>2. q \in PassRows /\ PassTrue(q)
    BY <2>1 DEF BackTrue, BackType, Active
  <2>3. q.cursor \in Int
    BY <2>2, <1>1 DEF PassRows, NoCursor, Seqs
  <2>4. ~(issued + 1 <= q.cursor)
    BY <1>1, <2>2, <2>3 DEF PassTrue
  <2>5. ASSUME NEW s \in DOMAIN q.page PROVE ~(issued + 1 < s)
    <3>1. s \in 1..issued
      BY <1>1, <2>2 DEF PassTrue
    <3> QED
      BY <1>1, <3>1
  <2> QED
    BY <2>1, <2>4, <2>5
<1> QED
  BY <1>2, <1>3, <1>4 DEF Behind

\* The feed is written beside the passes.
LEMMA WriteBesideKeeps ==
  ASSUME FeedInv, BackTrue, FeedType', WriteBeside
  PROVE  BackTrue'
<1>0. /\ issued \in Nat /\ MaxSeq \in Nat /\ issued <= MaxSeq /\ DOMAIN feed \subseteq written
      /\ written \subseteq 1..issued /\ \A o \in open : o.seq \in 1..issued
  BY BackNumbers DEF FeedInv, FeedType
<1>1. ASSUME NEW e \in Events, AppendEvent(e), UNCHANGED backVars PROVE BackTrue'
  <2>1. /\ issued' = issued + 1 /\ feed' = WithRow(issued + 1, e)
        /\ written' = written \cup {issued + 1} /\ UNCHANGED <<open, floor>>
        /\ UNCHANGED <<file, pass, posts, dead, late>> /\ issued < MaxSeq
    BY <1>1 DEF AppendEvent, retained, backVars
  <2>2. DOMAIN feed' = DOMAIN feed \cup {issued + 1} /\ feed'[issued + 1] = e
        /\ \A s \in DOMAIN feed : feed'[s] = feed[s]
    <3>1. issued + 1 \notin DOMAIN feed
      BY <1>0
    <3> QED
      BY <2>1, <3>1 DEF WithRow
  <2>3. NumbersAreNew'
    <3>1. \A o \in open : o.seq # issued + 1
      BY <1>0
    <3> QED
      BY <2>1, <3>1 DEF BackTrue, NumbersAreNew
  <2>4. issued <= issued' /\ issued' <= MaxSeq
    BY <1>0, <2>1
  <2>5. \A s \in DOMAIN feed' : feed'[s] \in Events /\ (s < floor' => s \in late')
    BY <2>1, <2>2, NextIsAhead DEF BackTrue, BackType, Behind
  <2>6. \A s \in DOMAIN feed' : \/ s \in DOMAIN feed /\ feed'[s] = feed[s]
                                \/ s \notin written /\ (Behind(s) => s \in late')
    BY <2>2, NextIsAhead
  <2>7. \A o \in open' : o.event \in Events
    BY <2>1 DEF BackTrue, BackType
  <2> QED
    BY <2>1, <2>3, <2>4, <2>5, <2>6, <2>7, FeedBesidePasses
<1>2. ASSUME NEW e \in Events, Insert(e), UNCHANGED backVars PROVE BackTrue'
  <2>1. /\ issued' = issued + 1 /\ open' = open \cup {[seq |-> issued + 1, event |-> e]}
        /\ UNCHANGED <<feed, written, floor>>
        /\ UNCHANGED <<file, pass, posts, dead, late>> /\ issued < MaxSeq
    BY <1>2 DEF Insert, retained, backVars
  <2>2. PICK o : o = [seq |-> issued + 1, event |-> e]
    OBVIOUS
  <2>3. o.seq = issued + 1 /\ o.event = e /\ open' = open \cup {o}
    BY <2>1, <2>2
  <2>4. NumbersAreNew'
    <3>1. \A p \in open : p.seq # issued + 1
      BY <1>0
    <3>2. issued + 1 \notin written
      BY <1>0
    <3> QED
      BY <2>1, <2>3, <3>1, <3>2 DEF BackTrue, NumbersAreNew
  <2>5. issued <= issued' /\ issued' <= MaxSeq
    BY <1>0, <2>1
  <2>6. \A p \in open' : p.event \in Events
    BY <2>3 DEF BackTrue, BackType
  <2>7. \A s \in DOMAIN feed' : feed'[s] \in Events /\ (s < floor' => s \in late')
    BY <2>1 DEF BackTrue, BackType
  <2>8. \A s \in DOMAIN feed' : s \in DOMAIN feed /\ feed'[s] = feed[s]
    BY <2>1
  <2> QED
    BY <2>1, <2>4, <2>5, <2>6, <2>7, <2>8, FeedBesidePasses
<1>3. ASSUME NEW o \in open, Rollback(o), UNCHANGED backVars PROVE BackTrue'
  <2>1. /\ open' = open \ {o} /\ UNCHANGED <<feed, written, issued, floor>>
        /\ UNCHANGED <<file, pass, posts, dead, late>>
    BY <1>3 DEF Rollback, retained, backVars
  <2>2. NumbersAreNew' /\ \A p \in open' : p.event \in Events
    BY <2>1 DEF BackTrue, BackType, NumbersAreNew
  <2>3. \A s \in DOMAIN feed' : feed'[s] \in Events /\ (s < floor' => s \in late')
    BY <2>1 DEF BackTrue, BackType
  <2>4. issued <= issued' /\ issued' <= MaxSeq
    BY <1>0, <2>1
  <2> QED
    BY <2>1, <2>2, <2>3, <2>4, FeedBesidePasses
<1>4. ASSUME NEW o \in open, Commit(o),
             late' = late \cup (IF Behind(o.seq) THEN {o.seq} ELSE {}),
             UNCHANGED <<file, pass, posts, dead, faults>>
      PROVE  BackTrue'
  <2>1. /\ open' = open \ {o} /\ feed' = WithRow(o.seq, o.event)
        /\ written' = written \cup {o.seq} /\ UNCHANGED <<issued, floor>>
    BY <1>4 DEF Commit, retained
  <2>2. o.seq \notin written /\ o.seq \notin DOMAIN feed /\ o.event \in Events
    BY <1>0 DEF BackTrue, BackType, NumbersAreNew
  <2>3. DOMAIN feed' = DOMAIN feed \cup {o.seq} /\ feed'[o.seq] = o.event
        /\ \A s \in DOMAIN feed : feed'[s] = feed[s]
    BY <2>1, <2>2 DEF WithRow
  <2>4. NumbersAreNew' /\ \A p \in open' : p.event \in Events
    BY <2>1 DEF BackTrue, BackType, NumbersAreNew
  <2>5. late \subseteq late' /\ (Behind(o.seq) => o.seq \in late')
    BY <1>4
  <2>6. \A s \in DOMAIN feed' : feed'[s] \in Events /\ (s < floor' => s \in late')
    BY <2>1, <2>2, <2>3, <2>5 DEF BackTrue, BackType, Behind
  <2>7. issued <= issued' /\ issued' <= MaxSeq
    BY <1>0, <2>1
  <2>8. \A s \in DOMAIN feed' : \/ s \in DOMAIN feed /\ feed'[s] = feed[s]
                                \/ s \notin written /\ (Behind(s) => s \in late')
    BY <2>2, <2>3, <2>5
  <2> QED
    BY <1>4, <2>1, <2>4, <2>5, <2>6, <2>7, <2>8, FeedBesidePasses
<1> QED
  BY <1>1, <1>2, <1>3, <1>4 DEF WriteBeside

\* The feed is pruned beside the passes.
LEMMA PruneBesideKeeps ==
  ASSUME FeedInv, BackTrue, FeedType', Prune, UNCHANGED backVars
  PROVE  BackTrue'
<1>0. issued \in Nat /\ MaxSeq \in Nat /\ issued <= MaxSeq
      /\ UNCHANGED <<file, pass, posts, dead, late>>
  BY BackNumbers DEF backVars
<1>1. PICK p \in Pruners : (\E b \in Windows : PruneLook(p, b)) \/ PruneDecide(p) \/ PruneWrite(p)
  BY DEF Prune
<1>2. UNCHANGED <<open, written, issued>>
      /\ \A s \in DOMAIN feed' : s \in DOMAIN feed /\ feed'[s] = feed[s] /\ (s < floor' => s \in late')
  <2>1. CASE (\E b \in Windows : PruneLook(p, b)) \/ PruneDecide(p)
    <3>1. UNCHANGED <<feed, open, written, issued, floor>>
      BY <2>1 DEF PruneLook, PruneDecide, table
    <3> QED
      BY <1>0, <3>1 DEF BackTrue
  <2>2. CASE PruneWrite(p)
    <3>1. PICK n : n = pruning[p].floor
      OBVIOUS
    <3>2. floor' = n /\ feed' = [s \in Kept(n) |-> feed[s]] /\ UNCHANGED <<open, written, issued>>
      BY <2>2, <3>1 DEF PruneWrite
    <3>3. n \in Int /\ \A s \in DOMAIN feed : s \in Int
      <4>1. n \in 0..(issued + 1)
        BY <3>1 DEF FeedInv, FeedType
      <4>2. DOMAIN feed \subseteq 1..issued
        BY BackNumbers
      <4> QED
        BY <1>0, <4>1, <4>2
    <3>4. ASSUME NEW s \in Kept(n) PROVE s \in DOMAIN feed /\ ~(s < n)
      BY <3>3 DEF Kept
    <3> QED
      BY <3>2, <3>4
  <2> QED
    BY <1>1, <2>1, <2>2
<1>3. NumbersAreNew' /\ (\A o \in open' : o.event \in Events) /\ \A s \in DOMAIN feed' : feed'[s] \in Events
  BY <1>2 DEF BackTrue, BackType, NumbersAreNew
<1>4. issued <= issued' /\ issued' <= MaxSeq
  BY <1>0, <1>2
<1> QED
  BY <1>0, <1>2, <1>3, <1>4, FeedBesidePasses

LEMMA BackBegins == RegistryInit => BackInv
<1> SUFFICES ASSUME RegistryInit PROVE BackInv
  OBVIOUS
<1>1. FeedInit /\ BackInit /\ MaxSeq \in Nat
  BY FeedAssumption DEF RegistryInit
<1>2. DOMAIN feed = {} /\ open = {} /\ issued = 0 /\ file = NoCursor /\ written = {}
      /\ pass = [w \in Passes |-> NoPass] /\ posts = [n \in Seqs |-> 0]
  BY <1>1 DEF FeedInit, BackInit
<1>3. NoPass \in PassRows /\ NoPass.start = NoCursor /\ NoPass.cursor = NoCursor
      /\ DOMAIN NoPass.page = {} /\ NoPass.at = "idle"
  BY EmptyPage DEF NoPass, PassRows
<1>4. NoCursor <= 0 /\ NoCursor <= NoCursor
  BY DEF NoCursor
<1>5. PassTrue(NoPass)
  BY <1>2, <1>3, <1>4 DEF PassTrue, Clear
<1> HIDE DEF NoPass
<1>6. BackType
  <2>1. pass \in [Passes -> PassRows] /\ posts \in [Seqs -> Nat]
    BY <1>2, <1>3
  <2>2. file \in {NoCursor} \cup Seqs \cup {0} /\ file <= issued /\ issued <= MaxSeq
    BY <1>1, <1>2, <1>4
  <2> QED
    BY <1>2, <2>1, <2>2 DEF BackType
<1>7. BackTrue
  BY <1>2, <1>5, <1>6 DEF BackTrue, Clear, NumbersAreNew
<1> QED
  BY <1>2, <1>7 DEF BackInv

LEMMA RegistryKeepsBack ==
  ASSUME FeedInv, BackInv, [RegistryNext]_registryVars
  PROVE  BackInv'
<1>1. part' = part
  BY DEF RegistryNext, registryVars, FeedPart, BackPart, FollowPart, SnapPart, LeasePart,
         AnswerPart, SchemaPart, WorkPart, CallPart
<1>2. FeedType'
  BY RegistryKeepsFeed DEF FeedInv
<1>3. CASE part = "writeback"
  <2>1. BackTrue
    BY <1>3 DEF BackInv
  <2>2. BackNext \/ UNCHANGED <<backVars, feedVars>>
    BY <1>3 DEF RegistryNext, registryVars, feeders, FeedPart, BackPart, FollowPart, SnapPart,
                LeasePart, AnswerPart, SchemaPart, WorkPart, CallPart
  <2>3. ASSUME UNCHANGED <<backVars, feedVars>> PROVE BackTrue'
    BY <2>1, <2>3, BackStands DEF backVars
  <2>4. ASSUME BackReset PROVE BackTrue'
    BY <2>1, <2>4, BackStands DEF BackReset
  <2>5. ASSUME NEW w \in Passes, BackStep(w) \/ BackCrash(w) PROVE BackTrue'
    BY <2>1, <2>5, BackStartKeeps, BackReadKeeps, BackEventKeeps, BackTruncateKeeps,
       BackWriteKeeps DEF BackStep
  <2>6. BackTrue'
    BY <1>2, <2>1, <2>2, <2>3, <2>4, <2>5, WriteBesideKeeps, PruneBesideKeeps DEF BackNext
  <2> QED
    BY <1>1, <1>3, <2>6 DEF BackInv
<1>4. CASE part # "writeback"
  <2>1. UNCHANGED backVars
    BY <1>4 DEF RegistryNext, registryVars, feeders, FeedPart, BackPart, FollowPart, SnapPart,
                LeasePart, AnswerPart, SchemaPart, WorkPart, CallPart, FollowNext
  <2> QED
    BY <1>1, <1>4, <2>1 DEF BackInv, backVars
<1> QED
  BY <1>3, <1>4

\* The cursor file never passes a row whose notice was neither posted nor dead-
\* lettered, with any number of passes, writers and prunes beside each other and
\* wherever a pass fails or dies; but for a row that was committed behind it
\* (writeback.run).
THEOREM HandledFirst == RegistrySpec => []HandledBeforePassed
<1>1. RegistryInit => FeedInv /\ BackInv
  BY FeedBegins, BackBegins DEF RegistryInit
<1>2. FeedInv /\ BackInv /\ [RegistryNext]_registryVars => (FeedInv /\ BackInv)'
  BY RegistryKeepsFeed, RegistryKeepsBack
<1>3. FeedInv /\ BackInv => HandledBeforePassed
  <2> SUFFICES ASSUME FeedInv, BackInv, NEW s \in DOMAIN feed, s <= file, Addressed(feed[s])
               PROVE  Handled(s) \/ s \in late
    BY DEF HandledBeforePassed
  <2>1. CASE part = "writeback"
    BY <2>1 DEF BackInv, BackTrue, Clear, Settles
  <2>2. CASE part # "writeback"
    <3>1. s \in 1..issued /\ issued \in Nat
      BY DEF FeedInv, FeedType
    <3> QED
      BY <2>2, <3>1 DEF BackInv, NoCursor
  <2> QED
    BY <2>1, <2>2
<1> QED
  BY <1>1, <1>2, <1>3, PTL DEF RegistrySpec

-----------------------------------------------------------------------------
(* A harness that follows the library.                                      *)

\* The types that the argument needs, and the shape of a pass that has begun.
Notices == [kind : {"AsopVersioned", "AsopActivated", "AsopRetired"}, asop : Procs, edit : 1..edits]

FollowType ==
  /\ edits \in Nat /\ said \in [Procs -> 0..edits]
  /\ DOMAIN active = Procs /\ DOMAIN cache = Procs /\ DOMAIN sync = Syncs
  /\ saying \subseteq Notices
  /\ \A m, n \in saying : m.edit = n.edit => m = n
  /\ mark \in {NoCursor} \cup 0..issued
  /\ \A s \in DOMAIN feed : s >= floor

InPass(y) ==
  LET x == sync[y] IN
  /\ x = [at |-> x.at, alone |-> x.alone, next |-> x.next, todo |-> x.todo, got |-> x.got]
  /\ x.at \in {"applying", "putting"} /\ x.alone \in BOOLEAN
  /\ x.next \in 0..issued /\ DOMAIN x.todo \subseteq 1..issued
  /\ x.at = "putting" => DOMAIN x.todo # {}

\* A harness may come to hold what is active of p: no announcement failed, no
\* row of it was lost, and none is to come that is older than one that came.
Clean(p) ==
  /\ p \notin unsaid \cup spoiled
  /\ \A n \in saying : n.asop = p => n.edit >= said[p]

\* News of p on which a harness does what is right: any, or if none is active
\* only that it was retired.
NewsOf(p, r) == r.asop = p /\ (active[p] = NotActive => r.kind = "AsopRetired")
Ahead(p, t)  == \/ \E s \in DOMAIN feed : s > t /\ NewsOf(p, feed[s])
                \/ \E n \in saying : NewsOf(p, n)
StillHeld(p, y, rows) == \E s \in rows : NewsOf(p, sync[y].todo[s])

\* An active version has the last word: in the notices under way, or else on
\* the feed.
LastWord(p) ==
  active[p] # NotActive =>
    \/ \E n \in saying : /\ n.asop = p /\ n.kind # "AsopRetired"
                         /\ \A m \in saying : m.asop = p => m.edit <= n.edit
    \/ /\ \A n \in saying : n.asop # p
       /\ \A s \in DOMAIN feed : feed[s].asop = p /\ feed[s].kind = "AsopRetired" =>
            \E t \in DOMAIN feed : t > s /\ feed[t].asop = p

Farther(a, b) == IF a > b THEN a ELSE b

\* What is saved, and what a pass will save, leaves out nothing that is needed: the
\* copy is right, or news of it is ahead or still in hand.
MarkTells(p) == cache[p] = active[p] \/ Ahead(p, mark)

\* The rows a pass has in hand, the first of them, whether it has fetched p for it,
\* and how far the harness will have read.
InHandOf(y) == DOMAIN sync[y].todo
First(y)    == Min(InHandOf(y))
Puts(y, p)  == sync[y].at = "putting" /\ Row(y).asop = p
Reach(y)    == Farther(sync[y].next, mark)

PassTells(y, p) ==
  IF ~Puts(y, p)
  THEN cache[p] = active[p] \/ Ahead(p, Reach(y)) \/ StillHeld(p, y, InHandOf(y))
  ELSE sync[y].alone => \/ sync[y].got = active[p]
                        \/ Ahead(p, Reach(y)) \/ StillHeld(p, y, InHandOf(y) \ {First(y)})

\* A pass that no other ran beside has what the feed has, from its first row on.
PassIsWhole(y) ==
  /\ mark <= sync[y].next
  /\ \A s \in InHandOf(y) :
       /\ s > mark
       /\ s \in DOMAIN feed => sync[y].todo[s] = feed[s]
       /\ s \notin DOMAIN feed => sync[y].todo[s].asop \in spoiled
  /\ \A s \in DOMAIN feed, t \in InHandOf(y) : t <= s /\ s <= sync[y].next => s \in InHandOf(y)

Running(y) == sync[y].at # "idle"

ProcTrue(p) ==
  Clean(p) => /\ LastWord(p) /\ MarkTells(p)
              /\ \A y \in Syncs : Running(y) => PassTells(y, p)

SyncTrue(y) ==
  Running(y) =>
    /\ InPass(y)
    /\ sync[y].alone => PassIsWhole(y) /\ \A z \in Syncs \ {y} : ~Running(z)

FollowTrue ==
  /\ backend = "sqlite" /\ FollowType
  /\ \A p \in Procs : ProcTrue(p)
  /\ \A y \in Syncs : SyncTrue(y)

FollowInv ==
  IF part = "following" THEN FollowTrue ELSE cache = active
-----------------------------------------------------------------------------
LEMMA FollowBegins ==
  ASSUME FeedInit, FollowInit, backend = "sqlite" PROVE FollowTrue
<1>1. FollowType
  BY DEF FeedInit, FollowInit, FollowType, NotActive
<1>2. \A y \in Syncs : ~Running(y)
  BY DEF FollowInit, Running, Resting
<1>3. \A p \in Procs : ProcTrue(p)
  BY <1>2 DEF FollowInit, ProcTrue, LastWord, MarkTells
<1> QED
  BY <1>1, <1>2, <1>3 DEF FollowTrue, SyncTrue

\* The numbers of the feed, and of the passes.
LEMMA FeedNumbers ==
  ASSUME FeedInv, FollowType
  PROVE  /\ issued \in Nat /\ mark \in Int /\ mark <= issued /\ floor \in Nat
         /\ \A s \in DOMAIN feed : s \in Nat /\ s <= issued
<1>1. issued \in Nat /\ mark \in Int /\ mark <= issued /\ floor \in Nat
  BY DEF FeedInv, FeedType, FollowType, NoCursor
<1>2. DOMAIN feed \subseteq 1..issued
  BY DEF FeedInv, FeedType
<1> QED
  BY <1>1, <1>2

LEMMA PassNumbers ==
  ASSUME FeedInv, FollowType, NEW y, InPass(y)
  PROVE  /\ sync[y].next \in Nat /\ sync[y].next <= issued
         /\ Reach(y) \in Int /\ Reach(y) <= issued
         /\ sync[y].next <= Reach(y) /\ mark <= Reach(y)
         /\ \A s \in InHandOf(y) : s \in Nat /\ s <= issued
<1>1. issued \in Nat /\ mark \in Int /\ mark <= issued
  BY FeedNumbers
<1>2. /\ sync[y].next \in Nat /\ sync[y].next <= issued
      /\ \A s \in InHandOf(y) : s \in Nat /\ s <= issued
  BY <1>1 DEF InPass, InHandOf
<1>3. /\ Reach(y) \in Int /\ Reach(y) <= issued
      /\ sync[y].next <= Reach(y) /\ mark <= Reach(y)
  BY <1>1, <1>2 DEF Reach, Farther
<1> QED
  BY <1>2, <1>3

\* What is ahead of a number is ahead of one before it.
LEMMA AheadOfLess ==
  ASSUME FeedInv, FollowType, NEW p, NEW t \in Int, NEW u \in Int, t <= u, Ahead(p, u)
  PROVE  Ahead(p, t)
<1>1. \A s \in DOMAIN feed : s > u => s > t
  BY FeedNumbers
<1> QED
  BY <1>1 DEF Ahead

\* A pass without the row it has done.
LEMMA PastShape ==
  ASSUME issued \in Nat, issued' = issued, NEW y \in Syncs, DOMAIN sync = Syncs, InPass(y),
         InHandOf(y) # {}, sync' = [sync EXCEPT ![y] = Past(y)]
  PROVE  /\ InPass(y)' /\ sync'[y].at = "applying"
         /\ sync'[y].next = sync[y].next /\ sync'[y].alone = sync[y].alone
         /\ InHandOf(y)' = InHandOf(y) \ {First(y)}
         /\ \A s \in InHandOf(y)' : sync'[y].todo[s] = sync[y].todo[s]
         /\ First(y) \in InHandOf(y) /\ \A s \in InHandOf(y) : First(y) <= s
<1> DEFINE rest == [s \in InHandOf(y) \ {First(y)} |-> sync[y].todo[s]]
<1>1. PICK w : w = sync[y]
  OBVIOUS
<1>2. /\ w = [at |-> w.at, alone |-> w.alone, next |-> w.next, todo |-> w.todo, got |-> w.got]
      /\ w.alone \in BOOLEAN /\ w.next \in 0..issued /\ DOMAIN w.todo \subseteq 1..issued
  BY <1>1 DEF InPass
<1>3. Past(y) = [w EXCEPT !.at = "applying", !.got = NotActive, !.todo = rest]
  BY <1>1, <1>2 DEF Past, InHandOf, First
<1>4. DOMAIN rest = InHandOf(y) \ {First(y)} /\ \A s \in DOMAIN rest : rest[s] = sync[y].todo[s]
  OBVIOUS
<1> HIDE DEF rest
<1>5. PICK x : x = Past(y)
  OBVIOUS
<1>6. x = [at |-> "applying", alone |-> w.alone, next |-> w.next, todo |-> rest, got |-> NotActive]
  BY <1>2, <1>3, <1>5
<1>7. x.at = "applying" /\ x.alone = w.alone /\ x.next = w.next /\ x.todo = rest /\ x.got = NotActive
  BY <1>6
<1>8. sync'[y] = x
  BY <1>5
<1>9. DOMAIN x.todo \subseteq 1..issued
  BY <1>1, <1>2, <1>4, <1>7 DEF InHandOf
<1>10. InPass(y)'
  BY <1>2, <1>6, <1>7, <1>8, <1>9 DEF InPass
<1>11. First(y) \in InHandOf(y) /\ \A s \in InHandOf(y) : First(y) <= s
  <2>1. InHandOf(y) \in SUBSET Nat
    BY <1>1, <1>2 DEF InHandOf
  <2> QED
    BY <2>1, LeastOf DEF First
<1>12. InHandOf(y)' = DOMAIN rest /\ \A s \in DOMAIN rest : sync'[y].todo[s] = rest[s]
  BY <1>7, <1>8 DEF InHandOf
<1> QED
  BY <1>1, <1>4, <1>7, <1>8, <1>10, <1>11, <1>12

\* When the feed and the library rest and one pass that has begun goes on, or ends.
LEMMA PassGoesOn ==
  ASSUME FeedInv, FollowTrue, NEW y \in Syncs, Running(y), NEW x,
         sync' = [sync EXCEPT ![y] = x], SyncLeaves, spoiled \subseteq spoiled',
         mark' \in {NoCursor} \cup 0..issued, DOMAIN cache' = Procs,
         Running(y)' => InPass(y)' /\ (sync'[y].alone => sync[y].alone /\ PassIsWhole(y)'),
         \A p \in Procs : Clean(p) /\ Clean(p)' =>
           /\ MarkTells(p)'
           /\ Running(y)' => PassTells(y, p)'
           /\ \A z \in Syncs \ {y} :
                InPass(z) /\ ~Puts(z, p) /\ PassTells(z, p) =>
                  cache'[p] = active[p] \/ Ahead(p, Reach(z)') \/ StillHeld(p, z, InHandOf(z))
  PROVE  FollowTrue'
<1>0. UNCHANGED <<feedVars, active, edits, saying, said, unsaid>>
  BY DEF SyncLeaves, library
<1>1. UNCHANGED <<issued, feed, floor, backend>>
  BY <1>0 DEF feedVars, table, retained
<1>2. FollowType'
  BY <1>0, <1>1 DEF FollowTrue, FollowType, Notices
<1>3. \A z \in Syncs \ {y} : sync'[z] = sync[z]
  BY DEF FollowTrue, FollowType
<1>4. ASSUME NEW z \in Syncs \ {y}, Running(z)
      PROVE  InPass(z) /\ ~sync[z].alone
  BY <1>4 DEF FollowTrue, SyncTrue
<1>5. ASSUME NEW z \in Syncs PROVE SyncTrue(z)'
  <2>1. CASE z # y
    <3>1. ASSUME Running(z)' PROVE InPass(z)' /\ ~sync'[z].alone
      BY <1>1, <1>3, <1>4, <2>1, <3>1 DEF Running, InPass
    <3> QED
      BY <3>1 DEF SyncTrue
  <2>2. CASE z = y
    <3>1. sync[y].alone => \A v \in Syncs \ {y} : ~Running(v)
      BY DEF FollowTrue, SyncTrue
    <3>2. sync[y].alone => \A v \in Syncs \ {y} : ~Running(v)'
      BY <1>3, <3>1 DEF Running
    <3> QED
      BY <2>2, <3>2 DEF SyncTrue
  <2> QED
    BY <2>1, <2>2
<1>6. ASSUME NEW p \in Procs, Clean(p)' PROVE ProcTrue(p)'
  <2>1. Clean(p)
    BY <1>0, <1>6 DEF Clean
  <2>2. LastWord(p) /\ \A z \in Syncs : Running(z) => PassTells(z, p)
    BY <2>1 DEF FollowTrue, ProcTrue
  <2>3. LastWord(p)'
    BY <1>0, <1>1, <2>2 DEF LastWord
  <2>4. ASSUME NEW z \in Syncs \ {y}, Running(z)' PROVE PassTells(z, p)'
    <3>1. sync'[z] = sync[z] /\ Running(z)
      BY <1>3, <2>4 DEF Running
    <3>2. InPass(z) /\ ~sync[z].alone /\ PassTells(z, p)
      BY <1>4, <2>2, <3>1
    <3>3. (Puts(z, p)' <=> Puts(z, p)) /\ InHandOf(z)' = InHandOf(z)
      BY <3>1 DEF Puts, Row, InHandOf
    <3>4. CASE Puts(z, p)
      BY <3>1, <3>2, <3>3, <3>4 DEF PassTells
    <3>5. CASE ~Puts(z, p)
      <4>1. cache'[p] = active[p] \/ Ahead(p, Reach(z)') \/ StillHeld(p, z, InHandOf(z))
        BY <1>6, <2>1, <3>2, <3>5
      <4>2. Ahead(p, Reach(z)') => Ahead(p, Reach(z))'
        BY <1>0, <1>1 DEF Ahead, NewsOf
      <4>3. StillHeld(p, z, InHandOf(z)) => StillHeld(p, z, InHandOf(z))'
        BY <1>0, <3>1, <3>3 DEF StillHeld, NewsOf
      <4> QED
        BY <1>0, <3>3, <3>5, <4>1, <4>2, <4>3 DEF PassTells
    <3> QED
      BY <3>4, <3>5
  <2>5. \A z \in Syncs : Running(z)' => PassTells(z, p)'
    BY <1>6, <2>1, <2>4
  <2>6. MarkTells(p)'
    BY <1>6, <2>1
  <2> QED
    BY <2>3, <2>5, <2>6 DEF ProcTrue
<1>7. backend' = "sqlite"
  BY <1>1 DEF FollowTrue
<1> QED
  BY <1>2, <1>5, <1>6, <1>7 DEF FollowTrue, ProcTrue

\* A row that is no news of p, or none any more, is done; all others of it stay
\* in hand.
LEMMA RowDone ==
  ASSUME issued \in Nat, issued' = issued, NEW y \in Syncs, FollowType, InPass(y),
         InHandOf(y) # {}, sync' = [sync EXCEPT ![y] = Past(y)], NEW p,
         UNCHANGED <<feed, saying, active, mark>>
  PROVE  /\ ~Puts(y, p)'
         /\ Ahead(p, Reach(y)) => Ahead(p, Reach(y))'
         /\ StillHeld(p, y, InHandOf(y) \ {First(y)}) => StillHeld(p, y, InHandOf(y))'
         /\ StillHeld(p, y, InHandOf(y)) /\ ~NewsOf(p, Row(y)) => StillHeld(p, y, InHandOf(y))'
<1>1. /\ sync'[y].at = "applying" /\ sync'[y].next = sync[y].next
      /\ InHandOf(y)' = InHandOf(y) \ {First(y)}
      /\ \A s \in InHandOf(y)' : sync'[y].todo[s] = sync[y].todo[s]
  BY PastShape DEF FollowType
<1>2. ~Puts(y, p)'
  BY <1>1 DEF Puts
<1>3. Ahead(p, Reach(y)) => Ahead(p, Reach(y))'
  BY <1>1 DEF Ahead, Reach, Farther, NewsOf
<1>4. StillHeld(p, y, InHandOf(y) \ {First(y)}) => StillHeld(p, y, InHandOf(y))'
  BY <1>1 DEF StillHeld, NewsOf
<1>5. StillHeld(p, y, InHandOf(y)) /\ ~NewsOf(p, Row(y)) => StillHeld(p, y, InHandOf(y) \ {First(y)})
  BY DEF StillHeld, Row, First, InHandOf
<1> QED
  BY <1>2, <1>3, <1>4, <1>5

\* A pass remains whole without its first row.
LEMMA PastIsWhole ==
  ASSUME FeedInv, FollowTrue, NEW y \in Syncs, InPass(y), InHandOf(y) # {},
         sync' = [sync EXCEPT ![y] = Past(y)], PassIsWhole(y),
         UNCHANGED <<feedVars, mark>>, spoiled \subseteq spoiled'
  PROVE  PassIsWhole(y)'
<1>0. UNCHANGED <<issued, feed>> /\ FollowType /\ issued \in Nat
  BY FeedNumbers DEF feedVars, table, FollowTrue
<1>1. /\ sync'[y].next = sync[y].next
      /\ InHandOf(y)' = InHandOf(y) \ {First(y)}
      /\ \A s \in InHandOf(y)' : sync'[y].todo[s] = sync[y].todo[s]
      /\ First(y) \in InHandOf(y) /\ \A s \in InHandOf(y) : First(y) <= s
  BY <1>0, PastShape DEF FollowType
<1>2. mark' <= sync'[y].next
  BY <1>1 DEF PassIsWhole
<1>3. \A s \in InHandOf(y)' : /\ s > mark'
                              /\ s \in DOMAIN feed' => sync'[y].todo[s] = feed'[s]
                              /\ s \notin DOMAIN feed' => sync'[y].todo[s].asop \in spoiled'
  BY <1>0, <1>1 DEF PassIsWhole
<1>4. ASSUME NEW s \in DOMAIN feed', NEW t \in InHandOf(y)', t <= s, s <= sync'[y].next
      PROVE  s \in InHandOf(y)'
  <2>1. s \in InHandOf(y)
    BY <1>0, <1>1, <1>4 DEF PassIsWhole
  <2>2. s # First(y)
    <3>1. t # First(y) /\ First(y) <= t /\ t \in InHandOf(y)
      BY <1>1, <1>4
    <3>2. t \in Nat /\ First(y) \in Nat
      BY <1>0, <1>1, <3>1, PassNumbers
    <3> QED
      BY <1>4, <3>1, <3>2
  <2> QED
    BY <1>1, <2>1, <2>2
<1> QED
  BY <1>2, <1>3, <1>4 DEF PassIsWhole

\* A copy is written or dropped: the right one, unless another pass runs beside.
LEMMA CachedKeeps ==
  ASSUME FeedInv, FollowTrue, NEW y \in Syncs, Running(y), InHandOf(y) # {}, NEW now, Cached(y, now),
         sync[y].at = "putting" \/ sync[y].at = "applying",
         sync[y].alone /\ Clean(Row(y).asop) /\ Row(y).asop \in Procs =>
           \/ now = active[Row(y).asop] \/ Ahead(Row(y).asop, Reach(y))
           \/ StillHeld(Row(y).asop, y, InHandOf(y) \ {First(y)})
  PROVE  FollowTrue'
<1> DEFINE p0 == Row(y).asop
<1>0. /\ UNCHANGED <<feedVars, active, edits, saying, said, unsaid, mark, deaths>>
      /\ cache' = [cache EXCEPT ![p0] = now]
      /\ spoiled' = spoiled \cup (IF sync[y].alone THEN {} ELSE {p0})
      /\ sync' = [sync EXCEPT ![y] = Past(y)] /\ SyncLeaves
  BY DEF Cached, SyncMoves, SyncLeaves, library
<1>1. UNCHANGED <<issued, feed, floor>> /\ issued \in Nat /\ FollowType
  BY <1>0, FeedNumbers DEF feedVars, table, retained, FollowTrue
<1>2. InPass(y) /\ (sync[y].alone => PassIsWhole(y))
  BY DEF FollowTrue, SyncTrue
<1>3. /\ InPass(y)' /\ sync'[y].alone = sync[y].alone
      /\ \A s \in InHandOf(y)' : sync'[y].todo[s] = sync[y].todo[s]
  BY <1>0, <1>1, <1>2, PastShape DEF FollowType
<1>4. sync[y].alone => PassIsWhole(y)'
  BY <1>0, <1>2, PastIsWhole
<1>5. DOMAIN cache' = Procs /\ mark' \in {NoCursor} \cup 0..issued /\ mark' = mark
  BY <1>0, <1>1 DEF FollowType
<1>6. ASSUME NEW p \in Procs, Clean(p), Clean(p)'
      PROVE  /\ MarkTells(p)' /\ PassTells(y, p)'
             /\ \A z \in Syncs \ {y} :
                  InPass(z) /\ ~Puts(z, p) /\ PassTells(z, p) /\ Running(z) =>
                    cache'[p] = active[p] \/ Ahead(p, Reach(z)') \/ StillHeld(p, z, InHandOf(z))
  <2>1. MarkTells(p) /\ PassTells(y, p)
    BY <1>6 DEF FollowTrue, ProcTrue
  <2>2. /\ ~Puts(y, p)'
        /\ Ahead(p, Reach(y)) => Ahead(p, Reach(y))'
        /\ StillHeld(p, y, InHandOf(y) \ {First(y)}) => StillHeld(p, y, InHandOf(y))'
        /\ StillHeld(p, y, InHandOf(y)) /\ ~NewsOf(p, Row(y)) => StillHeld(p, y, InHandOf(y))'
    BY <1>0, <1>1, <1>2, RowDone
  <2>3. Ahead(p, mark) => Ahead(p, mark)'
    BY <1>0, <1>1 DEF Ahead, NewsOf
  <2>4. CASE p # p0
    <3>1. cache'[p] = cache[p]
      BY <1>0, <2>4 DEF FollowType
    <3>2. ~Puts(y, p) /\ ~NewsOf(p, Row(y))
      BY <2>4 DEF Puts, NewsOf
    <3>3. MarkTells(p)'
      BY <1>0, <2>1, <2>3, <3>1 DEF MarkTells
    <3>4. PassTells(y, p)'
      BY <1>0, <2>1, <2>2, <3>1, <3>2 DEF PassTells
    <3>5. \A z \in Syncs \ {y} : Reach(z)' = Reach(z)
      BY <1>0, <1>1 DEF Reach, FollowType
    <3> QED
      BY <3>1, <3>3, <3>4, <3>5 DEF PassTells
  <2>5. CASE p = p0
    <3>1. sync[y].alone
      BY <1>0, <1>6, <2>5 DEF Clean
    <3>2. now = active[p] \/ Ahead(p, Reach(y)) \/ StillHeld(p, y, InHandOf(y) \ {First(y)})
      BY <1>6, <2>5, <3>1
    <3>3. cache'[p] = now
      BY <1>0, <1>1, <2>5 DEF FollowType
    <3>4. PassTells(y, p)'
      BY <1>0, <2>2, <3>2, <3>3 DEF PassTells
    <3>5. Ahead(p, Reach(y)) => Ahead(p, mark)
      BY <1>1, <1>2, FeedNumbers, PassNumbers, AheadOfLess
    <3>6. StillHeld(p, y, InHandOf(y) \ {First(y)}) => Ahead(p, mark)
      <4> SUFFICES ASSUME NEW s \in InHandOf(y), NewsOf(p, sync[y].todo[s]) PROVE Ahead(p, mark)
        BY DEF StillHeld
      <4>1. /\ s > mark
            /\ s \in DOMAIN feed => sync[y].todo[s] = feed[s]
            /\ s \notin DOMAIN feed => sync[y].todo[s].asop \in spoiled
        BY <1>2, <3>1 DEF PassIsWhole
      <4>2. s \in DOMAIN feed /\ NewsOf(p, feed[s])
        BY <1>6, <4>1 DEF NewsOf, Clean
      <4> QED
        BY <4>1, <4>2 DEF Ahead
    <3>7. MarkTells(p)'
      BY <1>0, <2>3, <3>2, <3>3, <3>5, <3>6 DEF MarkTells
    <3>8. \A z \in Syncs \ {y} : ~Running(z)
      BY <3>1 DEF FollowTrue, SyncTrue
    <3> QED
      BY <3>4, <3>7, <3>8
  <2> QED
    BY <2>4, <2>5
<1>7. PICK x : x = Past(y)
  OBVIOUS
<1>8. sync' = [sync EXCEPT ![y] = x]
  BY <1>0, <1>7
<1>9. spoiled \subseteq spoiled'
  BY <1>0
<1>10. \A z \in Syncs : InPass(z) => Running(z)
  BY DEF InPass, Running
<1>11. Running(y)' => InPass(y)' /\ (sync'[y].alone => sync[y].alone /\ PassIsWhole(y)')
  BY <1>3, <1>4
<1>12. \A p \in Procs : Clean(p) /\ Clean(p)' =>
         /\ MarkTells(p)'
         /\ Running(y)' => PassTells(y, p)'
         /\ \A z \in Syncs \ {y} :
              InPass(z) /\ ~Puts(z, p) /\ PassTells(z, p) =>
                cache'[p] = active[p] \/ Ahead(p, Reach(z)') \/ StillHeld(p, z, InHandOf(z))
  BY <1>6, <1>10
<1> QED
  BY <1>0, <1>5, <1>8, <1>9, <1>11, <1>12, PassGoesOn

\* A pass that leaves the cache and the saved cursor alone leaves the others right.
LEMMA OthersRest ==
  ASSUME FollowType, UNCHANGED <<cache, active, mark>>, NEW y \in Syncs, NEW x,
         sync' = [sync EXCEPT ![y] = x], NEW p
  PROVE  \A z \in Syncs \ {y} :
           InPass(z) /\ ~Puts(z, p) /\ PassTells(z, p) =>
             cache'[p] = active[p] \/ Ahead(p, Reach(z)') \/ StillHeld(p, z, InHandOf(z))
<1>1. \A z \in Syncs \ {y} : Reach(z)' = Reach(z)
  BY DEF Reach, FollowType
<1> QED
  BY <1>1 DEF PassTells

\* What is retired is dropped.  If it is active again, its last word is ahead.
LEMMA DropKeeps ==
  ASSUME FeedInv, FollowTrue, NEW y \in Syncs, SyncDrop(y)
  PROVE  FollowTrue'
<1> DEFINE p == Row(y).asop
<1>1. /\ sync[y].at = "applying" /\ InHandOf(y) # {} /\ Row(y).kind = "AsopRetired"
      /\ Cached(y, NotActive) /\ Running(y)
  BY DEF SyncDrop, RowsLeft, InHandOf, Running
<1>2. ASSUME sync[y].alone, Clean(p), p \in Procs, NotActive # active[p]
      PROVE  Ahead(p, Reach(y)) \/ StillHeld(p, y, InHandOf(y) \ {First(y)})
  <2>1. InPass(y) /\ PassIsWhole(y) /\ LastWord(p)
    BY <1>1, <1>2 DEF FollowTrue, SyncTrue, ProcTrue
  <2>2. CASE \E n \in saying : n.asop = p
    BY <1>2, <2>2 DEF Ahead, NewsOf
  <2>3. CASE \A n \in saying : n.asop # p
    <3>1. \A s \in DOMAIN feed : feed[s].asop = p /\ feed[s].kind = "AsopRetired" =>
            \E t \in DOMAIN feed : t > s /\ feed[t].asop = p
      BY <1>2, <2>1, <2>3 DEF LastWord
    <3>2. First(y) \in InHandOf(y)
      <4>1. InHandOf(y) \in SUBSET Nat
        BY <2>1, PassNumbers DEF FollowTrue
      <4> QED
        BY <1>1, <4>1, LeastOf DEF First
    <3>3. Row(y) = sync[y].todo[First(y)]
      BY DEF Row, First, InHandOf
    <3>4. First(y) \in DOMAIN feed /\ feed[First(y)] = Row(y)
      <4>1. First(y) \notin DOMAIN feed => p \in spoiled
        BY <2>1, <3>2, <3>3 DEF PassIsWhole
      <4> QED
        BY <1>2, <2>1, <3>2, <3>3, <4>1 DEF PassIsWhole, Clean
    <3>5. PICK t \in DOMAIN feed : t > First(y) /\ feed[t].asop = p
      BY <1>1, <3>1, <3>4
    <3>6. NewsOf(p, feed[t])
      BY <1>2, <3>5 DEF NewsOf
    <3>7. t \in Nat /\ First(y) \in Nat /\ sync[y].next \in Nat /\ mark \in Int
      BY <2>1, <3>2, FeedNumbers, PassNumbers DEF FollowTrue
    <3>8. CASE t > sync[y].next
      <4>1. mark <= sync[y].next
        BY <2>1 DEF PassIsWhole
      <4>2. t > Reach(y)
        BY <3>7, <3>8, <4>1 DEF Reach, Farther
      <4> QED
        BY <3>6, <4>2 DEF Ahead
    <3>9. CASE ~(t > sync[y].next)
      <4>1. First(y) <= t /\ t <= sync[y].next /\ t # First(y)
        BY <3>5, <3>7, <3>9
      <4>2. t \in InHandOf(y) \ {First(y)}
        BY <2>1, <3>2, <4>1 DEF PassIsWhole
      <4>3. NewsOf(p, sync[y].todo[t])
        BY <2>1, <3>6, <4>2 DEF PassIsWhole
      <4> QED
        BY <4>2, <4>3 DEF StillHeld
    <3> QED
      BY <3>8, <3>9
  <2> QED
    BY <2>2, <2>3
<1> HIDE DEF p
<1>3. sync[y].alone /\ Clean(Row(y).asop) /\ Row(y).asop \in Procs =>
        \/ NotActive = active[Row(y).asop] \/ Ahead(Row(y).asop, Reach(y))
        \/ StillHeld(Row(y).asop, y, InHandOf(y) \ {First(y)})
  BY <1>2 DEF p
<1> QED
  BY <1>1, <1>3, CachedKeeps

\* What was fetched is put: nothing is active since, or news of it is ahead.
LEMMA PutKeeps ==
  ASSUME FeedInv, FollowTrue, NEW y \in Syncs, SyncPut(y)
  PROVE  FollowTrue'
<1>1. sync[y].at = "putting" /\ Cached(y, sync[y].got) /\ Running(y)
  BY DEF SyncPut, Running
<1>2. InHandOf(y) # {}
  BY <1>1 DEF FollowTrue, SyncTrue, InPass, InHandOf
<1>3. sync[y].alone /\ Clean(Row(y).asop) /\ Row(y).asop \in Procs =>
        \/ sync[y].got = active[Row(y).asop] \/ Ahead(Row(y).asop, Reach(y))
        \/ StillHeld(Row(y).asop, y, InHandOf(y) \ {First(y)})
  BY <1>1 DEF FollowTrue, ProcTrue, PassTells, Puts
<1>4. PICK now : now = sync[y].got
  OBVIOUS
<1> QED
  BY <1>1, <1>2, <1>3, <1>4, CachedKeeps

\* A row that changes nothing: its fetch failed, or found nothing to put.
LEMMA PassedKeeps ==
  ASSUME FeedInv, FollowTrue, NEW y \in Syncs, RowsLeft(y), SyncMoves(y, Past(y)), SyncLeaves,
         UNCHANGED <<cache, mark>>, spoiled \subseteq spoiled',
         \A p \in Procs : Clean(p)' => ~NewsOf(p, Row(y))
  PROVE  FollowTrue'
<1>1. sync[y].at = "applying" /\ InHandOf(y) # {} /\ Running(y)
  BY DEF RowsLeft, InHandOf, Running
<1>2. sync' = [sync EXCEPT ![y] = Past(y)]
  BY DEF SyncMoves
<1>3. UNCHANGED <<feedVars, issued, feed, active, saying>> /\ issued \in Nat /\ FollowType
  BY FeedNumbers DEF SyncLeaves, library, feedVars, table, FollowTrue
<1>4. InPass(y) /\ (sync[y].alone => PassIsWhole(y))
  BY <1>1 DEF FollowTrue, SyncTrue
<1>5. InPass(y)' /\ sync'[y].alone = sync[y].alone
  BY <1>1, <1>2, <1>3, <1>4, PastShape DEF FollowType
<1>6. sync[y].alone => PassIsWhole(y)'
  BY <1>1, <1>2, <1>3, <1>4, PastIsWhole
<1>7. PICK x : x = Past(y)
  OBVIOUS
<1>8. sync' = [sync EXCEPT ![y] = x]
  BY <1>2, <1>7
<1>9. ASSUME NEW p \in Procs, Clean(p), Clean(p)'
      PROVE  MarkTells(p)' /\ PassTells(y, p)'
  <2>1. MarkTells(p) /\ PassTells(y, p) /\ ~Puts(y, p)
    BY <1>1, <1>9 DEF FollowTrue, ProcTrue, Puts
  <2>2. /\ ~Puts(y, p)'
        /\ Ahead(p, Reach(y)) => Ahead(p, Reach(y))'
        /\ StillHeld(p, y, InHandOf(y)) => StillHeld(p, y, InHandOf(y))'
    BY <1>1, <1>2, <1>3, <1>4, <1>9, RowDone
  <2>3. MarkTells(p)'
    BY <1>3, <2>1 DEF MarkTells, Ahead, NewsOf
  <2> QED
    BY <1>3, <2>1, <2>2, <2>3 DEF PassTells
<1>10. \A p \in Procs : Clean(p) /\ Clean(p)' =>
         /\ MarkTells(p)'
         /\ Running(y)' => PassTells(y, p)'
         /\ \A z \in Syncs \ {y} :
              InPass(z) /\ ~Puts(z, p) /\ PassTells(z, p) =>
                cache'[p] = active[p] \/ Ahead(p, Reach(z)') \/ StillHeld(p, z, InHandOf(z))
  BY <1>3, <1>8, <1>9, OthersRest
<1>11. mark' \in {NoCursor} \cup 0..issued /\ DOMAIN cache' = Procs
  BY <1>3 DEF FollowType
<1>12. Running(y)' => InPass(y)' /\ (sync'[y].alone => sync[y].alone /\ PassIsWhole(y)')
  BY <1>5, <1>6
<1> QED
  BY <1>1, <1>8, <1>10, <1>11, <1>12, PassGoesOn

LEMMA SkipKeeps ==
  ASSUME FeedInv, FollowTrue, NEW y \in Syncs, SyncSkip(y)
  PROVE  FollowTrue'
<1>1. \A p \in Procs : Clean(p)' => ~NewsOf(p, Row(y))
  BY DEF SyncSkip, Clean, NewsOf
<1> QED
  BY <1>1, PassedKeeps DEF SyncSkip

\* A pass fetches what is active.
LEMMA FetchKeeps ==
  ASSUME FeedInv, FollowTrue, NEW y \in Syncs, SyncFetch(y)
  PROVE  FollowTrue'
<1> DEFINE now == active[Row(y).asop]
<1>1. /\ RowsLeft(y) /\ Row(y).kind # "AsopRetired" /\ SyncLeaves /\ UNCHANGED <<cache, mark, spoiled>>
      /\ sync[y].at = "applying" /\ InHandOf(y) # {} /\ Running(y)
  BY DEF SyncFetch, RowsLeft, InHandOf, Running
<1>2. CASE now = NotActive
  <2>1. \A p \in Procs : ~NewsOf(p, Row(y))
    BY <1>1, <1>2 DEF NewsOf
  <2>2. SyncMoves(y, Past(y))
    BY <1>2 DEF SyncFetch
  <2> QED
    BY <1>1, <2>1, <2>2, PassedKeeps
<1>3. CASE now # NotActive
  <2>1. PICK w : w = sync[y]
    OBVIOUS
  <2>2. PICK got : got = now
    OBVIOUS
  <2>3. PICK x : x = [w EXCEPT !.at = "putting", !.got = got]
    OBVIOUS
  <2>4. sync' = [sync EXCEPT ![y] = x]
    BY <1>3, <2>1, <2>2, <2>3 DEF SyncFetch, SyncMoves
  <2>5. UNCHANGED <<feedVars, issued, feed, active, saying>> /\ FollowType
    BY <1>1 DEF SyncLeaves, library, feedVars, table, FollowTrue
  <2>6. InPass(y) /\ (sync[y].alone => PassIsWhole(y))
    BY <1>1 DEF FollowTrue, SyncTrue
  <2>7. w = [at |-> w.at, alone |-> w.alone, next |-> w.next, todo |-> w.todo, got |-> w.got]
    BY <2>1, <2>6 DEF InPass
  <2>8. x = [at |-> "putting", alone |-> w.alone, next |-> w.next, todo |-> w.todo, got |-> got]
    BY <2>3, <2>7
  <2>9. x.at = "putting" /\ x.alone = w.alone /\ x.next = w.next /\ x.todo = w.todo /\ x.got = got
    BY <2>8
  <2>10. sync'[y] = x
    BY <2>4, <2>5 DEF FollowType
  <2>11. /\ InHandOf(y)' = InHandOf(y) /\ Row(y)' = Row(y) /\ First(y)' = First(y)
         /\ Reach(y)' = Reach(y) /\ sync'[y].todo = sync[y].todo
    BY <1>1, <2>1, <2>9, <2>10 DEF InHandOf, Row, First, Reach
  <2>12. InPass(y)'
    BY <1>1, <2>1, <2>5, <2>6, <2>8, <2>9, <2>10 DEF InPass, InHandOf
  <2>13. sync'[y].alone => sync[y].alone /\ PassIsWhole(y)'
    BY <1>1, <2>1, <2>5, <2>6, <2>9, <2>10, <2>11 DEF PassIsWhole
  <2>14. ASSUME NEW p \in Procs, Clean(p)
         PROVE  MarkTells(p)' /\ PassTells(y, p)'
    <3>1. MarkTells(p) /\ PassTells(y, p) /\ ~Puts(y, p)
      BY <1>1, <2>14 DEF FollowTrue, ProcTrue, Puts
    <3>2. MarkTells(p)'
      BY <1>1, <2>5, <3>1 DEF MarkTells, Ahead, NewsOf
    <3>3. CASE p = Row(y).asop
      <4>1. Puts(y, p)' /\ sync'[y].got = active'[p]
        BY <2>2, <2>5, <2>9, <2>10, <2>11, <3>3 DEF Puts
      <4> QED
        BY <3>2, <4>1 DEF PassTells
    <3>4. CASE p # Row(y).asop
      <4>1. ~Puts(y, p)'
        BY <2>11, <3>4 DEF Puts
      <4>2. Ahead(p, Reach(y)) => Ahead(p, Reach(y))'
        BY <2>5, <2>11 DEF Ahead, NewsOf
      <4>3. StillHeld(p, y, InHandOf(y)) => StillHeld(p, y, InHandOf(y))'
        BY <2>5, <2>11 DEF StillHeld, NewsOf
      <4> QED
        BY <1>1, <2>5, <3>1, <3>2, <4>1, <4>2, <4>3 DEF PassTells
    <3> QED
      BY <3>3, <3>4
  <2>15. \A p \in Procs : Clean(p) /\ Clean(p)' =>
         /\ MarkTells(p)'
         /\ Running(y)' => PassTells(y, p)'
         /\ \A z \in Syncs \ {y} :
              InPass(z) /\ ~Puts(z, p) /\ PassTells(z, p) =>
                cache'[p] = active[p] \/ Ahead(p, Reach(z)') \/ StillHeld(p, z, InHandOf(z))
    BY <1>1, <2>4, <2>5, <2>14, OthersRest
  <2>16. mark' \in {NoCursor} \cup 0..issued /\ DOMAIN cache' = Procs /\ spoiled \subseteq spoiled'
    BY <1>1, <2>5 DEF FollowType
  <2> QED
    BY <1>1, <2>4, <2>12, <2>13, <2>15, <2>16, PassGoesOn
<1> QED
  BY <1>2, <1>3

\* A pass ends: dead, or with its cursor saved.
LEMMA EndKeeps ==
  ASSUME FeedInv, FollowTrue, NEW y \in Syncs, SyncSave(y) \/ SyncDies(y)
  PROVE  FollowTrue'
<1>1. /\ Running(y) /\ SyncLeaves /\ UNCHANGED <<cache, spoiled>>
      /\ sync' = [sync EXCEPT ![y] = Resting]
      /\ \/ mark' = mark
         \/ mark' = sync[y].next /\ sync[y].at = "applying" /\ InHandOf(y) = {}
  BY DEF SyncSave, SyncDies, SyncMoves, PageDone, Running, InHandOf
<1>2. UNCHANGED <<feedVars, issued, feed, active, saying>> /\ FollowType
  BY <1>1 DEF SyncLeaves, library, feedVars, table, FollowTrue
<1>3. ~Running(y)'
  BY <1>1, <1>2 DEF Running, Resting, FollowType
<1>4. InPass(y)
  BY <1>1 DEF FollowTrue, SyncTrue
<1>5. mark' \in {NoCursor} \cup 0..issued /\ DOMAIN cache' = Procs
  BY <1>1, <1>2, <1>4 DEF FollowType, InPass
<1>6. ASSUME NEW p \in Procs, Clean(p)
      PROVE  /\ MarkTells(p)'
             /\ \A z \in Syncs \ {y} :
                  InPass(z) /\ ~Puts(z, p) /\ PassTells(z, p) =>
                    cache'[p] = active[p] \/ Ahead(p, Reach(z)') \/ StillHeld(p, z, InHandOf(z))
  <2>1. MarkTells(p) /\ PassTells(y, p)
    BY <1>1, <1>6 DEF FollowTrue, ProcTrue
  <2>2. CASE mark' = mark
    <3>1. MarkTells(p)'
      BY <1>1, <1>2, <2>1, <2>2 DEF MarkTells, Ahead, NewsOf
    <3> QED
      BY <1>1, <1>2, <2>2, <3>1, OthersRest
  <2>3. CASE mark' = sync[y].next /\ sync[y].at = "applying" /\ InHandOf(y) = {}
    <3>1. cache[p] = active[p] \/ Ahead(p, Reach(y))
      BY <2>1, <2>3 DEF PassTells, Puts, StillHeld
    <3>2. /\ mark \in Int /\ sync[y].next \in Nat /\ mark' \in Int /\ Reach(y) \in Int
          /\ mark' <= Reach(y)
      BY <1>2, <1>4, <2>3, FeedNumbers, PassNumbers
    <3>3. Ahead(p, Reach(y)) => Ahead(p, mark')
      BY <1>2, <3>2, AheadOfLess
    <3>4. MarkTells(p)'
      BY <1>1, <1>2, <3>1, <3>3 DEF MarkTells, Ahead, NewsOf
    <3>5. ASSUME NEW z \in Syncs \ {y}, InPass(z), ~Puts(z, p), PassTells(z, p), cache[p] # active[p],
                 ~StillHeld(p, z, InHandOf(z))
          PROVE  Ahead(p, Reach(z)')
      <4>1. Ahead(p, Reach(z)) /\ Ahead(p, mark')
        BY <3>1, <3>3, <3>5 DEF PassTells
      <4>2. sync'[z] = sync[z]
        BY <1>1, <1>2 DEF FollowType
      <4>3. Reach(z)' = Farther(sync[z].next, mark')
        BY <4>2 DEF Reach, Farther
      <4>4. /\ sync[z].next \in Int /\ Reach(z) \in Int /\ sync[z].next <= Reach(z)
        BY <1>2, <3>5, PassNumbers
      <4>5. CASE sync[z].next > mark'
        <5>1. Reach(z)' = sync[z].next
          BY <4>3, <4>5 DEF Farther
        <5>2. Ahead(p, sync[z].next)
          BY <1>2, <4>1, <4>4, AheadOfLess
        <5> QED
          BY <5>1, <5>2
      <4>6. CASE ~(sync[z].next > mark')
        <5>1. Reach(z)' = mark'
          BY <4>3, <4>6 DEF Farther
        <5> QED
          BY <4>1, <5>1
      <4> QED
        BY <4>5, <4>6
    <3> QED
      BY <1>1, <3>4, <3>5
  <2> QED
    BY <1>1, <2>2, <2>3
<1>7. \A p \in Procs : Clean(p) /\ Clean(p)' =>
         /\ MarkTells(p)'
         /\ Running(y)' => PassTells(y, p)'
         /\ \A z \in Syncs \ {y} :
              InPass(z) /\ ~Puts(z, p) /\ PassTells(z, p) =>
                cache'[p] = active[p] \/ Ahead(p, Reach(z)') \/ StillHeld(p, z, InHandOf(z))
  BY <1>3, <1>6
<1> QED
  BY <1>1, <1>3, <1>5, <1>7, PassGoesOn

\* A pass reads its page: all that is ahead is on it, or behind its end.
LEMMA ReadKeeps ==
  ASSUME FeedInv, FollowTrue, NEW y \in Syncs, SyncRead(y)
  PROVE  FollowTrue'
<1> DEFINE start == StartOf(mark)
           next  == NextCursor(y, start)
           page  == [s \in Page(start) |-> feed[s]]
           busy  == {z \in Syncs : sync[z].at # "idle"}
<1>0. FollowType /\ (\A p \in Procs : ProcTrue(p)) /\ (\A z \in Syncs : SyncTrue(z)) /\ backend = "sqlite"
  BY DEF FollowTrue
<1>1. /\ sync[y].at = "idle" /\ (mark # NoCursor => ~Expired(mark))
      /\ SyncLeaves /\ UNCHANGED <<cache, mark, spoiled, deaths>>
      /\ sync' = [z \in Syncs |->
           IF z = y THEN [at |-> "applying", alone |-> busy = {}, next |-> next,
                          todo |-> page, got |-> NotActive]
           ELSE IF z \in busy THEN [sync[z] EXCEPT !.alone = FALSE] ELSE sync[z]]
  BY DEF SyncRead
<1>2. UNCHANGED <<feedVars, issued, floor, backend, feed, active, edits, saying, said, unsaid>>
  BY <1>1 DEF SyncLeaves, library, feedVars, table, retained
<1>3. FollowType'
  BY <1>0, <1>1, <1>2 DEF FollowType, Notices
<1>4. /\ start \in 0..issued /\ mark <= start /\ start \in Nat
      /\ \A s \in DOMAIN feed : s > mark => s > start
  <2>1. floor \in 1..(issued + 1) /\ issued \in Nat /\ mark \in {NoCursor} \cup 0..issued
        /\ \A s \in DOMAIN feed : s >= floor /\ s \in Nat
    BY <1>0, FeedNumbers DEF FeedInv, FeedType, FollowType
  <2>2. CASE mark = NoCursor
    <3>1. start = floor - 1
      BY <2>2 DEF StartOf
    <3> QED
      BY <2>1, <2>2, <3>1 DEF NoCursor
  <2>3. CASE mark # NoCursor
    <3>1. start = mark /\ mark \in 0..issued
      BY <2>1, <2>3 DEF StartOf
    <3> QED
      BY <2>1, <3>1
  <2> QED
    BY <2>2, <2>3
<1> HIDE DEF start
<1>5. /\ issued \in Nat /\ DOMAIN feed \subseteq 1..issued /\ PageSize \in Nat /\ mark \in Int
  BY <1>0, FeedNumbers, FeedAssumption DEF FeedInv, FeedType
<1>6. /\ next \in start..issued
      /\ \A s \in DOMAIN feed : s > start /\ s <= next => s \in Page(start)
  BY <1>4, <1>5, PagesAreWhole
<1>7. \A s \in Page(start) : s \in DOMAIN feed /\ s > start
  BY DEF Page
<1> HIDE DEF next
<1>8. next \in 0..issued /\ next \in Nat /\ start <= next
  BY <1>4, <1>5, <1>6
<1>9. DOMAIN page = Page(start) /\ \A s \in Page(start) : page[s] = feed[s]
  OBVIOUS
<1> HIDE DEF page
<1>10. PICK alone \in BOOLEAN : alone <=> busy = {}
  OBVIOUS
<1>11. sync'[y] = [at |-> "applying", alone |-> alone, next |-> next, todo |-> page, got |-> NotActive]
  BY <1>1, <1>10
<1>12. /\ sync'[y].at = "applying" /\ sync'[y].next = next /\ sync'[y].todo = page
       /\ sync'[y].alone <=> busy = {}
  BY <1>10, <1>11
<1>13. InHandOf(y)' = Page(start) /\ \A s \in Page(start) : sync'[y].todo[s] = feed[s]
  BY <1>9, <1>12 DEF InHandOf
<1>14. Reach(y)' = next
  BY <1>1, <1>4, <1>5, <1>8, <1>12 DEF Reach, Farther
<1>15. ASSUME NEW z \in Syncs \ {y}, Running(z)
       PROVE  /\ Running(z)' /\ ~sync'[z].alone /\ InPass(z)'
              /\ sync'[z].at = sync[z].at /\ sync'[z].next = sync[z].next
              /\ sync'[z].todo = sync[z].todo
  <2>1. InPass(z) /\ sync'[z] = [sync[z] EXCEPT !.alone = FALSE]
    BY <1>0, <1>1, <1>15 DEF SyncTrue, Running
  <2>2. PICK w : w = sync[z]
    OBVIOUS
  <2>3. /\ w = [at |-> w.at, alone |-> w.alone, next |-> w.next, todo |-> w.todo, got |-> w.got]
        /\ w.at \in {"applying", "putting"}
        /\ w.next \in 0..issued /\ DOMAIN w.todo \subseteq 1..issued
        /\ w.at = "putting" => DOMAIN w.todo # {}
    BY <2>1, <2>2 DEF InPass
  <2>4. PICK x : x = [w EXCEPT !.alone = FALSE]
    OBVIOUS
  <2>5. x = [at |-> w.at, alone |-> FALSE, next |-> w.next, todo |-> w.todo, got |-> w.got]
    BY <2>3, <2>4
  <2>6. x.at = w.at /\ x.alone = FALSE /\ x.next = w.next /\ x.todo = w.todo /\ x.got = w.got
    BY <2>5
  <2>7. sync'[z] = x
    BY <2>1, <2>2, <2>4
  <2>8. InPass(z)'
    BY <1>2, <2>3, <2>5, <2>6, <2>7 DEF InPass
  <2> QED
    BY <2>2, <2>3, <2>6, <2>7, <2>8 DEF Running
<1>16. \A z \in Syncs \ {y} : ~Running(z) => ~Running(z)'
  BY <1>1 DEF Running
<1>17. ASSUME NEW z \in Syncs PROVE SyncTrue(z)'
  <2>1. CASE z # y
    BY <1>15, <1>16, <2>1 DEF SyncTrue
  <2>2. CASE z = y
    <3>1. InPass(y)'
      BY <1>2, <1>5, <1>7, <1>8, <1>9, <1>10, <1>11, <1>12 DEF InPass
    <3>2. PassIsWhole(y)'
      <4>1. mark' <= sync'[y].next
        BY <1>1, <1>4, <1>5, <1>8, <1>12
      <4>2. \A s \in Page(start) : s > mark
        <5>1. \A s \in Page(start) : s \in Nat /\ s > start
          BY <1>5, <1>7
        <5> QED
          BY <1>4, <1>5, <5>1
      <4>3. \A s \in DOMAIN feed, t \in Page(start) : t <= s /\ s <= next => s \in Page(start)
        <5>1. \A s \in DOMAIN feed, t \in Page(start) : t <= s => s > start
          <6>1. \A t \in Page(start) : t \in Nat /\ t > start
            BY <1>5, <1>7
          <6> QED
            BY <1>4, <1>5, <6>1
        <5> QED
          BY <1>6, <5>1
      <4> QED
        BY <1>1, <1>2, <1>7, <1>12, <1>13, <4>1, <4>2, <4>3 DEF PassIsWhole
    <3>3. sync'[y].alone => \A v \in Syncs \ {y} : ~Running(v)'
      BY <1>12, <1>16 DEF Running
    <3> QED
      BY <2>2, <3>1, <3>2, <3>3 DEF SyncTrue
  <2> QED
    BY <2>1, <2>2
<1>18. ASSUME NEW p \in Procs, Clean(p)' PROVE ProcTrue(p)'
  <2>1. Clean(p) /\ LastWord(p) /\ MarkTells(p) /\ \A z \in Syncs : Running(z) => PassTells(z, p)
    BY <1>0, <1>1, <1>2, <1>18 DEF Clean, ProcTrue
  <2>2. LastWord(p)' /\ MarkTells(p)'
    BY <1>1, <1>2, <2>1 DEF LastWord, MarkTells, Ahead, NewsOf
  <2>3. PassTells(y, p)'
    <3>1. ~Puts(y, p)'
      BY <1>12 DEF Puts
    <3>2. ASSUME Ahead(p, mark) PROVE Ahead(p, next) \/ \E s \in Page(start) : NewsOf(p, feed[s])
      <4>1. \A s \in DOMAIN feed : s > mark => s > next \/ s \in Page(start)
        <5>1. \A s \in DOMAIN feed : s \in Nat
          BY <1>5
        <5> QED
          BY <1>4, <1>6, <1>8, <5>1
      <4> QED
        BY <3>2, <4>1 DEF Ahead
    <3>3. Ahead(p, next) => Ahead(p, Reach(y))'
      BY <1>2, <1>14 DEF Ahead, NewsOf
    <3>4. (\E s \in Page(start) : NewsOf(p, feed[s])) => StillHeld(p, y, InHandOf(y))'
      BY <1>2, <1>13 DEF StillHeld, NewsOf
    <3> QED
      BY <1>1, <1>2, <2>1, <3>1, <3>2, <3>3, <3>4 DEF PassTells, MarkTells
  <2>4. ASSUME NEW z \in Syncs \ {y}, Running(z) PROVE PassTells(z, p)'
    <3>1. /\ ~sync'[z].alone /\ sync'[z].at = sync[z].at /\ sync'[z].next = sync[z].next
          /\ sync'[z].todo = sync[z].todo /\ PassTells(z, p)
      BY <1>15, <2>1, <2>4
    <3>2. (Puts(z, p)' <=> Puts(z, p)) /\ InHandOf(z)' = InHandOf(z) /\ Reach(z)' = Reach(z)
      BY <1>1, <3>1 DEF Puts, Row, InHandOf, Reach
    <3>3. Ahead(p, Reach(z)) => Ahead(p, Reach(z))'
      BY <1>2, <3>2 DEF Ahead, NewsOf
    <3>4. StillHeld(p, z, InHandOf(z)) => StillHeld(p, z, InHandOf(z))'
      BY <1>2, <3>1, <3>2 DEF StillHeld, NewsOf
    <3> QED
      BY <1>1, <1>2, <3>1, <3>2, <3>3, <3>4 DEF PassTells
  <2> QED
    BY <1>16, <2>2, <2>3, <2>4 DEF ProcTrue
<1> QED
  BY <1>0, <1>2, <1>3, <1>17, <1>18 DEF FollowTrue, ProcTrue

\* The library or the feed moves while the passes rest: what was ahead of a
\* harness stays so, or it lost sight.
LEMMA LibraryMoves ==
  ASSUME FeedInv, FollowTrue, UNCHANGED <<sync, cache, mark, backend>>, FollowType',
         issued' \in Nat, issued <= issued', spoiled \subseteq spoiled',
         \A p \in Procs : Clean(p)' => Clean(p) /\ LastWord(p)',
         \A p \in Procs : Clean(p)' =>
           \/ \A t \in Int : Ahead(p, t)'
           \/ /\ active'[p] = active[p]
              /\ \A t \in Int : mark <= t /\ t <= issued /\ Ahead(p, t) => Ahead(p, t)',
         \A s \in DOMAIN feed' : (s \in DOMAIN feed /\ feed'[s] = feed[s]) \/ s = issued + 1,
         \A s \in DOMAIN feed : s > mark => s \in DOMAIN feed' \/ feed[s].asop \in spoiled'
  PROVE  FollowTrue'
<1>0. /\ FollowType /\ (\A p \in Procs : ProcTrue(p)) /\ (\A z \in Syncs : SyncTrue(z))
      /\ backend = "sqlite"
  BY DEF FollowTrue
<1>1. issued \in Nat /\ mark \in Int /\ mark <= issued
  BY <1>0, FeedNumbers
<1>2. ASSUME NEW y \in Syncs
      PROVE  /\ Running(y)' <=> Running(y)
             /\ InHandOf(y)' = InHandOf(y) /\ First(y)' = First(y) /\ Row(y)' = Row(y)
             /\ Reach(y)' = Reach(y)
             /\ \A p : Puts(y, p)' <=> Puts(y, p)
  BY DEF Running, InHandOf, First, Row, Reach, Puts
<1>3. ASSUME NEW y \in Syncs PROVE SyncTrue(y)'
  <2> SUFFICES ASSUME Running(y)
               PROVE  /\ InPass(y)'
                      /\ sync[y].alone => PassIsWhole(y)' /\ \A z \in Syncs \ {y} : ~Running(z)
    BY <1>2 DEF SyncTrue
  <2>1. InPass(y) /\ (sync[y].alone => PassIsWhole(y) /\ \A z \in Syncs \ {y} : ~Running(z))
    BY <1>0 DEF SyncTrue
  <2>2. InPass(y)'
    <3>1. 0..issued \subseteq 0..issued' /\ 1..issued \subseteq 1..issued'
      BY <1>1
    <3> QED
      BY <2>1, <3>1 DEF InPass
  <2>3. ASSUME PassIsWhole(y) PROVE PassIsWhole(y)'
    <3>1. sync[y].next \in Nat /\ sync[y].next <= issued /\ \A s \in InHandOf(y) : s \in Nat /\ s <= issued
      BY <1>0, <2>1, PassNumbers
    <3>2. /\ \A s \in InHandOf(y) : s # issued + 1
          /\ \A s : s <= sync[y].next => s # issued + 1
      BY <1>1, <3>1
    <3>3. \A s \in InHandOf(y) :
            /\ s > mark
            /\ s \in DOMAIN feed' => sync[y].todo[s] = feed'[s]
            /\ s \notin DOMAIN feed' => sync[y].todo[s].asop \in spoiled'
      BY <2>3, <3>2 DEF PassIsWhole
    <3>4. \A s \in DOMAIN feed', t \in InHandOf(y) : t <= s /\ s <= sync[y].next => s \in InHandOf(y)
      BY <2>3, <3>2 DEF PassIsWhole
    <3> QED
      BY <1>2, <2>3, <3>3, <3>4 DEF PassIsWhole
  <2> QED
    BY <2>1, <2>2, <2>3
<1>4. ASSUME NEW p \in Procs, Clean(p)' PROVE ProcTrue(p)'
  <2>1. /\ LastWord(p)' /\ MarkTells(p)
        /\ \A y \in Syncs : Running(y) => PassTells(y, p) /\ InPass(y)
    BY <1>0, <1>4 DEF ProcTrue, SyncTrue
  <2>2. CASE \A t \in Int : Ahead(p, t)'
    <3>1. MarkTells(p)'
      BY <1>1, <2>2 DEF MarkTells, Ahead
    <3>2. ASSUME NEW y \in Syncs, Running(y) PROVE PassTells(y, p)'
      <4>1. PICK t \in Int : t = Reach(y)
        BY <1>0, <2>1, <3>2, PassNumbers
      <4>2. Ahead(p, t)'
        BY <2>2
      <4>3. Ahead(p, Reach(y))'
        BY <1>2, <4>1, <4>2 DEF Ahead
      <4> QED
        BY <4>3 DEF PassTells
    <3> QED
      BY <1>2, <2>1, <3>1, <3>2 DEF ProcTrue
  <2>3. CASE /\ active'[p] = active[p]
             /\ \A t \in Int : mark <= t /\ t <= issued /\ Ahead(p, t) => Ahead(p, t)'
    <3>1. MarkTells(p)'
      <4>1. PICK t \in Int : t = mark
        BY <1>1
      <4>2. Ahead(p, t) => Ahead(p, t)'
        BY <1>1, <2>3, <4>1
      <4>3. Ahead(p, mark) => Ahead(p, mark)'
        BY <4>1, <4>2 DEF Ahead
      <4> QED
        BY <2>1, <2>3, <4>3 DEF MarkTells
    <3>2. ASSUME NEW y \in Syncs, Running(y) PROVE PassTells(y, p)'
      <4>1. PassTells(y, p) /\ InPass(y)
        BY <2>1, <3>2
      <4>2. PICK t \in Int : t = Reach(y)
        BY <1>0, <4>1, PassNumbers
      <4>3. mark <= t /\ t <= issued
        BY <1>0, <4>1, <4>2, PassNumbers
      <4>4. Ahead(p, t) => Ahead(p, t)'
        BY <2>3, <4>3
      <4>5. Ahead(p, Reach(y)) => Ahead(p, Reach(y))'
        BY <1>2, <4>2, <4>4 DEF Ahead
      <4>6. /\ StillHeld(p, y, InHandOf(y)) => StillHeld(p, y, InHandOf(y))'
            /\ StillHeld(p, y, InHandOf(y) \ {First(y)}) => StillHeld(p, y, InHandOf(y) \ {First(y)})'
        BY <1>2, <2>3 DEF StillHeld, NewsOf
      <4> QED
        BY <1>2, <2>3, <4>1, <4>5, <4>6 DEF PassTells
    <3> QED
      BY <1>2, <2>1, <3>1, <3>2 DEF ProcTrue
  <2> QED
    BY <1>4, <2>2, <2>3
<1> QED
  BY <1>0, <1>3, <1>4 DEF FollowTrue, ProcTrue

\* An edit of the library: its announcement is ahead of everyone.
LEMMA EditKeeps ==
  ASSUME FeedInv, FollowTrue, NEW p \in Procs, Drafted(p) \/ Activated(p) \/ Retired(p)
  PROVE  FollowTrue'
<1>1. PICK kind, now :
        /\ kind \in {"AsopVersioned", "AsopActivated", "AsopRetired"} /\ EditLibrary(p, kind, now)
        /\ \/ kind = "AsopVersioned" /\ now = active[p]
           \/ kind = "AsopActivated" /\ now = edits + 1
           \/ kind = "AsopRetired" /\ now = NotActive
  BY DEF Drafted, Activated, Retired
<1>2. PICK n : n = [kind |-> kind, asop |-> p, edit |-> edits + 1]
  OBVIOUS
<1>3. /\ edits' = edits + 1 /\ active' = [active EXCEPT ![p] = now] /\ saying' = saying \cup {n}
      /\ UNCHANGED <<feedVars, said, cache, mark, sync, unsaid, spoiled, deaths>>
  BY <1>1, <1>2 DEF EditLibrary
<1>4. UNCHANGED <<backend, feed, issued, floor>>
  BY <1>3 DEF feedVars, table, retained
<1>5. FollowType /\ edits \in Nat /\ edits + 1 # NotActive /\ backend = "sqlite"
      /\ \A q \in Procs : ProcTrue(q)
  BY DEF FollowTrue, FollowType, NotActive
<1>6. n.kind = kind /\ n.asop = p /\ n.edit = edits + 1
  BY <1>2
<1>7. \A m \in saying : m \in Notices /\ m.edit \in Nat /\ m.edit <= edits
  BY <1>5 DEF FollowType, Notices
<1>8. FollowType'
  <2>1. saying' \subseteq Notices'
    <3>1. n \in Notices'
      BY <1>1, <1>2, <1>3, <1>5 DEF Notices
    <3>2. 1..edits \subseteq 1..edits'
      BY <1>3, <1>5
    <3>3. Notices \subseteq Notices'
      BY <3>2 DEF Notices
    <3> QED
      BY <1>3, <1>7, <3>1, <3>3
  <2>2. \A k, m \in saying' : k.edit = m.edit => k = m
    <3>1. \A m \in saying : m.edit # n.edit
      BY <1>5, <1>6, <1>7
    <3>2. \A k, m \in saying : k.edit = m.edit => k = m
      BY <1>5 DEF FollowType
    <3> QED
      BY <1>3, <3>1, <3>2
  <2>3. edits' \in Nat /\ said' \in [Procs -> 0..edits']
    <3>1. 0..edits \subseteq 0..edits'
      BY <1>3, <1>5
    <3>2. said \in [Procs -> 0..edits]
      BY <1>5 DEF FollowType
    <3> QED
      BY <1>3, <1>5, <3>1, <3>2
  <2>4. /\ DOMAIN active' = Procs /\ DOMAIN cache' = Procs /\ DOMAIN sync' = Syncs
        /\ mark' \in {NoCursor} \cup 0..issued' /\ \A s \in DOMAIN feed' : s >= floor'
    BY <1>3, <1>4, <1>5 DEF FollowType
  <2> QED
    BY <2>1, <2>2, <2>3, <2>4 DEF FollowType
<1>9. ASSUME NEW q \in Procs, Clean(q)' PROVE Clean(q) /\ LastWord(q)'
  <2>1. Clean(q)
    BY <1>3, <1>9 DEF Clean
  <2>2. LastWord(q)
    BY <1>5, <2>1 DEF ProcTrue
  <2>3. CASE q # p
    <3>1. active'[q] = active[q]
      BY <1>3, <1>5, <2>3 DEF FollowType
    <3>2. \A m \in saying' : m.asop = q <=> m \in saying /\ m.asop = q
      BY <1>3, <1>6, <2>3
    <3> QED
      BY <1>3, <1>4, <2>1, <2>2, <3>1, <3>2 DEF LastWord
  <2>4. CASE q = p
    <3>1. active'[q] # NotActive => n.kind # "AsopRetired"
      BY <1>1, <1>3, <1>5, <1>6, <2>4 DEF FollowType
    <3>2. n \in saying' /\ \A m \in saying' : m.edit <= n.edit
      BY <1>3, <1>5, <1>6, <1>7
    <3> QED
      BY <1>6, <2>1, <2>4, <3>1, <3>2 DEF LastWord
  <2> QED
    BY <2>3, <2>4
<1>10. ASSUME NEW q \in Procs
       PROVE  \/ \A t \in Int : Ahead(q, t)'
              \/ /\ active'[q] = active[q]
                 /\ \A t \in Int : mark <= t /\ t <= issued /\ Ahead(q, t) => Ahead(q, t)'
  <2>1. CASE active'[q] = active[q]
    BY <1>3, <1>4, <2>1 DEF Ahead, NewsOf
  <2>2. CASE active'[q] # active[q]
    <3>1. q = p /\ active'[q] = now /\ kind # "AsopVersioned"
      BY <1>1, <1>3, <1>5, <2>2 DEF FollowType
    <3>2. active'[q] = NotActive => kind = "AsopRetired"
      BY <1>1, <1>5, <3>1
    <3>3. NewsOf(q, n)' /\ n \in saying'
      BY <1>3, <1>6, <3>1, <3>2 DEF NewsOf
    <3> QED
      BY <3>3 DEF Ahead, NewsOf
  <2> QED
    BY <2>1, <2>2
<1>11. issued' \in Nat /\ issued <= issued' /\ spoiled \subseteq spoiled'
  BY <1>3, <1>4, <1>5, FeedNumbers
<1> QED
  BY <1>3, <1>4, <1>8, <1>9, <1>10, <1>11, LibraryMoves

\* A prune: a harness that has not read a row that goes loses sight of it.
LEMMA PruneKeepsSight ==
  ASSUME FeedInv, FollowTrue, FeedPrune
  PROVE  FollowTrue'
<1>1. /\ Prune /\ UNCHANGED <<active, edits, saying, said, cache, mark, sync, unsaid, deaths>>
      /\ spoiled' = spoiled \cup {feed[s].asop : s \in {n \in DOMAIN feed \ DOMAIN feed' : n > mark}}
  BY DEF FeedPrune, library
<1>2. FollowType /\ (\A q \in Procs : ProcTrue(q))
  BY DEF FollowTrue
<1>3. /\ UNCHANGED <<backend, issued>>
      /\ DOMAIN feed' \subseteq DOMAIN feed /\ \A s \in DOMAIN feed' : feed'[s] = feed[s] /\ s >= floor'
      /\ \A s \in DOMAIN feed', t \in DOMAIN feed : t > s => t \in DOMAIN feed'
  <2>1. PICK p \in Pruners : (\E b \in Windows : PruneLook(p, b)) \/ PruneDecide(p) \/ PruneWrite(p)
    BY <1>1 DEF Prune
  <2>2. CASE (\E b \in Windows : PruneLook(p, b)) \/ PruneDecide(p)
    <3>1. UNCHANGED <<backend, issued, feed, floor>>
      BY <2>2 DEF PruneLook, PruneDecide, table
    <3> QED
      BY <1>2, <3>1 DEF FollowType
  <2>3. CASE PruneWrite(p)
    <3>1. PICK n : n = pruning[p].floor
      OBVIOUS
    <3>2. n \in Nat
      BY <2>3, <3>1 DEF PruneWrite, FeedInv, FeedType
    <3>3. /\ floor' = n /\ feed' = [s \in Kept(n) |-> feed[s]] /\ UNCHANGED <<backend, issued>>
      BY <2>3, <3>1 DEF PruneWrite
    <3>4. \A s \in DOMAIN feed : s \in Nat
      BY <1>2, FeedNumbers
    <3>5. \A s, t \in DOMAIN feed : s >= n /\ t > s => t >= n
      BY <3>2, <3>4
    <3> QED
      BY <3>3, <3>5 DEF Kept
  <2> QED
    BY <2>1, <2>2, <2>3
<1>4. FollowType'
  BY <1>1, <1>2, <1>3 DEF FollowType, Notices
<1>5. ASSUME NEW p \in Procs, Clean(p)'
      PROVE  /\ Clean(p) /\ LastWord(p)'
             /\ \A t \in Int : mark <= t /\ t <= issued /\ Ahead(p, t) => Ahead(p, t)'
  <2>1. Clean(p) /\ LastWord(p)
    BY <1>1, <1>2, <1>5 DEF Clean, ProcTrue
  <2>2. LastWord(p)'
    BY <1>1, <1>3, <2>1 DEF LastWord
  <2>3. ASSUME NEW s \in DOMAIN feed, s > mark, feed[s].asop = p PROVE s \in DOMAIN feed'
    BY <1>1, <1>5, <2>3 DEF Clean
  <2>4. ASSUME NEW t \in Int, mark <= t, Ahead(p, t) PROVE Ahead(p, t)'
    <3>1. CASE \E n \in saying : NewsOf(p, n)
      BY <1>1, <3>1 DEF Ahead, NewsOf
    <3>2. CASE \E s \in DOMAIN feed : s > t /\ NewsOf(p, feed[s])
      <4>1. PICK s \in DOMAIN feed : s > t /\ NewsOf(p, feed[s])
        BY <3>2
      <4>2. s > mark
        <5>1. s \in Nat /\ mark \in Int
          BY <1>2, FeedNumbers
        <5> QED
          BY <2>4, <4>1, <5>1
      <4>3. s \in DOMAIN feed'
        BY <2>3, <4>1, <4>2 DEF NewsOf
      <4> QED
        BY <1>1, <1>3, <4>1, <4>3 DEF Ahead, NewsOf
    <3> QED
      BY <2>4, <3>1, <3>2 DEF Ahead
  <2> QED
    BY <2>1, <2>2, <2>4
<1>6. issued' \in Nat /\ issued <= issued' /\ spoiled \subseteq spoiled'
  BY <1>1, <1>2, <1>3, FeedNumbers
<1>7. \A s \in DOMAIN feed : s > mark => s \in DOMAIN feed' \/ feed[s].asop \in spoiled'
  BY <1>1
<1>8. \A p \in Procs : Clean(p)' =>
        \/ \A t \in Int : Ahead(p, t)'
        \/ /\ active'[p] = active[p]
           /\ \A t \in Int : mark <= t /\ t <= issued /\ Ahead(p, t) => Ahead(p, t)'
  BY <1>1, <1>5
<1>9. \A s \in DOMAIN feed' : (s \in DOMAIN feed /\ feed'[s] = feed[s]) \/ s = issued + 1
  BY <1>3
<1> QED
  BY <1>1, <1>3, <1>4, <1>5, <1>6, <1>7, <1>8, <1>9, LibraryMoves

\* An announcement that fails is the harness's to miss.
LEMMA FailKeeps ==
  ASSUME FeedInv, FollowTrue, NEW n \in saying, AnnounceFails(n)
  PROVE  FollowTrue'
<1>1. /\ saying' = saying \ {n} /\ unsaid' = unsaid \cup {n.asop}
      /\ UNCHANGED <<feedVars, active, edits, said, cache, mark, sync, spoiled, deaths>>
  BY DEF AnnounceFails
<1>2. FollowType /\ (\A q \in Procs : ProcTrue(q))
  BY DEF FollowTrue
<1>3. UNCHANGED <<backend, issued, feed, floor>>
  BY <1>1 DEF feedVars, table, retained
<1>4. FollowType'
  BY <1>1, <1>2, <1>3 DEF FollowType, Notices
<1>5. ASSUME NEW p \in Procs, Clean(p)'
      PROVE  /\ Clean(p) /\ LastWord(p)'
             /\ \A t \in Int : mark <= t /\ t <= issued /\ Ahead(p, t) => Ahead(p, t)'
  <2>1. \A m : m.asop = p => (m \in saying' <=> m \in saying)
    BY <1>1, <1>5 DEF Clean
  <2>2. Clean(p)
    BY <1>1, <1>5, <2>1 DEF Clean
  <2>3. LastWord(p)
    BY <1>2, <2>2 DEF ProcTrue
  <2>4. LastWord(p)'
    BY <1>1, <1>3, <2>1, <2>3 DEF LastWord
  <2>5. \A t \in Int : Ahead(p, t) => Ahead(p, t)'
    BY <1>1, <1>3, <2>1 DEF Ahead, NewsOf
  <2> QED
    BY <2>2, <2>4, <2>5
<1>6. issued' \in Nat /\ issued <= issued' /\ spoiled \subseteq spoiled'
  BY <1>1, <1>2, <1>3, FeedNumbers
<1>7. \A p \in Procs : Clean(p)' =>
        \/ \A t \in Int : Ahead(p, t)'
        \/ /\ active'[p] = active[p]
           /\ \A t \in Int : mark <= t /\ t <= issued /\ Ahead(p, t) => Ahead(p, t)'
  BY <1>1, <1>5
<1> QED
  BY <1>1, <1>3, <1>4, <1>5, <1>6, <1>7, LibraryMoves

\* An announcement lands: its row is behind every end of a page.
LEMMA SaidKeeps ==
  ASSUME FeedInv, FollowTrue, NEW n \in saying, AnnounceEdit(n)
  PROVE  FollowTrue'
<1>1. PICK e : e = [kind |-> n.kind, asop |-> n.asop, at |-> issued + 1, by |-> "hub", origin |-> FALSE]
  OBVIOUS
<1>2. /\ issued' = issued + 1 /\ feed' = WithRow(issued + 1, e) /\ UNCHANGED <<backend, floor>>
      /\ saying' = saying \ {n}
      /\ said' = [said EXCEPT ![n.asop] = Max({said[n.asop], n.edit})]
      /\ spoiled' = spoiled \cup (IF n.edit < said[n.asop] THEN {n.asop} ELSE {})
      /\ UNCHANGED <<active, edits, cache, mark, sync, unsaid, deaths>>
  BY <1>1 DEF AnnounceEdit, AppendEvent, retained
<1>3. FollowType /\ (\A q \in Procs : ProcTrue(q)) /\ backend = "sqlite"
  BY DEF FollowTrue
<1>4. /\ issued \in Nat /\ mark \in Int /\ mark <= issued
      /\ \A s \in DOMAIN feed : s \in Nat /\ s <= issued /\ s # issued + 1
  BY <1>3, FeedNumbers
<1>5. /\ DOMAIN feed' = DOMAIN feed \cup {issued + 1} /\ feed'[issued + 1] = e
      /\ \A s \in DOMAIN feed : feed'[s] = feed[s]
  BY <1>2, <1>4 DEF WithRow
<1>6. e.kind = n.kind /\ e.asop = n.asop
  BY <1>1
<1>7. /\ edits \in Nat /\ said \in [Procs -> 0..edits]
      /\ \A m \in saying : m.asop \in Procs /\ m.edit \in 0..edits /\ m.edit \in Nat
      /\ \A m \in saying : m.edit = n.edit => m = n
  <2>1. edits \in Nat /\ said \in [Procs -> 0..edits] /\ saying \subseteq Notices
        /\ \A m \in saying : m.edit = n.edit => m = n
    BY <1>3 DEF FollowType
  <2>2. \A m \in Notices : m.asop \in Procs /\ m.edit \in 1..edits
    BY DEF Notices
  <2> QED
    BY <2>1, <2>2
<1>8. /\ said' \in [Procs -> 0..edits]
      /\ \A p \in Procs : said'[p] \in Nat /\ said[p] \in Nat /\ said[p] <= said'[p]
      /\ n.edit <= said'[n.asop]
  <2> DEFINE S == {said[n.asop], n.edit}
  <2>1. S \in SUBSET (0..edits) /\ S # {}
    BY <1>7
  <2>2. PICK most : most = Max(S)
    OBVIOUS
  <2>3. most \in 0..edits /\ n.edit <= most /\ said[n.asop] <= most
    BY <1>7, <2>1, <2>2, GreatestNat
  <2>4. said' = [said EXCEPT ![n.asop] = most]
    BY <1>2, <2>2
  <2>5. said' \in [Procs -> 0..edits] /\ said'[n.asop] = most
        /\ \A p \in Procs \ {n.asop} : said'[p] = said[p]
    BY <1>7, <2>3, <2>4
  <2>6. \A p \in Procs : said[p] <= said'[p]
    <3>1. \A p \in Procs : said[p] \in 0..edits
      BY <1>7
    <3> QED
      BY <1>7, <2>3, <2>5, <3>1
  <2> QED
    BY <1>7, <2>3, <2>5, <2>6
<1>9. FollowType'
  <2>1. \A s \in DOMAIN feed' : s >= floor'
    <3>1. floor <= issued + 1 /\ \A s \in DOMAIN feed : s >= floor
      BY <1>3 DEF FeedInv, FeedType, FollowType
    <3>2. floor \in Nat
      BY <1>3, FeedNumbers
    <3> QED
      BY <1>2, <1>4, <1>5, <3>1, <3>2
  <2>2. mark' \in {NoCursor} \cup 0..issued'
    BY <1>2, <1>3, <1>4 DEF FollowType
  <2>3. /\ DOMAIN active' = Procs /\ DOMAIN cache' = Procs /\ DOMAIN sync' = Syncs
        /\ saying' \subseteq Notices' /\ edits' \in Nat
        /\ \A k, m \in saying' : k.edit = m.edit => k = m
    BY <1>2, <1>3 DEF FollowType, Notices
  <2> QED
    BY <1>2, <1>8, <2>1, <2>2, <2>3 DEF FollowType
<1>10. ASSUME NEW p \in Procs, Clean(p)' PROVE Clean(p) /\ LastWord(p)'
  <2>1. Clean(p)
    <3>1. p \notin unsaid \cup spoiled
      BY <1>2, <1>10 DEF Clean
    <3>2. ASSUME NEW m \in saying, m.asop = p PROVE m.edit >= said[p]
      <4>1. CASE m = n
        <5>1. ~(n.edit < said[n.asop])
          BY <1>2, <1>10, <3>2, <4>1 DEF Clean
        <5> QED
          BY <1>7, <1>8, <3>2, <4>1, <5>1
      <4>2. CASE m # n
        <5>1. m.edit >= said'[p]
          BY <1>2, <1>10, <3>2, <4>2 DEF Clean
        <5> QED
          BY <1>7, <1>8, <5>1
      <4> QED
        BY <4>1, <4>2
    <3> QED
      BY <3>1, <3>2 DEF Clean
  <2>2. LastWord(p)
    BY <1>3, <2>1 DEF ProcTrue
  <2>3. SUFFICES ASSUME active[p] # NotActive PROVE LastWord(p)'
    BY <1>2, <2>1 DEF LastWord
  <2>4. CASE \A m \in saying : m.asop # p
    <3>1. \A s \in DOMAIN feed : feed[s].asop = p /\ feed[s].kind = "AsopRetired" =>
            \E t \in DOMAIN feed : t > s /\ feed[t].asop = p
      BY <2>2, <2>3, <2>4 DEF LastWord
    <3>2. n.asop # p
      BY <2>4
    <3> QED
      BY <1>2, <1>5, <1>6, <2>4, <3>1, <3>2 DEF LastWord
  <2>5. CASE \E m \in saying : m.asop = p
    <3>1. PICK g \in saying : /\ g.asop = p /\ g.kind # "AsopRetired"
                              /\ \A m \in saying : m.asop = p => m.edit <= g.edit
      BY <2>2, <2>3, <2>5 DEF LastWord
    <3>2. CASE g # n
      <4>1. g \in saying' /\ \A m \in saying' : m.asop = p => m.edit <= g.edit
        BY <1>2, <3>1, <3>2
      <4> QED
        BY <3>1, <4>1 DEF LastWord
    <3>3. CASE g = n
      <4>1. ASSUME NEW m \in saying', m.asop = p PROVE FALSE
        <5>1. m \in saying /\ m.edit # n.edit /\ m.edit <= n.edit
          BY <1>2, <1>7, <3>1, <3>3, <4>1
        <5>2. m.edit >= said'[p]
          BY <1>10, <4>1 DEF Clean
        <5>3. n.edit <= said'[p]
          BY <1>8, <3>1, <3>3
        <5>4. m.edit \in Nat /\ n.edit \in Nat /\ said'[p] \in Nat
          BY <1>7, <1>8, <5>1
        <5> QED
          BY <5>1, <5>2, <5>3, <5>4
      <4>2. \A s \in DOMAIN feed : issued + 1 > s
        BY <1>4
      <4>3. feed'[issued + 1].asop = p /\ feed'[issued + 1].kind # "AsopRetired"
        BY <1>5, <1>6, <3>1, <3>3
      <4> QED
        BY <1>5, <4>1, <4>2, <4>3 DEF LastWord
    <3> QED
      BY <3>2, <3>3
  <2> QED
    BY <2>4, <2>5
<1>11. ASSUME NEW p \in Procs, NEW t \in Int, t <= issued, Ahead(p, t) PROVE Ahead(p, t)'
  <2>1. CASE \E s \in DOMAIN feed : s > t /\ NewsOf(p, feed[s])
    BY <1>2, <1>5, <2>1 DEF Ahead, NewsOf
  <2>2. CASE \E m \in saying : NewsOf(p, m)
    <3>1. PICK m \in saying : NewsOf(p, m)
      BY <2>2
    <3>2. CASE m # n
      BY <1>2, <3>1, <3>2 DEF Ahead, NewsOf
    <3>3. CASE m = n
      <4>1. issued + 1 > t
        BY <1>4, <1>11
      <4>2. issued + 1 \in DOMAIN feed'
            /\ feed'[issued + 1].kind = n.kind /\ feed'[issued + 1].asop = n.asop
        BY <1>5, <1>6
      <4> QED
        BY <1>2, <3>1, <3>3, <4>1, <4>2 DEF Ahead, NewsOf
    <3> QED
      BY <3>2, <3>3
  <2> QED
    BY <1>11, <2>1, <2>2 DEF Ahead
<1>12. issued' \in Nat /\ issued <= issued' /\ spoiled \subseteq spoiled'
  BY <1>2, <1>4
<1>13. /\ \A s \in DOMAIN feed' : (s \in DOMAIN feed /\ feed'[s] = feed[s]) \/ s = issued + 1
       /\ \A s \in DOMAIN feed : s > mark => s \in DOMAIN feed' \/ feed[s].asop \in spoiled'
  BY <1>5
<1> QED
  BY <1>2, <1>9, <1>10, <1>11, <1>12, <1>13, LibraryMoves

LEMMA FollowingKeeps ==
  ASSUME FeedInv, FollowTrue, FollowNext PROVE FollowTrue'
<1>1. CASE \E p \in Procs : Drafted(p) \/ Activated(p) \/ Retired(p)
  BY <1>1, EditKeeps
<1>2. CASE \E n \in saying : AnnounceEdit(n) \/ AnnounceFails(n)
  BY <1>2, SaidKeeps, FailKeeps
<1>3. CASE FeedPrune
  BY <1>3, PruneKeepsSight
<1>4. CASE \E y \in Syncs : SyncStep(y) \/ SyncDies(y)
  BY <1>4, ReadKeeps, DropKeeps, FetchKeeps, PutKeeps, SkipKeeps, EndKeeps DEF SyncStep
<1> QED
  BY <1>1, <1>2, <1>3, <1>4 DEF FollowNext

LEMMA RegistryKeepsFollowing ==
  ASSUME FeedInv, FollowInv, [RegistryNext]_registryVars
  PROVE  FollowInv'
<1>1. CASE FollowPart(FollowNext)
  <2>1. part = "following" /\ part' = part /\ FollowNext
    BY <1>1 DEF FollowPart
  <2>2. FollowTrue'
    BY <2>1, FollowingKeeps DEF FollowInv
  <2> QED
    BY <2>1, <2>2 DEF FollowInv
<1>2. ASSUME UNCHANGED <<part, followVars>>, UNCHANGED feedVars \/ part # "following"
      PROVE  FollowInv'
  <2>1. CASE part # "following"
    BY <1>2, <2>1 DEF FollowInv, followVars
  <2>2. CASE part = "following"
    <3>1. FollowTrue
      BY <2>2 DEF FollowInv
    <3>2. UNCHANGED <<active, edits, saying, said, cache, mark, sync, unsaid, spoiled, deaths>>
      BY <1>2 DEF followVars
    <3>3. UNCHANGED <<backend, feed, issued, floor>>
      BY <1>2, <2>2 DEF feedVars, table, retained
    <3>4. FollowType'
      BY <3>1, <3>2, <3>3 DEF FollowTrue, FollowType, Notices
    <3>5. \A p \in Procs, y \in Syncs :
            /\ PassTells(y, p)' <=> PassTells(y, p)
            /\ Running(y)' <=> Running(y)
      BY <3>2, <3>3 DEF PassTells, Puts, Row, Reach, Farther, Ahead, StillHeld, NewsOf, InHandOf, First,
                        Running
    <3>6. \A p \in Procs : ProcTrue(p)'
      BY <3>1, <3>2, <3>3, <3>5 DEF FollowTrue, ProcTrue, Clean, LastWord, MarkTells, Ahead, NewsOf
    <3>7. \A y \in Syncs : SyncTrue(y)'
      BY <3>1, <3>2, <3>3 DEF FollowTrue, SyncTrue, Running, InPass, PassIsWhole, InHandOf
    <3> QED
      BY <1>2, <2>2, <3>1, <3>3, <3>4, <3>6, <3>7 DEF FollowInv, FollowTrue
  <2> QED
    BY <2>1, <2>2
<1>3. CASE FeedPart(FeedNext)
  BY <1>2, <1>3 DEF FeedPart
<1>4. CASE BackPart(BackNext)
  BY <1>2, <1>4 DEF BackPart
<1>5. CASE \/ SnapPart(SnapNext) \/ LeasePart \/ AnswerPart \/ SchemaPart \/ WorkPart(WorkNext)
           \/ CallPart \/ UNCHANGED registryVars
  BY <1>2, <1>5 DEF SnapPart, LeasePart, AnswerPart, SchemaPart, WorkPart, CallPart, registryVars, feeders
<1> QED
  BY <1>1, <1>3, <1>4, <1>5 DEF RegistryNext

\* A cursor with an empty page after it has nothing ahead on the feed.
LEMMA EmptyPages ==
  ASSUME FeedInv, FollowType, CaughtUp
  PROVE  \A s \in DOMAIN feed : ~(s > mark)
<1>1. PICK start : start = StartOf(mark)
  OBVIOUS
<1>2. /\ DOMAIN feed \in SUBSET Nat /\ floor \in Nat /\ mark \in Int
  BY FeedNumbers
<1>3. \A s \in DOMAIN feed : s > mark => s > start
  BY <1>1, <1>2 DEF StartOf, FollowType
<1> DEFINE above == {s \in DOMAIN feed : s > start}
<1>4. SUFFICES ASSUME above # {} PROVE FALSE
  BY <1>3
<1>5. Min(above) \in above /\ \A s \in above : Min(above) <= s
  BY <1>2, <1>4, LeastOf
<1>6. {t \in above : t < Min(above)} = {}
  BY <1>2, <1>5
<1>7. Cardinality({t \in above : t < Min(above)}) < PageSize
  <2>1. PageSize \in Nat /\ PageSize # 0
    BY FeedAssumption
  <2>2. Cardinality({t \in above : t < Min(above)}) = 0
    BY <1>6, FS_EmptySet
  <2> QED
    BY <2>1, <2>2
<1>8. Min(above) \in Page(start)
  BY <1>5, <1>7 DEF Page
<1> QED
  BY <1>1, <1>8 DEF CaughtUp

\* A harness at the end of the feed holds what is active, with any number of
\* procedures, syncs beside each other, prunes and deaths; but for an announcement that
\* failed or crossed another, a row that was pruned unread, a fetch that failed, and a
\* copy put while another sync ran (Sync.once, _announced).
THEOREM CachesFollow == RegistrySpec => []CacheIsFollowed
<1>1. RegistryInit => FeedInv /\ FollowInv
  <2> SUFFICES ASSUME RegistryInit PROVE FeedInv /\ FollowInv
    OBVIOUS
  <2>1. FeedInv
    BY FeedBegins DEF RegistryInit
  <2>2. part = "following" => FollowTrue
    BY FollowBegins DEF RegistryInit
  <2>3. cache = active
    BY DEF RegistryInit, FollowInit
  <2> QED
    BY <2>1, <2>2, <2>3 DEF FollowInv
<1>2. FeedInv /\ FollowInv /\ [RegistryNext]_registryVars => (FeedInv /\ FollowInv)'
  BY RegistryKeepsFeed, RegistryKeepsFollowing
<1>3. FeedInv /\ FollowInv => CacheIsFollowed
  <2> SUFFICES ASSUME FeedInv, FollowInv, CaughtUp, NEW p \in Procs, Settled(p),
                      p \notin unsaid \cup spoiled
               PROVE  cache[p] = active[p]
    BY DEF CacheIsFollowed
  <2>1. CASE part = "following"
    <3>1. FollowType /\ ProcTrue(p)
      BY <2>1 DEF FollowInv, FollowTrue
    <3>2. Clean(p)
      BY DEF Clean, Settled
    <3>3. ~Ahead(p, mark)
      BY <3>1, EmptyPages DEF Ahead, NewsOf, Settled
    <3> QED
      BY <3>1, <3>2, <3>3 DEF ProcTrue, MarkTells
  <2>2. CASE part # "following"
    BY <2>2 DEF FollowInv
  <2> QED
    BY <2>1, <2>2
<1> QED
  BY <1>1, <1>2, <1>3, PTL DEF RegistrySpec
=============================================================================
