----------------------------- MODULE FencedWork -----------------------------
(***************************************************************************)
(* What the lease protocol of the work queue promises, with nothing of how *)
(* it keeps the promise: at most one holder per item, a token (the fence)  *)
(* that grows whenever an item changes hands, and a closed item that       *)
(* nothing reopens or hands out again.                                     *)
(***************************************************************************)
EXTENDS Naturals

CONSTANTS Items,   \* the units of work
          Agents,  \* who may hold one
          NoAgent  \* "nobody", not one of them

VARIABLES holder,  \* [Items -> Agents or NoAgent]
          token,   \* [Items -> Nat]: the fence
          phase    \* [Items -> Phases]

vars == <<holder, token, phase>>

\* "open" is workable, "answering" waits for its gate, "closed" is final.
Phases == {"open", "answering", "closed"}

Init ==
  /\ holder = [i \in Items |-> NoAgent]
  /\ token = [i \in Items |-> 0]
  /\ phase = [i \in Items |-> "open"]

-----------------------------------------------------------------------------
(* What may happen to one item in a step.                                  *)

Same(i) ==
  /\ holder'[i] = holder[i]
  /\ token'[i] = token[i]
  /\ phase'[i] = phase[i]

\* Handing the item out always takes a fresh token.
Grant(i) ==
  /\ phase[i] # "closed"
  /\ holder'[i] \in Agents
  /\ token'[i] = token[i] + 1
  /\ phase'[i] = "open"

\* A holding ends, by its report or by being revoked; its token dies with it.
End(i) ==
  /\ holder[i] \in Agents
  /\ phase[i] = "open"
  /\ holder'[i] = NoAgent
  /\ token'[i] = token[i] + 1
  /\ phase'[i] \in Phases

\* The gate of an item answers it while nobody holds it.
Answer(i) ==
  /\ holder[i] = NoAgent
  /\ phase[i] = "answering"
  /\ holder'[i] = NoAgent
  /\ token'[i] = token[i]
  /\ phase'[i] \in {"answering", "closed"}

\* An open item is closed without being worked on.
Withdraw(i) ==
  /\ phase[i] = "open"
  /\ holder'[i] = NoAgent
  /\ token'[i] = token[i]
  /\ phase'[i] = "closed"

\* One item moves; a step of a run may also close the containers it finishes.
Next ==
  \E i \in Items :
     /\ Grant(i) \/ End(i) \/ Answer(i) \/ Withdraw(i)
     /\ \A j \in Items \ {i} : Same(j) \/ (holder[j] = NoAgent /\ Withdraw(j))

Spec == Init /\ [][Next]_vars
=============================================================================
