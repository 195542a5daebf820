----------------------------- MODULE Clearance -----------------------------
(***************************************************************************)
(* What a hub and an actor may see of shared memory                        *)
(* (src/agentco/clearance.py): a grant of a level per owner, and a home    *)
(* space.  Levels are numbered from the lowest; a space is the sequence of *)
(* its path's names, the root the empty one.                               *)
(***************************************************************************)
EXTENDS Integers, SequencesExt

CONSTANTS Levels, \* how many levels there are (AGENTCO_MEMORY_LEVELS)
          Public  \* the owner every clearance includes

Root == <<>> \* ROOT_SPACE

\* Clearance.allows: levels compare only within one owner; unstated is not
\* cleared.
Allows(c, owner, level) ==
  /\ level \in 1..Levels
  /\ owner # Public => owner \in DOMAIN c.grants /\ level <= c.grants[owner]

\* is_within, sees_space: a reader's own space and every ancestor of it.
IsWithin(space, ancestor) == IsPrefix(ancestor, space)
SeesSpace(c, space)       == IsWithin(c.space, space)

\* narrow: the per-owner minimum of the hub's clearance and the actor's, in
\* the actor's space.
Lower(a, b) == IF a <= b THEN a ELSE b
Narrow(c, d) ==
  [grants |-> [o \in DOMAIN c.grants \cap DOMAIN d.grants |-> Lower(c.grants[o], d.grants[o])],
   space |-> d.space]
=============================================================================
