--------------------------- MODULE MCRunOwnership ---------------------------
(***************************************************************************)
(* A run of one step, between the hub and two stores, for which p and q    *)
(* speak.                                                                  *)
(***************************************************************************)
EXTENDS RunOwnershipProps

CONSTANTS p, q, \* actors
          A, B, \* stores
          s2,   \* a step, assigned to p
          adm   \* the administrator

TwoStores == [o \in {A, B} |-> IF o = A THEN {p} ELSE {q}]
BoundToP == [i \in Steps |-> IF i = s2 THEN p ELSE NoActor]
=============================================================================
