------------------------------ MODULE MCOutbox ------------------------------
(***************************************************************************)
(* An outbox with a pushed, keyed line k, a line m appended by a shell, and *)
(* a torn fragment f.                                                      *)
(***************************************************************************)
EXTENDS OutboxProps

CONSTANTS k, m, \* lines
          f,    \* a fragment
          d, e  \* drainers
=============================================================================
