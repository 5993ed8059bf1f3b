---------------------------- MODULE MCCallGraph ----------------------------
(* Five functions: the entry, three more with bodies, the last of them with *)
(* an argument, and one without a body.                                     *)
EXTENDS CallGraph

MCHasBody == {0, 1, 2, 3}
MCArgNum == [f \in Func |-> IF f = 3 THEN 1 ELSE 0]
=============================================================================
