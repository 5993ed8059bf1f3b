----------------------------- MODULE Inclusion -----------------------------
(***************************************************************************)
(* What the points-to solver promises: inclusion constraints solved by     *)
(* chaotic iteration.  A step adds to one node targets that one constraint *)
(* and the sets so far justify; the iteration may stop only when nothing   *)
(* is missing.  Module Anderson implements it as long as no cycle of the   *)
(* constraint graph is collapsed.                                          *)
(***************************************************************************)
EXTENDS Constraint

VARIABLES
  prog,   \* the constraints, those of any program
  sol,    \* the points-to sets
  done    \* the analysis has returned

vars == <<prog, sol, done>>

TypeOK ==
  /\ prog \in Seq(Constraint)
  /\ sol \in [Node -> SUBSET Node]
  /\ done \in BOOLEAN

Init ==
  /\ prog \in Seq(Constraint)
  /\ sol = [n \in Node |-> {}]
  /\ done = FALSE

Grow ==
  /\ ~done
  /\ \E n \in Node :
       \E new \in SUBSET {o \in Node : Derivable(sol, prog, n, o)} :
         sol' = [sol EXCEPT ![n] = @ \cup new]
  /\ UNCHANGED <<prog, done>>

Finish ==
  /\ ~done /\ IsSolution(sol, prog)
  /\ done' = TRUE
  /\ UNCHANGED <<prog, sol>>

Next == Grow \/ Finish

Spec == Init /\ [][Next]_vars

-----------------------------------------------------------------------------

\* No points-to target is spurious: the sets stay below every assignment
\* that satisfies the constraints, so what is returned is the least one.
Precise ==
  \A S \in [Node -> SUBSET Node] :
    IsSolution(S, prog) => \A n \in Node : sol[n] \subseteq S[n]

=============================================================================
