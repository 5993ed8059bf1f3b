----------------------------- MODULE Constraint -----------------------------
(***************************************************************************)
(* The constraints of the points-to analysis and what they mean:           *)
(* include/analysis/points-to/Constraint.h, and the special nodes of       *)
(* ConstraintGraph.h.  A constraint relates two nodes, values or objects   *)
(* of the program; src and dst are GetSrc() and GetDst().                  *)
(*                                                                         *)
(*   E_ADDR_OF   dst = &src         E_COPY    dst = src                    *)
(*   E_LOAD      dst = *src         E_STORE   *dst = src                   *)
(*                                                                         *)
(* The types carry the values of CstEgType, which order the edge sets.     *)
(***************************************************************************)
EXTENDS Naturals, Sequences

CONSTANT NodeNum   \* m_NodeNo once the constraints are collected

ASSUME NodeNumAssumption == NodeNum \in Nat /\ NodeNum >= 4

Node == 0 .. NodeNum - 1

UniversalPtr == 0
UniversalObj == 1
NullPtr      == 2
NullObject   == 3

E_ADDR_OF == 8
E_COPY    == 9
E_STORE   == 10
E_LOAD    == 11

Constraint == [type : {E_ADDR_OF, E_COPY, E_STORE, E_LOAD}, src : Node, dst : Node]

Cst(t, s, d) == [type |-> t, src |-> s, dst |-> d]

\* What a points-to assignment S owes a constraint, as the comments of
\* ProcessAddr, ProcessLoad, ProcessStore and ProcessCopy state it.  The
\* code asks nothing of two cases: dereferencing the unknown object, and a
\* load or store of a node through itself.
Satisfies(S, c) ==
  /\ c.type = E_ADDR_OF => c.src \in S[c.dst]
  /\ c.type = E_COPY    => S[c.src] \subseteq S[c.dst]
  /\ c.type = E_LOAD  /\ c.src # c.dst =>
       \A o \in S[c.src] \ {UniversalObj} : S[o] \subseteq S[c.dst]
  /\ c.type = E_STORE /\ c.src # c.dst =>
       \A o \in S[c.dst] \ {UniversalObj} : S[c.src] \subseteq S[o]

IsSolution(S, p) == \A i \in DOMAIN p : Satisfies(S, p[i])

\* One constraint of p and the assignment S make node n point to o.
Derivable(S, p, n, o) ==
  \E i \in DOMAIN p :
    LET c == p[i]
    IN  \/ c.type = E_ADDR_OF /\ n = c.dst /\ o = c.src
        \/ c.type = E_COPY /\ n = c.dst /\ o \in S[c.src]
        \/ /\ c.type = E_LOAD /\ c.src # c.dst /\ n = c.dst
           /\ \E m \in S[c.src] \ {UniversalObj} : o \in S[m]
        \/ /\ c.type = E_STORE /\ c.src # c.dst
           /\ n \in S[c.dst] \ {UniversalObj} /\ o \in S[c.src]

=============================================================================
