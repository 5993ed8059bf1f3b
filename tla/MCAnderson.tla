----------------------------- MODULE MCAnderson -----------------------------
(***************************************************************************)
(* Small programs for the points-to solver: two objects, each with a value *)
(* that holds its address, one more value, and a few copies, loads and     *)
(* stores among the values; or one object and a value an unknown function  *)
(* returned.  Only address constraints put a node on the work list while   *)
(* the graph is built, so only their order matters.                        *)
(***************************************************************************)
EXTENDS Anderson, SequencesExt

CONSTANT MaxCst   \* copies, loads and stores per program

V1 == 4  V2 == 5  V3 == 6
O1 == 7  O2 == 8
Values == {V1, V2, V3}

Pool == {c \in [type : {E_COPY, E_LOAD, E_STORE}, src : Values, dst : Values] :
           c.src # c.dst}

Addresses == { << Cst(E_ADDR_OF, O1, V1), Cst(E_ADDR_OF, O2, V2) >>,
               << Cst(E_ADDR_OF, O2, V2), Cst(E_ADDR_OF, O1, V1) >>,
               << Cst(E_ADDR_OF, O1, V1), Cst(E_COPY, UniversalPtr, V2) >> }

MCPrograms == {BaseConstraints \o a \o SetToSeq(S) :
                 a \in Addresses, S \in UNION {kSubset(k, Pool) : k \in 0 .. MaxCst}}
=============================================================================
