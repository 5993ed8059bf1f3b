---------------------------- MODULE MCModuleSet ----------------------------
(* Module a has the entry and uses functions f and g; b and c define some of *)
(* them, b also declares and may be a program itself.  The runs with -pre    *)
(* name the modules in both orders, so that either may define a function     *)
(* last, or b by another path than the one it is given by.                   *)
EXTENDS ModuleSet

CONSTANTS modA, modB, modC, modB2, funF, funG, funMain

MCNameSeq == <<funF, funG, funMain>>
Names3(X, Y, Z) == {h \in [{funF, funG, funMain} -> {"none", "decl", "def"}] : h[funF] \in X /\ h[funG] \in Y /\ h[funMain] \in Z}
Any == {"none", "decl", "def"}
MCFiles ==
  {h \in [{modA, modB, modC} -> Names3(Any, Any, {"none", "def"})] :
     /\ h[modA] \in Names3(Any, {"none", "decl"}, {"def"})
     /\ h[modC] \in Names3({"decl", "def"}, {"none", "def"}, {"none"})}
MCContents == {[p \in Path |-> IF p = modB2 THEN h[modB] ELSE h[p]] : h \in MCFiles}
MCPreRuns == {<<modB, modC>>, <<modC, modB>>, <<modA, modB, modC>>, <<modC, modB2>>}
MCArgs == {<<modA>>, <<modA, modC>>, <<modA, modB>>}
=============================================================================
