---------------------------- MODULE MCDependence ----------------------------
(***************************************************************************)
(* The entry R calls A, and A calls B with the address of its variable X,  *)
(* its first instruction, on the way to a branch or into a loop.  B copies *)
(* its formal P, loads it, and uses the object or a field of it.           *)
(***************************************************************************)
EXTENDS Dependence

CONSTANTS R, A, B, P, K, Fld, Glob

I(op, args) == [op |-> op, args |-> args, off |-> None, callees |-> {}]
Gep(base) == [I("gep", <<base>>) EXCEPT !.off = Fld]
Call(op, gs, args) == [I(op, args) EXCEPT !.callees = gs]
X == <<A, 1>>
T == <<B, 3>>
Nop == I("alloca", <<>>)

CodeR(root) == << IF root THEN Call("vcall", {A}, <<>>) ELSE Nop, I("ret", <<>>) >>
CodeA(kind, gs, self, s1, s2) ==
  << Nop, I("store", <<K, X>>), Call(kind, gs, <<X>>), IF self THEN Call("vcall", {A}, <<>>) ELSE I("br", <<K>>),
     s1, s2, I("load", <<X>>), I("ret", <<>>) >>
CodeB(root, s, t, last) ==
  << Nop, I("store", <<P, <<B, 1>>>>), I("load", <<<<B, 1>>>>), s, t,
     IF root THEN Nop ELSE Call("vcall", {R}, <<>>), last >>

\* B with a branch to an end that does not return, an "unreachable", which has
\* no operands.
CodeB2(s, t, r) ==
  << Nop, I("store", <<P, <<B, 1>>>>), I("load", <<<<B, 1>>>>), s, t,
     I("br", <<T>>), I("br", <<>>), I("ret", r) >>

Line(n) == {<<i, i + 1>> : i \in 1 .. n - 1}
\* A branch to 5 or 6 that meets at 7; the call in a loop; blocks in reverse
\* order; a branch past everything but the return.
Diamond == (Line(8) \ {<<5, 6>>}) \cup {<<4, 6>>, <<5, 7>>}
Loop == Line(8) \cup {<<7, 3>>, <<4, 6>>}
Backward == Line(4) \cup {<<4, 7>>, <<7, 6>>, <<6, 5>>, <<5, 8>>}
Past == Line(8) \cup {<<4, 8>>}

SlotA == { <<I("store", <<K, X>>), Nop>>, <<I("load", <<X>>), Nop>>,
           <<Gep(X), I("store", <<K, X>>)>>, <<Gep(X), Gep(X)>> }
SlotB == { <<I("store", <<K, T>>), Nop>>, <<Gep(T), I("store", <<K, <<B, 4>>>>)>>,
           <<I("load", <<T>>), I("load", <<Glob>>)>>, <<I("load", <<Glob>>), I("store", <<K, Glob>>)>> }

\* A is called by R, or is the entry itself and calls R as well where it calls
\* B, or calls itself instead of the branch; B returns a value or not, and has
\* one end or two, or never ends.
Shape(root, edges, ends, result) ==
  [root |-> root, both |-> FALSE, self |-> FALSE, flow |-> edges, ends |-> ends, result |-> result]
Shapes ==
  {Shape(root, Diamond, 1, <<>>) : root \in BOOLEAN}
  \cup {Shape(TRUE, Loop, 1, <<>>), Shape(TRUE, Backward, 1, <<T>>)}
  \cup {Shape(TRUE, Past, 2, r) : r \in {<<>>, <<T>>}}
  \cup {[Shape(FALSE, Loop, 1, <<>>) EXCEPT !.both = TRUE], [Shape(TRUE, Line(8), 1, <<>>) EXCEPT !.self = TRUE],
        Shape(TRUE, Line(8), 0, <<>>)}

CodeOfB(c, b) ==
  IF c.ends = 2 THEN CodeB2(b[1], b[2], c.result)
  ELSE CodeB(c.root, b[1], b[2], IF c.ends = 0 THEN I("br", <<K>>) ELSE I("ret", c.result))
FlowOfB(c) == Line(7) \cup CASE c.ends = 0 -> {<<7, 6>>} [] c.ends = 1 -> {} [] c.ends = 2 -> {<<6, 8>>}

MCJunk == {None, Glob, X}
MCPrograms ==
  {[code |-> (R :> CodeR(c.root)
              @@ A :> CodeA(IF c.result = <<>> THEN "vcall" ELSE "call", IF c.both THEN {B, R} ELSE {B}, c.self, a[1], a[2])
              @@ B :> CodeOfB(c, b)),
    flow |-> (R :> Line(2) @@ A :> c.flow @@ B :> FlowOfB(c)),
    formals |-> (R :> <<>> @@ A :> <<>> @@ B :> <<P>>),
    void |-> (R :> TRUE @@ A :> TRUE @@ B :> (c.result = <<>>)),
    pts |-> (P :> {X} @@ T :> {X} @@ <<B, 4>> :> {X} @@ <<A, 5>> :> {X} @@ <<A, 6>> :> {X}),
    paths |-> IF c.root THEN << <<R, A, B>> >> ELSE << <<A, B>> >>] :
     a \in SlotA, b \in SlotB, c \in Shapes}
=============================================================================
