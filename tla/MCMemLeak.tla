----------------------------- MODULE MCMemLeak -----------------------------
(***************************************************************************)
(* Small programs as the dependence graphs that Dependence.cpp builds of   *)
(* them.  A function is a range of ids, its first one the head.  M is main. *)
(***************************************************************************)
EXTENDS MemLeak

CONSTANTS M, F, C1, C2

Line(a, b) == {<<i, i + 1>> : i \in a .. b - 1}

\* flow within functions, the callees of calls, and data dependences: dd within
\* functions and through globals, par to formal parameters, res of results.
Graph(fun, kind, flow, callee, dd, par, res, large) ==
  LET ids == DOMAIN fun
      HeadId(f) == CHOOSE n \in ids : fun[n] = f /\ (n = 1 \/ fun[n - 1] # f)
      ReturnId(f) == CHOOSE n \in ids : fun[n] = f /\ kind[n] = "ret"
  IN [fun |-> fun, kind |-> kind, loc |-> [n \in ids |-> n], large |-> [f \in Func |-> f \in large],
      invokes |-> {}, pointed |-> {},
      edges |-> {<<IF p[1] \in DOMAIN callee THEN EA_CFG + EA_CFG_DMY ELSE EA_CFG, p[1], p[2]>> : p \in flow}
        \cup {<<EA_CFG + EA_CALL, c, HeadId(callee[c])>> : c \in DOMAIN callee}
        \cup {<<EA_CFG + EA_RET, ReturnId(callee[p[1]]), p[2]>> : p \in {q \in flow : q[1] \in DOMAIN callee}}
        \cup {<<EA_DD, p[1], p[2]>> : p \in dd} \cup {<<EA_DD + EA_CALL, p[1], p[2]>> : p \in par}
        \cup {<<EA_DD + EA_RET, p[1], p[2]>> : p \in res}]

\* An allocation in main, a branch that may test it, a free in one of the ways
\* (itself or a call of F), and another end, exit or free in the other one.
\* A jump ends each way.
Local(use, other, cmp, tested, inF) ==
  Graph([n \in 1 .. (IF use = "call" THEN 17 ELSE 12) |-> IF n < 13 THEN M ELSE F],
        <<"malloc", "other", "other", cmp, "br", "other", use, "other", other, "other", "ret", "other">> \o
          IF use = "free" THEN <<>>
          ELSE <<"other", "other", IF inF = "maybe" THEN "br" ELSE "other", IF inF = "never" THEN "other" ELSE "free", "ret">>,
        Line(1, 8) \cup {<<8, 11>>, <<5, 9>>, <<9, IF other = "exit" THEN 12 ELSE 10>>, <<10, 11>>}
          \cup (IF use = "call" THEN Line(13, 17) \cup IF inF = "maybe" THEN {<<15, 17>>} ELSE {} ELSE {}),
        IF use = "call" THEN [c \in {7} |-> F] ELSE <<>>,
        {<<1, 2>>, <<3, 4>>, <<4, 5>>, <<2, 6>>, <<6, 7>>}
          \cup (IF use = "call" THEN {<<13, 14>>, <<14, 16>>} ELSE {}) \cup (IF tested THEN {<<2, 3>>} ELSE {}) \cup (IF other = "free" THEN {<<2, 9>>} ELSE {}),
        IF use = "call" THEN {<<6, 13>>} ELSE {}, {}, {})

\* Main calls F, which may free the allocation, and then through a pointer C1,
\* which frees it, or F again.
Pointer(both) ==
  LET gr == Graph([n \in 1 .. 15 |-> IF n < 8 THEN M ELSE IF n < 13 THEN F ELSE C1],
        <<"malloc", "other", "call", "other", "call", "other", "ret",
          "other", "other", "br", "free", "ret", "other", "free", "ret">>,
        Line(1, 7) \cup Line(8, 12) \cup {<<10, 12>>} \cup Line(13, 15),
        [c \in {3, 5} |-> IF c = 3 THEN F ELSE C1],
        {<<1, 2>>, <<2, 3>>, <<1, 4>>, <<4, 5>>, <<8, 9>>, <<9, 11>>, <<13, 14>>},
        {<<2, 8>>, <<4, 13>>} \cup (IF both THEN {<<4, 8>>} ELSE {}), {}, {})
  IN IF both THEN [gr EXCEPT !.edges = @ \cup {<<EA_CFG + EA_CALL, 5, 8>>, <<EA_CFG + EA_RET, 12, 6>>}, !.pointed = {5}]
     ELSE [gr EXCEPT !.pointed = {5}]

\* F and C1 store something else in the global of main.  Main calls C1, which
\* calls F, or calls F itself and frees what the global holds.
Stores ==
  Graph([n \in 1 .. 15 |-> IF n < 3 THEN F ELSE IF n < 6 THEN C1 ELSE M],
        <<"other", "ret", "call", "other", "ret",
          "malloc", "other", "br", "call", "other", "call", "other", "free", "other", "ret">>,
        Line(1, 2) \cup Line(3, 5) \cup Line(6, 10) \cup {<<8, 11>>, <<10, 15>>} \cup Line(11, 15),
        [c \in {3, 9, 11} |-> IF c = 9 THEN C1 ELSE F],
        {<<6, 7>>, <<7, 12>>, <<12, 13>>, <<1, 12>>, <<4, 12>>}, {}, {}, {})

\* F allocates into a global; C1 and C2 call it and may free it, main calls
\* them and may look at the global.
Shared(free1, free2, branch, look) ==
  Graph([n \in 1 .. 16 |-> IF n < 4 THEN F ELSE IF n < 9 THEN C1 ELSE IF n < 13 THEN C2 ELSE M],
        <<"malloc", "other", "ret", "call", "other", IF branch THEN "br" ELSE "other", free1, "ret",
          "call", "other", free2, "ret", "call", "call", "other", "ret">>,
        Line(1, 3) \cup Line(4, 8) \cup Line(9, 12) \cup Line(13, 16) \cup (IF branch THEN {<<6, 8>>} ELSE {}),
        [c \in {4, 9, 13, 14} |-> IF c = 13 THEN C1 ELSE IF c = 14 THEN C2 ELSE F],
        {<<1, 2>>, <<2, 5>>, <<5, 7>>, <<2, 10>>, <<10, 11>>} \cup (IF look THEN {<<2, 15>>} ELSE {}), {}, {}, {})

\* F returns what it allocates, to C1 and perhaps to main.
Wrapper(free1, free2, large, both) ==
  Graph([n \in 1 .. 13 |-> IF n < 5 THEN F ELSE IF n < 10 THEN C1 ELSE M],
        <<"malloc", "other", "other", "ret", "call", "other", "other", free1, "ret",
          IF both THEN "call" ELSE "other", free2, "call", "ret">>,
        Line(1, 4) \cup Line(5, 9) \cup Line(10, 13),
        [c \in {5, 12} \cup (IF both THEN {10} ELSE {}) |-> IF c = 12 THEN C1 ELSE F],
        Line(1, 4) \cup Line(5, 8) \cup {<<10, 11>>}, {}, {<<4, 5>>} \cup IF both THEN {<<4, 10>>} ELSE {}, large)

\* F also returns what its call of itself returns.
Recursive(large) ==
  Graph([n \in 1 .. 9 |-> IF n < 7 THEN F ELSE M],
        <<"malloc", "other", "call", "other", "other", "ret", "call", "free", "ret">>,
        Line(1, 6) \cup Line(7, 9), [c \in {3, 7} |-> F],
        {<<1, 2>>, <<2, 5>>, <<5, 6>>, <<3, 4>>, <<4, 5>>, <<7, 8>>}, {}, {<<6, 3>>, <<6, 7>>}, large)

\* F, which may free it, is called twice, the second time perhaps in the
\* loop of the first.
Twice(branch, loop) ==
  Graph([n \in 1 .. 12 |-> IF n < 8 THEN M ELSE F],
        <<"malloc", "other", "call", "other", "call", IF loop THEN "br" ELSE "other", "ret",
          "other", "other", IF branch THEN "br" ELSE "other", "free", "ret">>,
        Line(1, 7) \cup Line(8, 12) \cup (IF branch THEN {<<10, 12>>} ELSE {}) \cup (IF loop THEN {<<6, 2>>} ELSE {}),
        [c \in {3, 5} |-> F],
        {<<1, 2>>, <<2, 3>>, <<1, 4>>, <<4, 5>>, <<8, 9>>, <<9, 11>>}, {<<2, 8>>, <<4, 8>>}, {}, {})

\* The allocation may become the head of a list, whose last element is freed.
List ==
  Graph([n \in 1 .. 12 |-> M],
        <<"malloc", "other", "br", "other", "other", "other", "other", "other", "br", "other", "free", "ret">>,
        Line(1, 12) \cup {<<3, 6>>, <<9, 6>>}, <<>>,
        {<<1, 2>>, <<2, 4>>, <<4, 5>>, <<5, 6>>, <<6, 7>>, <<7, 8>>, <<8, 6>>, <<8, 10>>, <<10, 11>>}, {}, {}, {})

\* F allocates into a global and returns to C1, which returns to main; each
\* caller may free it, perhaps on one of two ways.
Deep(free1, free2, branch1, branch2) ==
  Graph([n \in 1 .. 13 |-> IF n < 4 THEN F ELSE IF n < 9 THEN C1 ELSE M],
        <<"malloc", "other", "ret", "call", "other", IF branch1 THEN "br" ELSE "other", free1, "ret",
          "call", "other", IF branch2 THEN "br" ELSE "other", free2, "ret">>,
        Line(1, 3) \cup Line(4, 8) \cup Line(9, 13)
          \cup (IF branch1 THEN {<<6, 8>>} ELSE {}) \cup (IF branch2 THEN {<<11, 13>>} ELSE {}),
        [c \in {4, 9} |-> IF c = 4 THEN F ELSE C1],
        {<<1, 2>>, <<2, 5>>, <<5, 7>>, <<2, 10>>, <<10, 12>>}, {}, {}, {})

\* F frees the allocation and ends the program, or returns a number.  Its exit
\* node is the unreachable one behind the call of exit, not the return.
NoReturn ==
  LET gr == Graph([n \in 1 .. 11 |-> IF n < 6 THEN M ELSE F],
        <<"malloc", "other", "call", "other", "ret", "other", "br", "free", "exit", "other", "ret">>,
        Line(1, 5) \cup Line(6, 10) \cup {<<7, 11>>}, [c \in {3} |-> F],
        {<<1, 2>>, <<2, 3>>, <<6, 8>>, <<6, 11>>}, {<<2, 6>>}, {<<11, 3>>}, {})
  IN [gr EXCEPT !.edges = (@ \ {<<EA_CFG + EA_RET, 11, 4>>}) \cup {<<EA_CFG + EA_RET, 10, 4>>}]

\* Main invokes F, which may free the allocation, or a function without a body;
\* so may the landing pad.  Both ways meet.
Invoke(inF, pad, body) ==
  LET gr == Graph([n \in 1 .. 9 |-> IF n < 7 THEN M ELSE F],
        <<"malloc", "other", "call", "other", "ret", pad, "other", inF, "ret">>,
        Line(1, 5) \cup {<<6, 4>>} \cup Line(7, 9), IF body THEN [c \in {3} |-> F] ELSE <<>>,
        {<<1, 2>>, <<2, 3>>, <<2, 6>>, <<7, 8>>}, IF body THEN {<<2, 7>>} ELSE {}, {}, {})
  IN [gr EXCEPT !.edges = (@ \ {<<EA_CFG, 3, 4>>}) \cup {<<EA_CFG + EA_CFG_DMY, 3, 4>>, <<EA_CFG, 3, 6>>}, !.invokes = {3}]

\* C1 returns what it allocates, perhaps through a pointer, or what F, a wrapper
\* itself, returns; it may be called by no one.
Wrapped(called, pointed) ==
  LET gr == Graph([n \in 1 .. 10 |-> IF n < 4 THEN F ELSE IF n < 8 THEN C1 ELSE M],
        <<"malloc", "other", "ret", "call", "malloc", "other", "ret", IF called THEN "call" ELSE "other", "free", "ret">>,
        Line(1, 3) \cup Line(4, 7) \cup Line(8, 10), [c \in {4} \cup (IF called THEN {8} ELSE {}) |-> IF c = 4 THEN F ELSE C1],
        {<<1, 2>>, <<2, 3>>, <<4, 6>>, <<5, 6>>, <<6, 7>>, <<8, 9>>}, {}, {<<3, 4>>} \cup IF called THEN {<<7, 8>>} ELSE {}, {})
  IN [gr EXCEPT !.pointed = IF pointed THEN {5} ELSE {}]

MCGraphs ==
  {Local(u, o, c, t, f) : u \in {"free"}, o \in {"other", "exit", "free"}, c \in {"cmp", "nullcmp"}, t \in BOOLEAN, f \in {"always"}}
  \cup {Local("call", o, c, t, f) : o \in {"other", "exit", "free"}, c \in {"cmp", "nullcmp"}, t \in BOOLEAN,
          f \in {"always", "maybe", "never"}}
  \cup {Shared(f1, f2, b, t) : f1, f2 \in {"free", "other"}, b \in BOOLEAN, t \in BOOLEAN}
  \cup {Wrapper(f1, f2, l, c) : f1, f2 \in {"free", "other"}, l \in {{}, {F}}, c \in BOOLEAN}
  \cup {Twice(b, t) : b, t \in BOOLEAN} \cup {Recursive({}), Recursive({F}), List}
  \cup {Pointer(b) : b \in BOOLEAN} \cup {Stores, NoReturn}
  \cup {Invoke(i, f, b) : i, f \in {"free", "other"}, b \in BOOLEAN}
  \cup {Wrapped(b, t) : b, t \in BOOLEAN}
  \cup {Deep(f1, f2, b, c) : f1, f2 \in {"free", "other"}, b, c \in BOOLEAN}
=============================================================================
