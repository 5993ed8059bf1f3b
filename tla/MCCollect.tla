----------------------------- MODULE MCCollect -----------------------------
(***************************************************************************)
(* Programs for Collect: main has two local variables, a and b, then two   *)
(* instructions of any kind with the results c and d, and reads a and d.   *)
(* It may call f, with one of five bodies, and declarations of functions   *)
(* of another module or of the C library.                                  *)
(***************************************************************************)
EXTENDS Collect

Function(name, params, vararg, body) ==
  [name |-> name, params |-> params, ptr |-> TRUE, vararg |-> vararg, debug |-> FALSE,
   lists |-> {}, def |-> NOPTR, body |-> body]
Library(name, lists) == [Function(name, <<>>, TRUE, <<>>) EXCEPT !.lists = lists]

Declarations ==
  << [Function("fdecl", <<"p">>, TRUE, <<>>) EXCEPT !.def = "f"],
     [Function("debug", <<"x">>, FALSE, <<Instruction("ret", NOPTR, <<"x">>, NOPTR)>>) EXCEPT !.debug = TRUE],
     Library("ext", {}), Library("free", {"normal"}), Library("malloc", {"malloc"}),
     Library("realloc", {"realloc"}), Library("memmove", {"memcpy"}),
     Library("fgets", {"normal", "retarg0"}), Library("strerror_r", {"retarg0"}), Library("strtol", {"cast"}) >>

Do(op, res, args) == Instruction(op, res, args, NOPTR)
Call(f, res, args) == Instruction("call", res, args, f)

\* Instructions with the result r; v is a value the result may depend on.
Simple(r, v) ==
  {Do("load", NOPTR, <<"a">>), Instruction("extract", r, <<NOPTR>>, v), Do("extract", NOPTR, <<NOPTR>>),
   Instruction("inttoptr", r, <<"int">>, v)}
  \cup {Do("load", r, <<x>>) : x \in {"a", v, "g", ADDRESS}}
  \cup {Do("store", NOPTR, <<x, "a">>) : x \in {v, "g", "f", NOPTR, ADDRESS, ALIAS, NULL}}
  \cup {Do("store", NOPTR, <<x, v>>) : x \in {"a", v}} \cup {Do("store", NOPTR, <<v, ALIAS>>)}
  \cup {Do("cast", r, <<x>>) : x \in {v, ALIAS}}
  \cup {Do("gep", x, <<v>>) : x \in {r, NOPTR}} \cup {Do("gep", r, <<x>>) : x \in {"g", ALIAS}}
  \cup {Do("phi", r, <<x, v>>) : x \in {"a", "d", ALIAS}}
  \cup {Do("select", r, <<v, x>>) : x \in {UNDEF, ADDRESS}}
  \cup {Instruction("va_arg", x, <<>>, "main") : x \in {r, NOPTR}}

Calls(r, v) ==
  {Call("f", r, <<x>>) : x \in {v, NOPTR, ALIAS}}
  \cup {Call("f", NOPTR, <<v, x>>) : x \in {"a", NOPTR, ALIAS}}
  \cup {Call(x, r, <<v>>) : x \in {"fdecl", "debug", "ext", "malloc", "fgets"}}
  \cup {Call(x, NOPTR, <<v>>) : x \in {"free", "malloc", "ext", "fgets"}}
  \cup {Call("realloc", r, <<x>>) : x \in {"a", NULL}}
  \cup {Call("memmove", x, <<"a", v>>) : x \in {r, NOPTR}}
  \cup {Call("memmove", r, <<v, x>>) : x \in {"a", ADDRESS}}
  \cup {Call("fgets", r, <<ALIAS>>)} \cup {Call("strerror_r", x, <<NOPTR, v>>) : x \in {r, NOPTR}}
  \cup {Call("strtol", NOPTR, <<"b", x>>) : x \in {"a", NULL, ALIAS}}
  \cup {Instruction("icall", x, <<v>>, fp) : x \in {r, NOPTR}, fp \in {"f", v}}

Pool(r, v) == Simple(r, v) \cup Calls(r, v)

Return(v) == Do("ret", NOPTR, <<v>>)
Bodies ==
  { <<Return("p")>>,
    <<Do("load", "q", <<"p">>), Return("q")>>,
    <<Do("store", NOPTR, <<"p", "g">>), Return(ALIAS)>>,
    <<Call("f", "q", <<"g">>), Do("phi", "s", <<"q", "p">>), Return("s")>>,
    <<Instruction("va_arg", "q", <<>>, "f"), Do("alloca", "s", <<>>), Return("s")>> }

Global(name, string, init) == [name |-> name, string |-> string, init |-> init]
Settings ==
  { <<Global("g", FALSE, <<"f">>)>>,
    <<Global("g", FALSE, <<EXTERNAL>>)>>,
    <<Global("g", FALSE, <<ZERO>>), Global("h", FALSE, <<"g", NULL, ADDRESS>>)>>,
    <<Global("g", FALSE, <<"h", "g">>), Global("h", TRUE, <<>>)>>,
    <<Global("g", FALSE, <<ALIAS>>)>> }

Program(globals, mainFirst, body, x, y) ==
  LET main == [Function("main", <<NOPTR, "argv">>, FALSE,
                <<Do("alloca", "a", <<>>), Do("alloca", "b", <<>>), x, y, Do("load", "e", <<"a">>),
                  Do("load", "z", <<IF IsPtr(y.res) THEN "d" ELSE "b">>), Do("ret", NOPTR, <<NOPTR>>)>>)
               EXCEPT !.ptr = FALSE]
      f == Function("f", <<"p">>, TRUE, body)
  IN [globals |-> globals,
      funcs |-> (IF mainFirst THEN <<main, f>> ELSE <<f, main>>)
                \o SelectSeq(Declarations, LAMBDA d : d.name \in {x.fun, y.fun})]

\* Every two instructions, and every instruction in every surrounding; a
\* value that is used has to be there.
Usable(x) == IF IsPtr(x.res) THEN "c" ELSE "b"
Pairs == UNION {{<<x, y>> : y \in Pool("d", Usable(x))} : x \in Pool("c", "b")}
WellFormed(x, y) == "d" \in PtrArgs(x) => y.res = "d"

MCSources ==
  {Program(<<Global("g", FALSE, <<"f">>)>>, TRUE, <<Do("load", "q", <<"p">>), Return("q")>>, xy[1], xy[2])
   : xy \in {z \in Pairs : WellFormed(z[1], z[2])}}
  \cup {Program(globals, mainFirst, body, x, Do("load", "d", <<Usable(x)>>))
        : globals \in Settings, mainFirst \in BOOLEAN, body \in Bodies, x \in Pool("c", "b")}

=============================================================================
