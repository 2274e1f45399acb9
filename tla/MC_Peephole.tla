---------------------------- MODULE MC_Peephole ----------------------------
(* The functions the compiler is run on, as its printer shows their code.  *)
EXTENDS Peephole

MCPool == {"rdi", "rsi", "rdx", "r14"}

F(code, order, types, params, pointed, memory) ==
    [code |-> code, vars |-> order, types |-> types, params |-> params,
     ranges |-> Ranges(order, code, params), live |-> Live(code),
     pointed |-> pointed, memory |-> memory]
Simple(code, order, types, params) == F(code, order, types, params, {}, {})

I(v) == Var(v, "int")
L(v) == Var(v, "long")
B(v) == Var(v, "bool")
Fl(v) == Var(v, "float")
N(n) == Number(n, "int")
Do(op, a, b) == IR(op, a, b, None)
Do1(op, a) == IR(op, a, None, None)
Return == Do1("return", None)
Mark(l) == Do1("label", Label(l))

Of(type, vs) == [v \in vs |-> type]

(* t = a op s; return t op a *)
Operation(op, s, type) ==
    Simple(<<Do("move", Var("t", type), Var("a", type)), Do(op, Var("t", type), s),
             Do("move", Var("x", type), Var("t", type)), Do("add", Var("x", type), Var("a", type)),
             Do("move", Var("%return", type), Var("x", type)), Return>>,
           <<"a", "b", "t", "x", "%return">>, Of(type, {"a", "b", "t", "x", "%return"}), <<"a", "b">>)

(* return a / b % s + c, with c in rdx *)
Quotient(s, type) ==
    Simple(<<Do("move", Var("q", type), Var("a", type)), Do("div", Var("q", type), Var("b", type)),
             Do("move", Var("m", type), Var("q", type)), Do("mod", Var("m", type), s),
             Do("add", Var("m", type), Var("c", type)),
             Do("move", Var("%return", type), Var("m", type)), Return>>,
           <<"a", "b", "c", "q", "m", "%return">>,
           Of(type, {"a", "b", "c", "q", "m", "%return"}), <<"a", "b", "c">>)

(* c = 1; if(!(a == s)) c = 2; return c *)
Branch(op, s) ==
    Simple(<<Do("move", I("c"), N(1)), IR(op, I("a"), s, B("e")), Do("lnot", B("n"), B("e")),
             Do("jmpf", B("n"), Label(5)), Do("move", I("c"), N(2)), Mark(5),
             Do("move", I("%return"), I("c")), Return>>,
           <<"a", "b", "c", "e", "n", "%return">>,
           Of("int", {"a", "b", "c", "%return"}) @@ Of("bool", {"e", "n"}), <<"a", "b">>)

(* u = b; if(a op u) return 1; return 2, or the other way *)
Both(op, jump) ==
    Simple(<<Do("move", B("u"), B("b")), Do("move", B("t"), B("a")), Do(op, B("t"), B("u")),
             Do(jump, B("t"), Label(3)), Do("move", I("%return"), N(1)), Return,
             Mark(3), Do("move", I("%return"), N(2)), Return>>,
           <<"a", "b", "u", "t", "%return">>,
           Of("bool", {"a", "b", "u", "t"}) @@ Of("int", {"%return"}), <<"a", "b">>)

(* x = 2; x = a; if(a < s) x = b; else x = a + x; return x *)
Alternative(s) ==
    Simple(<<Do("move", I("x"), N(2)), Do("move", I("x"), I("a")), IR("cmpl", I("a"), s, B("e")),
             Do("jmpf", B("e"), Label(1)), Do("move", I("x"), I("b")), Do1("jmp", Label(2)), Mark(1),
             Do("add", I("x"), I("a")), Mark(2), Do("move", I("%return"), I("x")), Return>>,
           <<"a", "b", "x", "e", "%return">>,
           Of("int", {"a", "b", "x", "%return"}) @@ Of("bool", {"e"}), <<"a", "b">>)

(* int* q = &a; *q = b; return a, the address in l *)
ThroughPointer(a, b) ==
    F(<<Do("point", Var("l", "int*"), I("a")), Do("move", Var("q", "int*"), Var("l", "int*")),
        Do("pderef", L("d"), Var("q", "int*")), Do("move", At("d", "", 0, "int"), b),
        Do("move", I("%return"), I("a")), Return>>,
      <<"a", "b", "l", "q", "d", "%return">>,
      Of("int", {"a", "b", "%return"}) @@ Of("int*", {"l", "q"}) @@ Of("long", {"d"}),
      <<"a", "b">>, {"a"}, {"a", "l", "q"})

(* t = *p; return *t *)
Twice ==
    F(<<Do("deref", Var("t", "int*"), Var("p", "int**")), Do("deref", I("x"), Var("t", "int*")),
        Do("move", I("%return"), I("x")), Return>>,
      <<"p", "t", "x", "%return">>,
      Of("int", {"x", "%return"}) @@ Of("int**", {"p"}) @@ Of("int*", {"t"}), <<"p">>, {}, {"p", "t"})

(* v = 4; p[i] = s; return p[i] + i, p perhaps in the frame because it is  *)
(* also dereferenced *)
Element(s, memory) ==
    F(<<Do("upsize", L("j"), I("i")), Do("move", I("v"), N(4)), Do("move", At("p", "j", 0, "int"), s),
        Do("upsize", L("k"), I("i")), Do("move", I("t"), At("p", "k", 0, "int")),
        Do("add", I("t"), I("i")), Do("move", I("%return"), I("t")), Return>>,
      <<"p", "i", "j", "v", "t", "k", "%return">>,
      Of("int", {"i", "v", "t", "%return"}) @@ Of("long", {"j", "k"}) @@ Of("int*", {"p"}),
      <<"p", "i">>, {}, memory)

(* Pair y = *p; Pair z = y; z.n = i; return y.8 + i *)
Copies(n) ==
    F(<<Do("deref", Var("d", "Pair"), Var("p", "Pair*")), Do("copy", Var("y", "Pair"), Var("d", "Pair")),
        Do("copy", Var("z", "Pair"), Var("y", "Pair")), Do("move", At("z", "", n, "int"), I("i")),
        Do("move", I("t"), At("y", "", 8, "int")), Do("add", I("t"), I("i")),
        Do("move", I("%return"), I("t")), Return>>,
      <<"p", "i", "y", "d", "z", "t", "%return">>,
      Of("int", {"i", "t", "%return"}) @@ Of("Pair", {"y", "d", "z"}) @@ Of("Pair*", {"p"}),
      <<"p", "i">>, {}, {"p", "y", "d", "z"})

(* return (int) (a + (long) s) *)
Widths(s) ==
    Simple(<<Do("upsize", L("w"), s), Do("move", L("t"), L("a")), Do("add", L("t"), L("w")),
             Do("downsize", I("x"), L("t")), Do("move", I("%return"), I("x")), Return>>,
           <<"a", "b", "w", "t", "x", "%return">>,
           Of("long", {"a", "w", "t"}) @@ Of("int", {"b", "x", "%return"}), <<"a", "b">>)

(* return a op b < a, in floats *)
Floats(op) ==
    Simple(<<Do("move", Fl("t"), Fl("a")), Do(op, Fl("t"), Fl("b")),
             IR("cmpl", Fl("t"), Fl("a"), B("c")), Do("move", B("%return"), B("c")), Return>>,
           <<"a", "b", "t", "c", "%return">>,
           Of("float", {"a", "b", "t"}) @@ Of("bool", {"c", "%return"}), <<"a", "b">>)

(* return a op b *)
FloatResult(op) ==
    Simple(<<Do("move", Fl("t"), Fl("a")), Do(op, Fl("t"), Fl("b")),
             Do("move", Fl("%return"), Fl("t")), Return>>,
           <<"a", "b", "t", "%return">>, Of("float", {"a", "b", "t", "%return"}), <<"a", "b">>)

(* return g(s) + h(x) + a *)
Calls(s) ==
    Simple(<<Do("call", I("x"), s), Do("call", I("y"), I("x")),
             Do("add", I("y"), I("a")), Do("move", I("%return"), I("y")), Return>>,
           <<"a", "x", "y", "%return">>, Of("int", {"a", "x", "y", "%return"}), <<"a">>)

(* int x = 1; g(); h(); return, x a local whose address is taken *)
VoidCalls ==
    F(<<Do("move", I("x"), N(1)), Do("point", Var("l", "int*"), I("x")),
        Do("call", None, None), Do("call", None, None), Do("move", I("%return"), I("x")), Return>>,
      <<"x", "l", "%return">>, Of("int", {"x", "%return"}) @@ Of("int*", {"l"}), <<>>, {"x"}, {"x", "l"})

(* A local structure that is never used. *)
Unused == F(<<Return>>, <<"y">>, Of("Pair", {"y"}), <<>>, {}, {"y"})

MCPrograms ==
    {Operation("add", I("b"), "int"), Operation("sub", N(3), "int"),
     Operation("mult", I("b"), "int"), Operation("mult", L("b"), "long"),
     Quotient(N(7), "int"), Quotient(L("b"), "long"),
     Branch("cmpe", I("b")), Branch("cmpl", N(3)), Both("and", "jmpf"), Both("or", "jmpt"),
     Alternative(I("b")), Alternative(N(3)),
     ThroughPointer("a", I("b")), ThroughPointer("a", N(2)), Twice,
     Element(N(4), {}), Element(I("v"), {"p"}), Element(I("i"), {"p"}),
     Copies(0), Copies(8), Widths(I("b")), Widths(N(7)),
     Floats("add"), Floats("mult"), FloatResult("div"), FloatResult("sub"),
     Calls(I("a")), Calls(N(6)), VoidCalls, Unused}
=============================================================================
