------------------------ MODULE MC_SemanticAnalyzer ------------------------
(* Instances of SemanticAnalyzer: four families of programs. *)
EXTENDS WellFormed

int == Plain("int")
bool == Plain("bool")
intptr == <<"int", 1>>
P == Plain("P")

Lit(t) == [kind |-> "literal", kids |-> <<>>, type |-> t]
Acc(id, x) == [kind |-> "access", kids |-> <<>>, id |-> id, name |-> x]
Un(op, e) == [kind |-> "unary", kids |-> <<e>>, op |-> op]
Cast(t, e) == [kind |-> "unary", kids |-> <<e>>, op |-> "cast", data |-> t]
Member(op, e, m) == [kind |-> "unary", kids |-> <<e>>, op |-> op, member |-> m]
Index(e, i) == [kind |-> "unary", kids |-> <<e, i>>, op |-> "[]"]
Bin(op, l, r) == [kind |-> "binary", kids |-> <<l, r>>, op |-> op]
Call(f, args) == [kind |-> "call", kids |-> args, name |-> f]
Var(id, x, t, retain, value) ==
    [kind |-> "declare", kids |-> value, id |-> id, name |-> x, type |-> t, scale |-> 0,
     retain |-> retain]
Array(id, x, t, n) == [Var(id, x, t, FALSE, <<>>) EXCEPT !.scale = n]
Scope(s) == [kind |-> "scope", kids |-> s]
If(c, s) == [kind |-> "if", kids |-> <<c, Scope(s)>>]
IfElse(c, s, t) == [kind |-> "if", kids |-> <<c, Scope(s), Scope(t)>>]
While(c, s) == [kind |-> "while", kids |-> <<c, Scope(s)>>]
For(i, c, inc, s) == [kind |-> "for", kids |-> <<i, c, inc, Scope(s)>>]
Return(e) == [kind |-> "return", kids |-> e]
Jump(k) == [kind |-> k, kids |-> <<>>]
Fn(f, params, returns, body) ==
    [name |-> f, params |-> params, returns |-> returns, external |-> FALSE,
     body |-> <<Scope(body)>>]
Param(x, t) == [name |-> x, type |-> t]

main(body) == Fn("main", <<>>, int, body)
id == Fn("f", <<Param("a", int)>>, int, <<Return(<<Acc(9, "a")>>)>>)
One == Lit(int)
True == Lit(bool)
R == Return(<<One>>)
OneFile(structs, functions) ==
    [files |-> [a |-> [imports |-> <<>>, structs |-> structs, functions |-> functions]],
     root |-> "a"]

(* Loops, branches, jumps and returns, three levels deep; void and int. *)
Simple == {Jump("break"), R, Call("f", <<One>>)}
Pair(S) == {<<s, t>> : s, t \in S}
Nested(S) == {While(True, s) : s \in Pair(S)} \union {If(True, <<s>>) : s \in S}
             \union {For(Var(1, "i", int, FALSE, <<One>>), Bin("<", Acc(2, "i"), One),
                         Un("++", Acc(3, "i")), <<s>>) : s \in S}
Bodies == {<<s>> : s \in Simple} \union Pair(Simple \union Nested(Simple))
          \union {<<While(True, <<s, t>>)>> : s \in Nested(Simple), t \in Simple}
          \union {<<IfElse(True, <<s>>, <<t>>), R>> : s, t \in Nested(Simple)}
          \union {<<IfElse(True, <<s>>, <<t>>)>> : s, t \in Simple}
Control == {OneFile(<<>>, <<id, main(b)>>) : b \in Bodies}
           \union {OneFile(<<>>, <<id, Fn("g", <<>>, int, <<R>>), Fn("h", <<>>, Void, <<s>>),
                                   main(<<t>>)>>) :
                        s \in {Return(<<>>), R, Call("f", <<One>>)}, t \in Simple}

(* Names: a variable, retained or not, perhaps shadowed, read in a place. *)
Places(x) == {x, Return(<<x>>), Bin("=", x, One), Call("f", <<x>>), Un("++", x),
              Bin("=", Acc(5, "y"), Call("f", <<x>>)), Var(6, "z", int, FALSE, <<Call("f", <<x>>)>>),
              Var(6, "z", Infer, FALSE, <<Call("f", <<x>>)>>), Var(6, "z", Infer, TRUE, <<x>>),
              Call("f", <<Call("f", <<x>>)>>), Return(<<Bin("+", Call("f", <<x>>), One)>>)}
Names == {OneFile(<<>>, <<id,
            Fn("g", <<Param("x", int), Param("y", int)>>, int,
               first \o <<If(True, second \o <<p, Acc(7, "x")>>), Acc(8, "x"), R>>)>>) :
            first \in {<<>>, <<Var(1, "x", int, FALSE, <<One>>)>>,
                       <<Var(1, "x", int, TRUE, <<One>>)>>, <<Var(1, "x", Infer, TRUE, <<>>)>>},
            second \in {<<>>, <<Var(2, "x", int, FALSE, <<Acc(3, "x")>>)>>,
                        <<Var(2, "x", Infer, TRUE, <<Acc(3, "x")>>)>>, <<Acc(3, "w")>>},
            p \in Places(Acc(4, "x"))}

(* Types: every operator on operands of every type, where one is expected. *)
Types == {int, bool, Plain("double"), P, intptr, <<"P", 1>>, <<"nosuch", 1>>, Plain("nosuch")}
Operators(x, y) ==
    {Un(op, x) : op \in UnaryOperators \ {"cast", ".", "->", "[]"}} \union {Index(x, y)}
    \union {Cast(t, x) : t \in Types} \union {Un("#", x)}
    \union {Member(op, x, m) : op \in {".", "->"}, m \in {"m", "n"}}
    \union {Bin(op, x, y) : op \in {"+", "%", "==", "&&"}}
Structs1 == <<[name |-> "P", members |-> <<Param("m", int), Param("p", <<"P", 1>>)>>]>>
Expression == {OneFile(Structs1, <<Fn("g", <<Param("x", t), Param("y", u)>>, int,
                    <<Var(1, "z", v, FALSE, <<e>>), R>>)>>) :
                t \in Types \ {Plain("nosuch")}, u \in {int, intptr, P},
                v \in {int, intptr, Infer},
                e \in Operators(Acc(2, "x"), Acc(3, "y"))}

(* Files, overloads, structs and the rest of the declarations. *)
F(f, types) == [name |-> f, params |-> [i \in DOMAIN types |-> Param("p", types[i])],
                returns |-> Void, external |-> TRUE, body |-> <<>>]
Overloads == {<<int>>, <<bool>>, <<intptr>>, <<int, int>>}
File(imports, structs, functions) ==
    [imports |-> imports, structs |-> structs, functions |-> functions]
User(e) == Fn("u", <<Param("p", <<"bool", 1>>)>>, Void, <<e>>)
Shared ==
    {[files |-> [a |-> File(<<"b", "c">>, <<>>, <<F("f", o), User(Call(g, <<Acc(1, "p")>>))>>),
                 b |-> File(<<"d">>, <<[name |-> "Q", members |-> <<Param("m", t)>>]>>,
                            <<F("f", o2)>>),
                 c |-> File(<<"d">>, <<>>, <<F("g", o), F("h", <<t>>)>>),
                 d |-> File(<<>>, Structs1, <<F("d", <<P>>)>>)], root |-> "a"] :
        o, o2 \in Overloads, g \in {"f", "g", "d", "nosuch"}, t \in {P, int, Plain("nosuch")}}
    \union {OneFile(<<>>, <<F("f", o), F("f", p), F("f", q)>>) : o, p, q \in Overloads}
Odd == {OneFile(<<>>, <<main(<<Array(1, "v", t, n), Index(Acc(2, "v"), One), R>>)>>) :
            t \in {int, intptr}, n \in {1, 2}}
       \union {OneFile(s, <<main(<<R>>)>>) : s \in
            {<<[name |-> "Q", members |-> <<Param("m", P)>>]>> \o Structs1,
             Structs1 \o <<[name |-> "Q", members |-> <<Param("m", P), Param("m", int)>>]>>,
             <<[name |-> "Q", members |-> <<Param("m", Plain("Q"))>>]>>}}
       \union {OneFile(<<>>, <<main(<<s, R>>)>>) :
            s \in {[Var(1, "v", intptr, FALSE, <<One>>) EXCEPT !.scale = 2],
                   Var(1, "v", Infer, FALSE, <<Member(".", One, "m")>>),
                   For(One, One, Un("++", One), <<>>)}}

MC_Programs == Control \union Names \union Expression \union Shared \union Odd
MC_Identifiers == 1..9
=============================================================================
