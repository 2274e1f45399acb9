----------------------------- MODULE WellFormed -----------------------------
(***************************************************************************)
(* What SemanticAnalyzer promises: which programs of the language are well *)
(* formed, by recursion over their text, with lexical scopes, lexical      *)
(* loops and no state. Only the rules of types are those of the analyzer.  *)
(* The properties compare the walk with this definition.                   *)
(***************************************************************************)
EXTENDS SemanticAnalyzer

Bad == Plain("not a type")

RECURSIVE FilesOf(_, _), Binds(_, _), BindsAll(_, _), Visit(_, _), VisitAll(_, _),
          Loops(_), NodesOf(_)

(* The files in the order of their functions, a file as often as it is imported. *)
FilesOf(f, files) ==
    FlattenSeq([i \in DOMAIN files[f].imports |-> FilesOf(files[f].imports[i], files)]) \o <<f>>

Valid(t, structs) == IsPtr(t) \/ t[1] \in Builtin \union {s.name : s \in structs}
Raw(t, structs) == LET raw == IF IsPtr(t) THEN Star(t) ELSE t
                   IN  IF Valid(raw, structs) THEN raw ELSE Bad
MembersOf(t, structs) == UNION {ToSet(s.members) : s \in {r \in structs : t = Plain(r.name)}}

(* The functions of each file once, at its first place. *)
FunctionsOf(all, files) ==
    FlattenSeq([i \in DOMAIN all |-> IF \E j \in 1..(i-1) : all[j] = all[i] THEN <<>>
                                     ELSE files[all[i]].functions])

-----------------------------------------------------------------------------
(* Expressions. env has the structs, the functions up to the one being     *)
(* checked and the scopes around, innermost last, each a set of            *)
(* declarations; a name means the last declaration of the innermost scope  *)
(* that has it. The result is the type (Bad if there is none) and which    *)
(* declaration each access means.                                          *)

Meaning(name, env) ==
    LET having == {i \in DOMAIN env.scopes : \E d \in env.scopes[i] : d.name = name}
    IN  IF having = {} THEN {}
        ELSE {d \in env.scopes[Max(having)] : d.name = name}

Callable(name, types, env) ==
    SelectSeq(env.functions, LAMBDA f : f.name = name /\ Fits(Signature(f).params, types))

Unary(n, t, env) ==
    CASE n.op = "!" -> IF t = Bool THEN Bool ELSE Bad
      [] n.op = "&" -> MakePointer(t)
      [] n.op = "*" -> IF IsPtr(t) THEN Raw(t, env.structs) ELSE Bad
      [] n.op \in {".", "->"} ->
            LET of    == IF n.op = "->" THEN Raw(t, env.structs) ELSE t
                found == {m \in MembersOf(of, env.structs) : m.name = n.member}
            IN  IF found = {} \/ IsPtr(t) # (n.op = "->") THEN Bad
                ELSE (CHOOSE m \in found : TRUE).type
      [] n.op = "cast" ->
            IF /\ Valid(Plain(n.data[1]), env.structs)
               /\ IF IsPtr(n.data) THEN IsPtr(t) \/ t \in IndexTypes
                  ELSE IsPtr(t) \/ n.data[1] \in ValidCasts(t)
            THEN n.data ELSE Bad
      [] n.op \in {"++", "--"} -> IF ~IsPtr(t) /\ t[1] \in Integral THEN t ELSE Bad
      [] OTHER -> Bad

TypeOfNode(n, env, types, d, f) ==
    IF \E i \in DOMAIN types : types[i] = Bad THEN Bad
    ELSE CASE n.kind = "literal" -> n.type
           [] n.kind = "access" -> IF d = {} THEN Bad ELSE (CHOOSE x \in d : TRUE).type
           [] n.kind = "call" -> IF f = <<>> THEN Bad ELSE Head(f).returns
           [] n.kind = "binary" -> IF types[1] = types[2] /\ n.op \in OperatorsOf(types[1])
                                   THEN ResultOf(types[1], n.op) ELSE Bad
           [] n.kind = "unary" /\ n.op = "[]" ->
                 IF IsPtr(types[1]) /\ types[2] \in IndexTypes
                 THEN Raw(types[1], env.structs) ELSE Bad
           [] OTHER -> Unary(n, types[1], env)

Found(n, env, types, d) ==
    TypeOfNode(n, env, types, d, Callable(n.name, types, env))

Visited(n, env, kids, d) ==
    [type |-> Found(n, env, [i \in DOMAIN kids |-> kids[i].type], d),
     uses |-> {<<n.id, x.id>> : x \in IF n.kind = "access" THEN d ELSE {}}
              \union UNION {kids[i].uses : i \in DOMAIN kids}]

Visit(n, env) == Visited(n, env, VisitAll(n.kids, env), Meaning(n.name, env))

VisitAll(nodes, env) == [i \in DOMAIN nodes |-> Visit(nodes[i], env)]

-----------------------------------------------------------------------------
(* Instructions: whether they are well formed, what their accesses mean,   *)
(* whether one of them returns a value, and the environment after them.    *)

Judged(ok, uses, returns, env) == [ok |-> ok, uses |-> uses, returns |-> returns, env |-> env]

Inner(env) == [env EXCEPT !.scopes = Append(@, {})]

Ordinary(v, env) == Judged(v.type # Bad, v.uses, FALSE, env)
Leaving(b, env) == Judged(b.ok, b.uses, b.returns, env)

DeclareAs(n, type, given, env) ==
    Judged(/\ type # Bad /\ Valid(type, env.structs)
           /\ \A i \in DOMAIN given : given[i].type = type /\ n.scale <= 1
           /\ n.scale > 1 => IsPtr(type),
           UNION {given[i].uses : i \in DOMAIN given}, FALSE,
           [env EXCEPT !.scopes = Append(Front(@), {x \in Last(env.scopes) : x.name # n.name}
                                            \union {[name |-> n.name, type |-> type, id |-> n.id]})])

DeclareBinds(n, given, env) ==
    DeclareAs(n, IF n.type # Infer THEN n.type ELSE IF given = <<>> THEN Bad ELSE given[1].type,
              given, env)

(* The parts of an instruction whose declarations end with it. *)
Together(v, parts, env) ==
    Judged(v.type # Bad /\ \A i \in DOMAIN parts : parts[i].ok,
           v.uses \union UNION {parts[i].uses : i \in DOMAIN parts},
           \E i \in DOMAIN parts : parts[i].returns, env)

(* In a condition the variable of the initializer is known. *)
ForBinds(n, init) ==
    Together(Visit(n.kids[2], init.env),
             <<init, BindsAll(<<n.kids[3], n.kids[4]>>, [init.env EXCEPT !.loop = TRUE])>>,
             init.env)

Assigned(e, env) ==
    Judged(e[1].type = e[2].type /\ e[1].type # Bad, e[1].uses \union e[2].uses, FALSE, env)

Returned(e, env) ==
    IF e = <<>> THEN Judged(TRUE, {}, FALSE, env)
    ELSE Judged(e[1].type = Last(env.functions).returns, e[1].uses, TRUE, env)

Binds(n, env) ==
    CASE n.kind = "scope" -> Leaving(BindsAll(n.kids, Inner(env)), env)
      [] n.kind = "declare" -> DeclareBinds(n, VisitAll(n.kids, env), env)
      [] n.kind \in {"if", "while"} ->
            Together(Visit(n.kids[1], env),
                     [i \in 1..(Len(n.kids) - 1) |->
                        Binds(n.kids[i + 1], [env EXCEPT !.loop = @ \/ n.kind = "while"])], env)
      [] n.kind = "for" -> ForBinds(n, Binds(n.kids[1], env))
      [] n.kind \in {"break", "continue"} -> Judged(env.loop, {}, FALSE, env)
      [] n.kind = "return" -> Returned(VisitAll(n.kids, env), env)
      [] n.kind = "binary" /\ n.op = "=" -> Assigned(VisitAll(n.kids, env), env)
      [] OTHER -> Ordinary(Visit(n, env), env)

Then(b, r) == Judged(b.ok /\ r.ok, b.uses \union r.uses, b.returns \/ r.returns, r.env)
Follow(b, rest) == Then(b, BindsAll(rest, b.env))
BindsAll(nodes, env) ==
    IF nodes = <<>> THEN Judged(TRUE, {}, FALSE, env)
    ELSE Follow(Binds(Head(nodes), env), Tail(nodes))

(* The parameters have no identifier of their own in the tree. *)
Body(i, functions, structs) ==
    LET ps == functions[i].params
        params == {[name |-> ps[j].name, type |-> ps[j].type, id |-> 0] :
                    j \in {k \in DOMAIN ps : \A l \in (k+1)..Len(ps) : ps[l].name # ps[k].name}}
    IN  BindsAll(functions[i].body, [functions |-> SubSeq(functions, 1, i), structs |-> structs,
                                     loop |-> FALSE, scopes |-> <<params>>])

Concrete(functions) == {i \in DOMAIN functions : ~functions[i].external /\ functions[i].body # <<>>}

(* A member has a type that was defined before. *)
StructsOf(all, files) == FlattenSeq([i \in DOMAIN all |-> files[all[i]].structs])
WellFormedStructs(all) ==
    \A i \in DOMAIN all : \A m \in ToSet(all[i].members) :
        \/ IsPtr(m.type) \/ m.type[1] \in Builtin
        \/ \E j \in 1..(i-1) : m.type = Plain(all[j].name)

WellFormedFunctions(functions, structs) ==
    \A i \in DOMAIN functions :
        /\ Valid(functions[i].returns, structs)
        /\ \A p \in ToSet(functions[i].params) : Valid(p.type, structs)

NoDuplicates(functions) ==
    \A i, j \in DOMAIN functions : i # j =>
        \/ functions[i].name # functions[j].name
        \/ Signature(functions[i]).params # Signature(functions[j]).params

WellFormedBodies(functions, bodies) ==
    \A i \in DOMAIN bodies : bodies[i].ok /\ (functions[i].returns # Void => bodies[i].returns)

-----------------------------------------------------------------------------
(* What the code is known to get wrong. *)

(* The loops of a tree and the breaks and continues in them, in the order  *)
(* of the text.                                                            *)
Loops(n) ==
    LET inside == FlattenSeq([i \in DOMAIN n.kids |-> Loops(n.kids[i])])
    IN  CASE n.kind \in {"while", "for"} -> <<"enter">> \o inside \o <<"leave">>
          [] n.kind \in {"break", "continue"} -> <<"break">>
          [] OTHER -> inside

(* A break behind a loop that the loop it leaves contains: it is refused.  *)
BreakAfterLoop(roots) ==
    \E n \in roots : LET t == Loops(n) IN
        \E j, k \in DOMAIN t : /\ j < k /\ t[j] = "leave" /\ t[k] = "break"
                               /\ \A l \in (j+1)..(k-1) : t[l] # "enter"

NodesOf(n) == {n} \union UNION {NodesOf(n.kids[i]) : i \in DOMAIN n.kids}

Instructions(n) ==
    CASE n.kind = "scope" -> ToSet(n.kids)
      [] n.kind \in {"if", "while"} -> ToSet(Tail(n.kids))
      [] n.kind = "for" -> {n.kids[1], n.kids[3], n.kids[4]}
      [] OTHER -> {}

RetainedIn(nodes) == {n.id : n \in {m \in nodes : m.kind = "declare" /\ m.retain}}

(* A retained variable in an argument of a call whose type is asked for:   *)
(* the identifier is renamed twice, and then unknown.                      *)
RetainedInTypedCall(nodes, retained, uses) ==
    LET typed == {n \in nodes : n.kind = "call"} \ UNION {Instructions(n) : n \in nodes}
    IN  \E c \in typed : \E n \in NodesOf(c) :
            n.kind = "access" /\ \E d \in retained : <<n.id, d>> \in uses

(* Only the first overload of a name is compared with a new definition. *)
AtMostTwoOverloads(functions) ==
    \A i \in DOMAIN functions :
        Cardinality({j \in DOMAIN functions : functions[j].name = functions[i].name}) <= 2

-----------------------------------------------------------------------------
(* The judgement, from its parts one after the other. *)

Text(functions, structs, ordered) ==
    LET roots == {functions[i].body[1] : i \in Concrete(functions)}
    IN  [functions |-> functions, roots |-> roots, nodes |-> UNION {NodesOf(n) : n \in roots},
         bodies |-> [i \in Concrete(functions) |-> Body(i, functions, structs)],
         declared |-> /\ WellFormedStructs(ordered) /\ NoDuplicates(functions)
                      /\ WellFormedFunctions(functions, structs)]

Facts(text) == [text |-> text, retained |-> RetainedIn(text.nodes),
                uses |-> UNION {text.bodies[i].uses : i \in DOMAIN text.bodies}]

Judge(facts) ==
    [wellFormed |-> facts.text.declared /\ WellFormedBodies(facts.text.functions, facts.text.bodies),
     excepted |-> \/ BreakAfterLoop(facts.text.roots)
                  \/ RetainedInTypedCall(facts.text.nodes, facts.retained, facts.uses),
     overloads |-> ~AtMostTwoOverloads(facts.text.functions),
     uses |-> facts.uses, retained |-> facts.retained,
     declared |-> {n.id : n \in {m \in facts.text.nodes : m.kind = "declare"}}]

JudgedText(all, files) ==
    LET ordered == StructsOf(all, files)
    IN  Text(FunctionsOf(all, files), ToSet(ordered), ordered)

Judgements == [p \in Programs |-> Judge(Facts(JudgedText(FilesOf(p.root, p.files), p.files)))]
judgement == Judgements[program]

-----------------------------------------------------------------------------
(* Properties *)

(* Type correctness: as many scopes are open as will be closed, and an     *)
(* identifier is renamed at most twice.                                    *)
TypeOK ==
    /\ names \in [Identifiers -> 0..2]
    /\ \A i \in DOMAIN values : values[i][2] \in Int /\ values[i] # Infer
    /\ Len(scopes) = Cardinality({i \in DOMAIN todo : todo[i].do = "close"})
                   - Cardinality({i \in DOMAIN todo : todo[i].do = "open"})
    /\ returned \in BOOLEAN /\ loopOrSwitch \in BOOLEAN
    /\ analyzed \subseteq DOMAIN Files

(* No program gets through that is not well formed: every name has a       *)
(* declaration before it in a scope around it, types agree, a break is in  *)
(* a loop, a function that must returns a value, and no function is        *)
(* defined twice (main.cpp:96 goes on to code generation without another   *)
(* check).                                                                 *)
AcceptedIsWellFormed ==
    result = "accepted" /\ ~judgement.overloads => judgement.wellFormed

(* A well-formed program is not refused, whatever the flags and tables of  *)
(* the context hold when a node is reached, and analyzing never throws,    *)
(* but for the two cases above (semantic_analyzer.cpp:74,                  *)
(* analyze_variable_access.cpp:14).                                        *)
WellFormedIsAccepted ==
    result \notin {"analyzing", "accepted"} /\ judgement.wellFormed => judgement.excepted

(* In an accepted program every access was renamed as its declaration was, *)
(* and only those of retained variables: later stages find a variable by   *)
(* the name in the node (analyze_variable_access.cpp:14,                   *)
(* analyze_variable_declaration.cpp:45).                                   *)
RetainedNamesAgree ==
    result = "accepted" =>
        /\ \A use \in judgement.uses : names[use[1]] = IF use[2] \in judgement.retained THEN 1 ELSE 0
        /\ \A d \in judgement.declared : names[d] = IF d \in judgement.retained THEN 1 ELSE 0
=============================================================================
