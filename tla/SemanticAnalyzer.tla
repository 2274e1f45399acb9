-------------------------- MODULE SemanticAnalyzer --------------------------
(***************************************************************************)
(* The walk of semantic-analyzer/ over the syntax trees of the files of    *)
(* one compilation: fillTypes, analyze and getType with the BrawContext    *)
(* they share. The recursion is a list of tasks still to do (todo): a      *)
(* handler replaces the task at the head by those its calls make, in the   *)
(* order of the code. The first error ends the walk.                       *)
(*                                                                         *)
(* A node is a record: its kind, its subtrees in kids, and what else the   *)
(* handlers read. A type is a name with a number of stars. An identifier   *)
(* node is a member of Identifiers; the code writes into it, which here is *)
(* names (how often the signature of the function was appended) and        *)
(* inferred (the type that replaced "@infer"). m_stackSize and the         *)
(* positions of errors are left out: no later stage reads them.            *)
(***************************************************************************)
EXTENDS Integers, Sequences, SequencesExt, FiniteSetsExt

CONSTANTS
    Programs,      \* the programs: files (imports, structs, functions), root
    Identifiers    \* the identifier nodes of variables in them

VARIABLES
    program,           \* the tree; only names and inferred are written
    todo,              \* calls and checks still to be made
    values,            \* types returned by getType and not used yet
    scopes,            \* m_scopes: from names to [type, retain]
    typeTable,         \* the structs in m_typeTable, with their members
    functionTable,     \* m_functionTable: the overloads of a name
    currentFunction,   \* m_currentFunction
    returned,          \* m_returned
    loopOrSwitch,      \* m_loopOrSwitch
    analyzed,          \* the static set of analyze(FileNode)
    names, inferred,   \* what was written into identifier nodes
    result             \* "analyzing", "accepted", an error, or "thrown"

tree == <<names, inferred>>
context == <<scopes, typeTable, functionTable, currentFunction, returned,
             loopOrSwitch, analyzed>>
vars == <<program, todo, values, tree, context, result>>

-----------------------------------------------------------------------------
(* Types *)

Plain(base) == <<base, 0>>
Infer == Plain("@infer")
Void == Plain("void")
Bool == Plain("bool")
IsPtr(t) == t[2] > 0
MakePointer(t) == <<t[1], t[2] + 1>>
Star(t) == <<t[1], t[2] - 1>>

Integral == {"int", "long", "char", "uint", "ulong", "uchar"}
Floating == {"float", "double"}
Builtin == Integral \union Floating \union {"bool", "void"}
IndexTypes == {Plain("int"), Plain("long")}

(* getTypeInfo finds a value. Every name with a star is a type. *)
Known(t) == IsPtr(t) \/ t[1] \in Builtin \union DOMAIN typeTable

Members(t) == IF ~IsPtr(t) /\ t[1] \in DOMAIN typeTable THEN typeTable[t[1]] ELSE <<>>

(* Utils::getRawType, Infer where it finds none. *)
RawType(t) == LET raw == IF IsPtr(t) THEN Star(t) ELSE t
              IN  IF Known(raw) THEN raw ELSE Infer

Comparison == {"==", "!=", "<", "<=", ">", ">="}

OperatorsOf(t) ==
    CASE IsPtr(t) -> {"+", "-"}
      [] t[1] \in Integral /\ ~IsPtr(t) ->
            {"+", "-", "*", "/", "%", "&", "|", "^"} \union Comparison
      [] t[1] \in Floating /\ ~IsPtr(t) -> {"+", "-", "*", "/"} \union Comparison
      [] t = Bool -> {"&", "|", "^", "==", "!=", "&&", "||"}
      [] OTHER -> {}

ResultOf(t, op) == IF ~IsPtr(t) /\ op \in Comparison THEN Bool ELSE t

ValidCasts(t) ==
    CASE IsPtr(t) -> {}
      [] t[1] = "int" -> {"long", "bool", "char", "uint", "ulong", "uchar"}
      [] t[1] \in {"long", "char"} -> {"int", "bool", "char", "uint", "ulong", "uchar"}
      [] t[1] = "uint" -> {"ulong", "bool", "uchar", "int", "long", "char"}
      [] t[1] \in {"ulong", "uchar"} -> {"uint", "bool", "uchar", "int", "long", "char"}
      [] t[1] = "float" -> {"int", "long", "double", "bool"}
      [] t[1] = "double" -> {"int", "long", "float", "bool"}
      [] OTHER -> {}

-----------------------------------------------------------------------------
(* The context *)

Expressions == {"literal", "access", "call", "binary", "unary"}

(* getScopeInfo searches from the innermost scope outwards. *)
Defining(name) == {i \in DOMAIN scopes : name \in DOMAIN scopes[i]}
Resolve_Outermost(name) == scopes[Min(Defining(name))][name]
Resolve(name) == scopes[Max(Defining(name))][name]

Signature(f) == [params |-> [i \in DOMAIN f.params |-> f.params[i].type],
                 returns |-> f.returns]

FunctionExists_SameSize(f) ==
    /\ f.name \in DOMAIN functionTable
    /\ Len(Head(functionTable[f.name]).params) = Len(f.params)

(* functionExists leaves its loop after the first overload of the same     *)
(* size, and once found is false nothing sets it again.                    *)
FunctionExists(f) ==
    /\ f.name \in DOMAIN functionTable
    /\ Head(functionTable[f.name]).params = Signature(f).params

(* getFunction takes any pointer for any other one. *)
Fits(params, given) ==
    /\ Len(params) = Len(given)
    /\ \A i \in DOMAIN params : params[i] = given[i] \/ (IsPtr(params[i]) /\ IsPtr(given[i]))
Candidates(name, given) ==
    IF name \notin DOMAIN functionTable THEN <<>>
    ELSE SelectSeq(functionTable[name], LAMBDA s : Fits(s.params, given))

-----------------------------------------------------------------------------
(* Tasks. What runs inside getType(..).value() throws instead of failing. *)

Task(do, node) == [do |-> do, node |-> node, thrown |-> FALSE]
Doing(do) == result = "analyzing" /\ todo # <<>> /\ Head(todo).do = do
Node == Head(todo).node
Kids == Node.kids
Analyzing(kind) == Doing("analyze") /\ Node.kind = kind
Typing(kind) == Doing("type") /\ Node.kind = kind

(* The tasks of a handler inherit where they run. *)
Continue(tasks) ==
    /\ todo' = [i \in DOMAIN tasks |->
                    [tasks[i] EXCEPT !.thrown = @ \/ Head(todo).thrown]] \o Tail(todo)
    /\ UNCHANGED <<program, result>>

Fail(error) ==
    /\ result' = IF Head(todo).thrown THEN "thrown" ELSE error
    /\ UNCHANGED <<program, todo, values, tree, context>>

(* A handler that needs nothing but its calls. *)
Expand(tasks) == Continue(tasks) /\ UNCHANGED <<values, tree, context>>

(* Types are pushed on values and taken from its end, n at a time. *)
Returns(t) == Continue(<<>>) /\ values' = Append(values, t) /\ UNCHANGED <<tree, context>>
Top == Last(values)
Pop(n) == SubSeq(values, 1, Len(values) - n)
Taken(n) == SubSeq(values, Len(values) - n + 1, Len(values))
Checked(n) == Continue(<<>>) /\ values' = Pop(n) /\ UNCHANGED <<tree, context>>

Each(do, nodes) == [i \in DOMAIN nodes |-> Task(do, nodes[i])]
AnalyzeThenType(nodes) == FlattenSeq([i \in DOMAIN nodes |->
                            <<Task("analyze", nodes[i]), Task("type", nodes[i])>>])

(* expressionWhitelist; what the parser returns always passes it. *)
Whitelisted(nodes) == \A i \in DOMAIN nodes : nodes[i].kind \in Expressions

ExpandIf(nodes, tasks) ==
    IF Whitelisted(nodes) THEN Expand(tasks) ELSE Fail("instruction")

-----------------------------------------------------------------------------
(* Files, structs and functions *)

Files == program.files

(* fillTypes: the imports first, each as often as it is imported. *)
FillFile ==
    /\ Doing("fill")
    /\ LET file == Files[Node]
       IN  Expand(Each("fill", file.imports) \o Each("struct", file.structs))

AnalyzeStruct ==
    /\ Doing("struct")
    /\ IF \E i \in DOMAIN Node.members : ~Known(Node.members[i].type)
       THEN Fail("unknown type")
       ELSE /\ typeTable' = [s \in DOMAIN typeTable \union {Node.name} |->
                IF s = Node.name
                THEN [m \in {Node.members[i].name : i \in DOMAIN Node.members} |->
                        Node.members[Max({i \in DOMAIN Node.members :
                                            Node.members[i].name = m})].type]
                ELSE typeTable[s]]
            /\ Continue(<<>>)
            /\ UNCHANGED <<values, scopes, functionTable, currentFunction, returned,
                           loopOrSwitch, analyzed, tree>>

AnalyzeFile ==
    /\ Doing("file")
    /\ IF Node \in analyzed THEN Expand(<<>>)
       ELSE /\ analyzed' = analyzed \union {Node}
            /\ Continue(Each("file", Files[Node].imports) \o
                        Each("function", Files[Node].functions))
            /\ UNCHANGED <<values, scopes, typeTable, functionTable, currentFunction,
                           returned, loopOrSwitch, tree>>

(* The scope of the parameters encloses that of the body. *)
AnalyzeFunction ==
    /\ Doing("function")
    /\ IF ~Known(Node.returns) \/ \E i \in DOMAIN Node.params : ~Known(Node.params[i].type)
       THEN Fail("unknown type")
       ELSE IF FunctionExists(Node) THEN Fail("duplicate function")
       ELSE /\ functionTable' =
                [f \in DOMAIN functionTable \union {Node.name} |->
                    IF f # Node.name THEN functionTable[f]
                    ELSE (IF f \in DOMAIN functionTable THEN functionTable[f] ELSE <<>>)
                         \o <<Signature(Node)>>]
            /\ currentFunction' = Signature(Node)
            /\ Continue(IF Node.external \/ Node.body = <<>> THEN <<>>
                        ELSE <<Task("open", Node.params)>> \o Each("analyze", Node.body) \o
                             <<Task("close", Node), Task("check returned", Node)>>)
            /\ UNCHANGED <<values, scopes, typeTable, returned, loopOrSwitch, analyzed, tree>>

(* Of two parameters with one name the later one counts. *)
OpenScope ==
    /\ Doing("open")
    /\ scopes' = Append(scopes,
            [name \in {<<Node[i].name, 0>> : i \in DOMAIN Node} |->
                [type |-> Node[Max({i \in DOMAIN Node : <<Node[i].name, 0>> = name})].type,
                 retain |-> FALSE]])
    /\ Continue(<<>>)
    /\ UNCHANGED <<values, typeTable, functionTable, currentFunction, returned,
                   loopOrSwitch, analyzed, tree>>

CloseScope ==
    /\ Doing("close")
    /\ scopes' = Front(scopes)
    /\ Continue(<<>>)
    /\ UNCHANGED <<values, typeTable, functionTable, currentFunction, returned,
                   loopOrSwitch, analyzed, tree>>

SetReturned(b) ==
    /\ returned' = b
    /\ UNCHANGED <<scopes, typeTable, functionTable, currentFunction, loopOrSwitch,
                   analyzed, tree>>

CheckReturned_NoReset ==
    /\ Doing("check returned")
    /\ IF Node.returns # Void /\ ~returned THEN Fail("missing return")
       ELSE SetReturned(returned) /\ Continue(<<>>) /\ UNCHANGED values

CheckReturned ==
    /\ Doing("check returned")
    /\ IF Node.returns # Void /\ ~returned THEN Fail("missing return")
       ELSE SetReturned(FALSE) /\ Continue(<<>>) /\ UNCHANGED values

-----------------------------------------------------------------------------
(* Instructions *)

AnalyzeScope_StaysOpen ==
    /\ Analyzing("scope")
    /\ Expand(<<Task("open", <<>>)>> \o Each("analyze", Kids))

AnalyzeScope ==
    /\ Analyzing("scope")
    /\ Expand(<<Task("open", <<>>)>> \o Each("analyze", Kids) \o <<Task("close", Node)>>)

AnalyzeIf == Analyzing("if") /\ ExpandIf(<<Kids[1]>>, Each("analyze", Kids))

SetLoop(b) ==
    /\ loopOrSwitch' = b
    /\ UNCHANGED <<scopes, typeTable, functionTable, currentFunction, returned, analyzed,
                   values, tree>>

(* A loop sets the flag, also for its own condition, initializer and       *)
(* increment, and resets it at its end whatever encloses it.               *)
AnalyzeLoop ==
    /\ Analyzing("while") \/ Analyzing("for")
    /\ IF ~Whitelisted(<<Kids[IF Node.kind = "for" THEN 2 ELSE 1]>>) THEN Fail("instruction")
       ELSE SetLoop(TRUE) /\ Continue(Each("analyze", Kids) \o <<Task("end loop", Node)>>)

EndLoop == Doing("end loop") /\ SetLoop(FALSE) /\ Continue(<<>>)

AnalyzeBreak ==
    /\ Analyzing("break") \/ Analyzing("continue")
    /\ IF loopOrSwitch THEN Expand(<<>>) ELSE Fail("not in loop")

AnalyzeReturn ==
    /\ Analyzing("return")
    /\ ExpandIf(Kids, IF Kids = <<>> THEN <<>>
                      ELSE AnalyzeThenType(Kids) \o <<Task("return", Node)>>)

CheckReturn ==
    /\ Doing("return")
    /\ IF Top # currentFunction.returns THEN Fail("mismatched types")
       ELSE SetReturned(TRUE) /\ Continue(<<>>) /\ values' = Pop(1)

(* A declaration whose type is inferred gets it before its value is        *)
(* analyzed, and keeps it.                                                 *)
DeclaredType(n) == IF n.type = Infer THEN inferred[n.id] ELSE n.type

AnalyzeDeclaration ==
    /\ Analyzing("declare")
    /\ IF DeclaredType(Node) # Infer THEN Expand(<<Task("declare", Node)>>)
       ELSE IF Kids = <<>> THEN Fail("cannot infer")
       ELSE Expand(Each("type", Kids) \o <<Task("infer", Node), Task("declare", Node)>>)

InferType ==
    /\ Doing("infer")
    /\ inferred' = [inferred EXCEPT ![Node.id] = Top]
    /\ values' = Pop(1)
    /\ Continue(<<>>)
    /\ UNCHANGED <<names, context>>

Declare ==
    /\ Doing("declare")
    /\ LET t == DeclaredType(Node)
       IN  IF ~Known(t) THEN Fail("unknown type")
           ELSE IF Node.scale > 1 /\ ~IsPtr(t) THEN Fail("mismatched types")
           ELSE Expand(AnalyzeThenType(Kids) \o <<Task("bind", Node)>>)

(* The name is bound after the value was analyzed. A retained variable is  *)
(* bound under its name and under the name with the signature, which its   *)
(* identifier then has.                                                    *)
Bind ==
    /\ Doing("bind")
    /\ LET t    == DeclaredType(Node)
           info == [type |-> t, retain |-> Node.retain]
           name == <<Node.name, names[Node.id]>>
           new  == {name} \union (IF Node.retain THEN {<<Node.name, name[2] + 1>>} ELSE {})
           last == Last(scopes)
       IN  IF Kids # <<>> /\ (Node.scale > 1 \/ Top # t) THEN Fail("mismatched types")
           ELSE /\ scopes' = Append(Front(scopes), [n \in DOMAIN last \union new |->
                                            IF n \in new THEN info ELSE last[n]])
                /\ names' = [names EXCEPT ![Node.id] = IF Node.retain THEN @ + 1 ELSE @]
                /\ values' = Pop(Len(Kids))
                /\ Continue(<<>>)
                /\ UNCHANGED <<typeTable, functionTable, currentFunction, returned,
                               loopOrSwitch, analyzed, inferred>>

-----------------------------------------------------------------------------
(* Expressions, analyzed. Where the code asks getType for the type of an   *)
(* operand again with nothing in between, the first answer stands.         *)

AnalyzeLiteral == Analyzing("literal") /\ Expand(<<>>)

Accessed == <<Node.name, names[Node.id]>>

(* The identifier of a retained variable gets the signature appended each  *)
(* time the access is analyzed.                                            *)
AnalyzeAccess ==
    /\ Analyzing("access")
    /\ IF Defining(Accessed) = {} THEN Fail("unknown variable")
       ELSE /\ names' = [names EXCEPT ![Node.id] =
                            IF Resolve(Accessed).retain THEN @ + 1 ELSE @]
            /\ Continue(<<>>)
            /\ UNCHANGED <<values, context, inferred>>

AnalyzeCall ==
    /\ Analyzing("call")
    /\ ExpandIf(Kids, AnalyzeThenType(Kids) \o <<Task("call", Node)>>)

CheckCall ==
    /\ Doing("call")
    /\ IF Candidates(Node.name, Taken(Len(Kids))) = <<>> THEN Fail("unknown function")
       ELSE Checked(Len(Kids))

(* The only calls of getType whose error is not looked at. *)
AnalyzeBinary ==
    /\ Analyzing("binary")
    /\ ExpandIf(Kids, Each("analyze", Kids) \o
                      [i \in DOMAIN Kids |-> [Task("type", Kids[i]) EXCEPT !.thrown = TRUE]]
                      \o <<Task("binary", Node)>>)

CheckBinary ==
    /\ Doing("binary")
    /\ LET t == Taken(2)
       IN  IF t[1] # t[2] THEN Fail("mismatched types")
           ELSE IF Node.op \notin OperatorsOf(t[1]) \union {"="} THEN Fail("unknown operator")
           ELSE Checked(2)

UnaryOperators == {"!", "cast", ".", "->", "&", "*", "[]", "++", "--"}

AnalyzeUnary ==
    /\ Analyzing("unary")
    /\ ExpandIf(Kids, AnalyzeThenType(<<Kids[1]>>) \o <<Task("unary", Node)>>)

(* What is wrong with an operand of type t, "" if nothing. *)
OperandError(n, t) ==
    CASE n.op \notin UnaryOperators -> "unknown operator"
      [] n.op \in {"*", "->"} /\ ~IsPtr(t) -> "mismatched types"
      [] n.op = "!" /\ t # Bool -> "mismatched types"
      [] n.op = "." /\ IsPtr(t) -> "invalid operator"
      [] n.op = "->" /\ RawType(t) = Infer -> "unknown type"
      [] n.op \in {".", "->"} /\ n.member \notin DOMAIN Members(RawType(t)) -> "unknown member"
      [] n.op = "cast" /\ IsPtr(n.data) /\ ~Known(Plain(n.data[1])) -> "unknown type"
      [] n.op = "cast" /\ ~IsPtr(n.data) /\ ~IsPtr(t) /\ n.data[1] \notin ValidCasts(t)
            -> "invalid cast"
      [] n.op = "cast" /\ IsPtr(n.data) /\ ~IsPtr(t) /\ t \notin IndexTypes -> "invalid cast"
      [] n.op \in {"++", "--"} /\ (IsPtr(t) \/ t[1] \notin Integral) -> "mismatched types"
      [] OTHER -> ""

(* A subscript is analyzed after its array, and the types of both after it. *)
CheckUnary ==
    /\ Doing("unary")
    /\ IF OperandError(Node, Top) # "" THEN Fail(OperandError(Node, Top))
       ELSE IF Node.op # "[]" THEN Checked(1)
       ELSE Expand(<<Task("analyze", Kids[2]), Task("array", Node),
                     Task("type", Kids[2]), Task("subscript", Node)>>)

CheckArray == Doing("array") /\ IF IsPtr(Top) THEN Expand(<<>>) ELSE Fail("mismatched types")

CheckSubscript ==
    /\ Doing("subscript")
    /\ IF Top \in IndexTypes THEN Checked(2) ELSE Fail("mismatched types")

-----------------------------------------------------------------------------
(* Expressions, getType *)

TypeLiteral == Typing("literal") /\ Returns(Node.type)

TypeAccess ==
    /\ Typing("access")
    /\ IF Defining(Accessed) = {} THEN Fail("unknown variable")
       ELSE Returns(Resolve(Accessed).type)

TypeUnary ==
    /\ Typing("unary")
    /\ Expand(<<Task("type", Kids[1]), Task("type of unary", Node)>>)

Replaced(n, t) == Continue(<<>>) /\ values' = Append(Pop(n), t) /\ UNCHANGED <<tree, context>>

(* A member that does not exist is asked for with at(), which throws. *)
TypeOfUnary ==
    /\ Doing("type of unary")
    /\ LET t   == IF Node.op = "->" THEN RawType(Top) ELSE Top
           new == CASE Node.op = "&" -> MakePointer(t)
                    [] Node.op \in {"*", "[]"} -> RawType(t)
                    [] Node.op = "cast" -> IF Known(Node.data) THEN Node.data ELSE Infer
                    [] Node.op = "!" -> Bool
                    [] Node.op \in {".", "->"} /\ Node.member \in DOMAIN Members(t)
                          -> Members(t)[Node.member]
                    [] OTHER -> t
       IN  IF t = Infer THEN Fail("unknown type")
           ELSE IF Node.op \in {".", "->"} /\ Node.member \notin DOMAIN Members(t)
           THEN result' = "thrown" /\ UNCHANGED <<program, todo, values, tree, context>>
           ELSE IF Node.op \notin UnaryOperators THEN Fail("unknown operator")
           ELSE IF new = Infer THEN Fail("unknown type")
           ELSE Replaced(1, new)

TypeBinary ==
    /\ Typing("binary")
    /\ Expand(Each("type", Kids) \o <<Task("type of binary", Node)>>)

TypeOfBinary ==
    /\ Doing("type of binary")
    /\ LET t == Taken(2)[1]
       IN  IF Node.op \notin OperatorsOf(t) THEN Fail("unknown operator")
           ELSE Replaced(2, ResultOf(t, Node.op))

(* getType analyzes the arguments of a call again. *)
TypeCall ==
    /\ Typing("call")
    /\ Expand(AnalyzeThenType(Kids) \o <<Task("type of call", Node)>>)

TypeOfCall ==
    /\ Doing("type of call")
    /\ LET found == Candidates(Node.name, Taken(Len(Kids)))
       IN  IF found = <<>> THEN Fail("unknown function")
           ELSE Replaced(Len(Kids), Head(found).returns)

-----------------------------------------------------------------------------
Init ==
    /\ program \in Programs
    /\ todo = <<Task("fill", program.root), Task("file", program.root)>>
    /\ values = <<>>
    /\ scopes = <<>>
    /\ typeTable = <<>>
    /\ functionTable = <<>>
    /\ currentFunction = [params |-> <<>>, returns |-> Infer]
    /\ returned = FALSE
    /\ loopOrSwitch = FALSE
    /\ analyzed = {}
    /\ names = [i \in Identifiers |-> 0]
    /\ inferred = [i \in Identifiers |-> Infer]
    /\ result = "analyzing"

Accept ==
    /\ result = "analyzing" /\ todo = <<>>
    /\ result' = "accepted"
    /\ UNCHANGED <<program, todo, values, tree, context>>

Done == result # "analyzing" /\ UNCHANGED vars

Next ==
    \/ FillFile \/ AnalyzeStruct \/ AnalyzeFile \/ AnalyzeFunction
    \/ OpenScope \/ CloseScope \/ CheckReturned
    \/ AnalyzeScope \/ AnalyzeIf \/ AnalyzeLoop \/ EndLoop \/ AnalyzeBreak
    \/ AnalyzeReturn \/ CheckReturn
    \/ AnalyzeDeclaration \/ InferType \/ Declare \/ Bind
    \/ AnalyzeLiteral \/ AnalyzeAccess \/ AnalyzeCall \/ CheckCall
    \/ AnalyzeBinary \/ CheckBinary
    \/ AnalyzeUnary \/ CheckUnary \/ CheckArray \/ CheckSubscript
    \/ TypeLiteral \/ TypeAccess \/ TypeUnary \/ TypeOfUnary
    \/ TypeBinary \/ TypeOfBinary \/ TypeCall \/ TypeOfCall
    \/ Accept \/ Done

Spec == Init /\ [][Next]_vars /\ WF_vars(Next)
=============================================================================
