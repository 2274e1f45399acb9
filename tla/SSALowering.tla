--------------------------- MODULE SSALowering ---------------------------
(***************************************************************************)
(* Builder::build (builder.cpp): the statements of a function become       *)
(* instructions.  SSABuilder takes what comes out.                         *)
(*                                                                         *)
(* A node keeps what decides which instructions there are and which        *)
(* registers they name.  Conditions are variables and operands are         *)
(* variables or literals, so that an expression needs an instruction of    *)
(* its own only where its operator asks for one.  Builder states carry the *)
(* context: code, labels and temporaries given out, the targets of         *)
(* continue and break, and the registers with m_memoryDependant.           *)
(***************************************************************************)
EXTENDS Naturals, Sequences

LOCAL INSTANCE SequencesExt

Variable(x) == <<x, 0>>
Temporary(n) == <<"", n>>
Memory == Variable("mem")
ReturnRegister == Variable("return")
Guard(x) == <<x, 1>>
Literal(n) == <<n>>
NoOperand == <<>>
IsVariable(x) == Len(x) = 2

Operand(x) == IF IsVariable(x) THEN <<[id |-> x, version |-> 0, phi |-> FALSE]>> ELSE <<>>
Number(x) == IF Len(x) = 1 THEN x ELSE <<>>
Ins(kind, to, uses, label) ==
  [kind |-> kind, to |-> to, uses |-> uses, label |-> label, op |-> "", imm |-> <<>>, dependent |-> FALSE]

Context ==
  [code |-> <<>>, labels |-> 0, temps |-> 0, continue |-> 0, break |-> 0, retains |-> {}, dependent |-> {}]
Push(s, ins) == [s EXCEPT !.code = Append(@, ins)]

\* assign, lines 676-688: what points to memory, and what is copied from there.
Dependents(s, op, to, x) ==
  CASE op = "point" -> s.dependent \cup {x, to}
    [] op = "ref" -> s.dependent \cup {to}
    [] op \in {"load", "deref", "pderef"} /\ IsVariable(x) ->
         IF x \in s.dependent THEN s.dependent \cup {to} ELSE s.dependent \ {to}
    [] OTHER -> s.dependent

\* operation: what it computes also names the memory it reads.
Operation(op, xs, memory) ==
  [Ins("assign", <<>>, FlattenSeq([k \in DOMAIN xs |-> Operand(xs[k])]) \o memory, 0)
     EXCEPT !.op = op, !.imm = FlattenSeq([k \in DOMAIN xs |-> Number(xs[k])])]
Assign(s, op, to, xs) ==
  [Push(s, [Operation(op, xs, Operand(Memory)) EXCEPT !.to = Operand(to)])
     EXCEPT !.dependent = Dependents(s, op, to, xs[1])]
Load(s, to, from) == Assign(s, "load", to, <<from>>)
Label(s, l) == Push(s, Ins("label", <<>>, <<>>, l))
Jump(s, l) == Push(s, Ins("jump", <<>>, <<>>, l))
JumpIf(s, l, check) == Push(s, Ins("jumpif", <<>>, Operand(check), l))
Return(s) == Push(s, Ins("return", <<>>, <<>>, 0))

\* Utils::uniqueLabelName and uniqueRegisterName.
Fresh(s, n) == [s EXCEPT !.labels = @ + n]
Temp(s) == Temporary(s.temps + 1)
Taken(s, n) == [s EXCEPT !.temps = @ + n]

-----------------------------------------------------------------------------
\* A retained variable is loaded behind a guard that is retained too.
Declare(s, n) ==
  LET l == s.labels + 1
      kept == [Fresh(s, 1) EXCEPT !.retains = @ \cup {n.name, Guard(n.name[1])}]
      guarded == Load(JumpIf(kept, l, Guard(n.name[1])), Guard(n.name[1]), Literal(1))
  IN  IF n.retain THEN Label(Load(guarded, n.name, n.value), l)
      ELSE Load(s, n.name, n.value)

Allocated(s, n) == Push(s, Ins("allocate", Operand(n.name), <<>>, 0))

\* buildAssignment; an operator gets a temporary first.
Set(s, n) == Load(s, n.name, n.value)
SetResult(s, n, op, xs) == LET t == Temp(s) IN Load(Assign(Taken(s, 1), op, t, xs), n.name, t)
SetSum(s, n) == SetResult(s, n, "add", <<n.left, n.right>>)
Test(s, n) == SetResult(s, n, "ceq", <<n.left, n.right>>)
Not(s, n) == SetResult(s, n, "lnot", <<n.value>>)
Address(s, n) == SetResult(s, n, "point", <<n.value>>)

\* *p + b: the pointer is dereferenced first.
SumBehind(s, n) ==
  LET t == Temp(s) IN SetResult(Assign(Taken(s, 1), "deref", t, <<n.left>>), n, "add", <<t, n.right>>)

\* p[i] for a long i: an address is referenced before it is loaded.
Element(s, n) ==
  LET ref == Temp(s) IN Load(Assign(Taken(s, 1), "ref", ref, <<n.left, n.right>>), n.name, ref)

\* left || right: the operation of the second operand names no memory.
Or(s, n) ==
  LET t == Temp(s)
      l == s.labels + 1
      first == JumpIf(Load(Fresh(Taken(s, 1), 1), t, n.left), l, t)
      second == Push(first, [Operation("or", <<t, n.right>>, <<>>) EXCEPT !.to = Operand(t)])
  IN  Load(Label(second, l), n.name, t)

\* A write to an address: it is referenced, the value loaded and then written.
WriteTo(s, value, address) ==
  LET loaded == Temp(s)
      ref == Temporary(s.temps + 2)
      referenced == Assign(Taken(s, 2), "ref", ref, address)
  IN  Push(Load(referenced, loaded, value), Ins("write", Operand(ref) \o Operand(Memory), Operand(loaded), 0))

\* *p = v, and p[i] = v for a long i.
Store(s, n) ==
  LET t == Temp(s) IN WriteTo(Assign(Taken(s, 1), "pderef", t, <<n.name>>), n.value, <<t>>)
StoreAt(s, n) == WriteTo(s, n.value, <<n.name, n.index>>)

\* postIncDec keeps the old value; both assign the variable itself.
PreIncrement(s, n) == Assign(s, "add", n.name, <<n.name, Literal(1)>>)
PostIncrement(s, n) == PreIncrement(Load(Taken(s, 1), Temp(s), n.name), n)

SetCall(s, n) ==
  LET t == Temp(s)
  IN  Load(Push(Taken(s, 1), Ins("call", Operand(t), Operand(n.value), 0)), n.name, t)

RECURSIVE Build(_, _)
BuildScope(s, nodes) == FoldLeft(LAMBDA r, n : Build(r, n), s, nodes)

\* What a loop sets for continue and break it takes back.
Restored(s, outer) == [s EXCEPT !.continue = outer.continue, !.break = outer.break]
While(s, n) ==
  LET condition == s.labels + 1
      body == s.labels + 2
      exit == s.labels + 3
      inside == [Fresh(s, 3) EXCEPT !.continue = condition, !.break = exit]
      entered == Label(IF n.do THEN inside ELSE Jump(inside, condition), body)
      tested == JumpIf(Label(BuildScope(entered, n.then), condition), body, n.condition)
  IN  Restored(Label(tested, exit), s)

For(s, n) ==
  LET started == Build(s, n.initializer)
      condition == started.labels + 1
      body == started.labels + 2
      exit == started.labels + 3
      continue == started.labels + 4
      inside == [Fresh(started, 4) EXCEPT !.continue = continue, !.break = exit]
      entered == Label(Jump(inside, condition), body)
      stepped == Build(Label(BuildScope(entered, n.then), continue), n.increment)
  IN  Restored(Label(JumpIf(Label(stepped, condition), body, n.condition), exit), s)

If(s, n) ==
  LET label == s.labels + 1
      otherwise == s.labels + 2
      then == BuildScope(JumpIf(Fresh(s, 2), label, n.condition), n.then)
  IN  IF n.else = <<>> THEN Label(then, label)
      ELSE Label(BuildScope(Label(Jump(then, otherwise), label), n.else), otherwise)

Returned(s, n) ==
  Return(IF n.value = NoOperand THEN s ELSE Load(s, ReturnRegister, n.value))

Build(s, n) ==
  CASE n.node = "declare" -> Declare(s, n)
    [] n.node = "array" -> Allocated(s, n)
    [] n.node = "set" -> Set(s, n)
    [] n.node = "sum" -> SetSum(s, n)
    [] n.node = "test" -> Test(s, n)
    [] n.node = "not" -> Not(s, n)
    [] n.node = "address" -> Address(s, n)
    [] n.node = "deref" -> SumBehind(s, n)
    [] n.node = "element" -> Element(s, n)
    [] n.node = "or" -> Or(s, n)
    [] n.node = "store" -> Store(s, n)
    [] n.node = "storeat" -> StoreAt(s, n)
    [] n.node = "pre" -> PreIncrement(s, n)
    [] n.node = "post" -> PostIncrement(s, n)
    [] n.node = "call" -> SetCall(s, n)
    [] n.node = "while" -> While(s, n)
    [] n.node = "for" -> For(s, n)
    [] n.node = "if" -> If(s, n)
    [] n.node = "return" -> Returned(s, n)
    [] n.node = "continue" -> Jump(s, s.continue)
    [] n.node = "break" -> Jump(s, s.break)

\* build(FunctionDefinitionNode), lines 110-125.
Function(args, body) ==
  LET built == BuildScope(Label(Context, 0), body)
      whole == IF built.code[Len(built.code)].kind = "return" THEN built ELSE Return(built)
  IN  [code |-> whole.code, args |-> args, retains |-> whole.retains,
      dependent |-> whole.dependent, optReturn |-> ReturnRegister]
=============================================================================
