----------------------------- MODULE IRBuilder ------------------------------
(***************************************************************************)
(* IRBuilderSSA::build (from_ssa/builder_ssa.cpp) and what its result      *)
(* does.  All versions of a variable share one register, phis are left     *)
(* out, a reference becomes an address wherever it is used, and moves of a *)
(* register to itself are erased.                                          *)
(*                                                                         *)
(* A function runs along a path: one decision for every jump that tests a  *)
(* value.  Values are numbers or terms.  A variable that is pointed at is  *)
(* in memory, which is known by its history.                               *)
(***************************************************************************)
EXTENDS Integers, Sequences, FiniteSets

LOCAL INSTANCE SequencesExt
LOCAL INSTANCE FiniteSetsExt
LOCAL INSTANCE TLC

-----------------------------------------------------------------------------
\* Operands.
Reg(r) == [kind |-> "register", of |-> <<r>>]
Addr(rs) == [kind |-> "address", of |-> rs]
Num(n) == [kind |-> "number", of |-> <<n>>]

\* An assignment names the memory it reads behind its operands.
Uses(ins) == IF ins.kind = "assign" /\ ins.uses # <<>> THEN Front(ins.uses) ELSE ins.uses
Ids(ns) == [k \in DOMAIN ns |-> ns[k].id]

\* m_refs and convertOperand.
IsReference(ins) == ins.kind = "assign" /\ ins.op = "ref"
Refs(code) ==
  LET refs == SelectSeq(code, IsReference)
  IN  [r \in {refs[k].to[1].id : k \in DOMAIN refs} |->
        LET k == CHOOSE k \in DOMAIN refs : refs[k].to[1].id = r IN Addr(Ids(Uses(refs[k])))]
ConvertOperand(refs, n) == IF n.id \in DOMAIN refs THEN refs[n.id] ELSE Reg(n.id)
ConvertOperands(refs, ins) ==
  [k \in DOMAIN Uses(ins) |-> ConvertOperand(refs, Uses(ins)[k])] \o [k \in DOMAIN ins.imm |-> Num(ins.imm[k])]

IR(op, to, args, label) == <<[op |-> op, to |-> to, args |-> args, label |-> label]>>

\* buildAssignment: the first of two operands is moved to the target.
Assignment(op, to, args) ==
  IF Len(args) = 2 THEN IR("move", to, <<args[1]>>, 0) \o IR(op, to, <<to, args[2]>>, 0)
  ELSE IR(op, to, args, 0)

Instructions(refs, ins) ==
  LET args == ConvertOperands(refs, ins)
      to == ConvertOperand(refs, ins.to[1])
      left == IF ins.to = <<>> THEN Num(0) ELSE to
  IN  CASE ins.kind = "phi" \/ IsReference(ins) -> <<>>
        [] ins.kind = "assign" /\ ~IsReference(ins) ->
             CASE ins.op = "load" -> IR("move", to, args, 0)
               [] ins.op = "ceq" -> IR("ceq", to, args, 0)
               [] OTHER -> Assignment(ins.op, to, args)
        [] ins.kind = "write" -> IR("move", to, args, 0)
        [] OTHER -> IR(ins.kind, left, args, ins.label)

\* Lines 84-91.
SelfMove(i) == i.op = "move" /\ i.to.kind = "register" /\ i.args = <<i.to>>
BuildIR(code) ==
  LET refs == Refs(code)
      all == FlattenSeq([k \in DOMAIN code |-> Instructions(refs, code[k])])
  IN  SelectSeq(all, LAMBDA i : ~SelfMove(i))

-----------------------------------------------------------------------------
\* What it does.
IsNumber(v) == v[1] = "number"
ValueOfNumber(n) == <<"number", n>>
Truth(b) == IF b THEN 1 ELSE 0
Compute(op, ns) == CASE op = "add" -> ns[1] + ns[2]
                     [] op = "ceq" -> Truth(ns[1] = ns[2])
                     [] op = "lnot" -> Truth(ns[1] = 0)
Commutative == {"add", "ceq"}
Result(op, vs) ==
  IF \A k \in DOMAIN vs : IsNumber(vs[k])
  THEN ValueOfNumber(Compute(op, [k \in DOMAIN vs |-> vs[k][2]]))
  ELSE <<op, IF op \in Commutative THEN <<ToSet(vs)>> ELSE vs>>

\* The variables in memory, and what is found at the place of one: what the last event
\* left that may concern it.
Pointed(ir) == {ir[k].args[1].of[1] : k \in {k \in DOMAIN ir : ir[k].op = "point"}}
PlaceOf(x) == <<"place", x>>
Concerns(event, x) ==
  \/ event.kind = "call"
  \/ event.kind = "write" /\ (event.at[1] = "place" => event.at = PlaceOf(x))
ReadPlace(history, x) ==
  LET events == {k \in DOMAIN history : Concerns(history[k], x)}
      last == Max(events)
  IN  IF events = {} THEN <<"initial", x>>
      ELSE IF history[last].kind = "write" /\ history[last].at = PlaceOf(x) THEN history[last].value
      ELSE <<"left", x, SubSeq(history, 1, last)>>
ReadAt(history, place) ==
  IF place[1] = "place" THEN ReadPlace(history, place[2]) ELSE <<"at", place, history>>

ValueOfRegister(m, r) ==
  CASE r \in m.pointed -> ReadPlace(m.history, r)
    [] r \notin m.pointed /\ r \in DOMAIN m.registers -> m.registers[r]
    [] OTHER -> <<"initial", r>>
PlaceAt(m, o) ==
  IF Len(o.of) = 1 THEN ValueOfRegister(m, o.of[1])
  ELSE <<"plus", ValueOfRegister(m, o.of[1]), ValueOfRegister(m, o.of[2])>>
ValueOf(m, o) ==
  CASE o.kind = "number" -> ValueOfNumber(o.of[1])
    [] o.kind = "register" -> ValueOfRegister(m, o.of[1])
    [] o.kind = "address" -> ReadAt(m.history, PlaceAt(m, o))

Happens(m, event) == [m EXCEPT !.history = Append(@, event)]
WriteAt(m, place, v) == Happens(m, [kind |-> "write", at |-> place, value |-> v])
Put(m, o, v) ==
  CASE o.kind = "address" -> WriteAt(m, PlaceAt(m, o), v)
    [] o.kind = "register" /\ o.of[1] \in m.pointed -> WriteAt(m, PlaceOf(o.of[1]), v)
    [] o.kind = "register" /\ o.of[1] \notin m.pointed -> [m EXCEPT !.registers = (o.of[1] :> v) @@ @]

Calls(m) == Cardinality({k \in DOMAIN m.history : m.history[k].kind = "call"})
ValuesOf(m, args) == [k \in DOMAIN args |-> ValueOf(m, args[k])]

\* One instruction, other than a jump or a return.
Execute(m, i) ==
  CASE i.op = "label" -> m
    [] i.op \in {"move", "pderef"} -> Put(m, i.to, ValueOf(m, i.args[1]))
    [] i.op = "point" -> Put(m, i.to, PlaceOf(i.args[1].of[1]))
    [] i.op = "deref" -> Put(m, i.to, ReadAt(m.history, ValueOf(m, i.args[1])))
    [] i.op = "allocate" -> m
    [] i.op = "call" -> Put(Happens(m, [kind |-> "call", at |-> <<"place", "">>, value |-> <<"given", ValuesOf(m, i.args)>>]),
                            i.to, <<"result", Calls(m)>>)
    [] OTHER -> Put(m, i.to, Result(i.op, ValuesOf(m, i.args)))

LabelIn(ir, l) == Min({k \in DOMAIN ir : ir[k].op = "label" /\ ir[k].label = l})

\* From instruction k on: the conditions that are tested, then what is left.
RECURSIVE Run(_, _, _, _, _)
Run(ir, m, k, path, tested) ==
  LET i == ir[k]
      found == Append(tested, ValueOf(m, i.args[1]))
  IN  CASE i.op = "jump" -> Run(ir, m, LabelIn(ir, i.label), path, tested)
        [] i.op = "jumpif" ->
             IF path = <<>> THEN [tested |-> found, history |-> m.history, left |-> <<>>]
             ELSE Run(ir, m, IF path[1] THEN LabelIn(ir, i.label) ELSE k + 1, Tail(path), found)
        [] i.op = "return" ->
             [tested |-> tested, history |-> m.history, left |-> [r \in m.kept |-> ValueOfRegister(m, r)]]
        [] OTHER -> Run(ir, Execute(m, i), k + 1, path, tested)

\* What can be told from outside after a path: conditions, what was written to memory
\* and given to calls, and the registers that outlast the function.
Outcome(code, path, kept) ==
  LET ir == BuildIR(code)
  IN  Run(ir, [registers |-> <<>>, history |-> <<>>, pointed |-> Pointed(ir), kept |-> kept], 1, path, <<>>)
=============================================================================
