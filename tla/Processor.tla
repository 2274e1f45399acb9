----------------------------- MODULE Processor ------------------------------
(***************************************************************************)
(* The part of x86-64 that InstructionSelection uses: what each            *)
(* instruction does to registers and memory, byte by byte, and which       *)
(* instructions an assembler takes. Writing four bytes of a general        *)
(* register clears the rest, writing one keeps it. A called function       *)
(* changes the registers it need not save.                                 *)
(***************************************************************************)
EXTENDS IRCode

General == {"rax", "rdi", "rsi", "rdx", "r14", "r15", "rsp", "rbp"}
Precision == {"xmm0", "xmm1", "xmm2", "xmm14", "xmm15"}
CallerSaved == {"rax", "rdi", "rsi", "rdx"} \union Precision

(* Operands, and instructions with the index of what they were made for. *)
Reg(r, type) == [kind |-> "reg", reg |-> r, index |-> "", scale |-> 0, n |-> 0, type |-> type]
Mem(base, n, type) ==
    [kind |-> "mem", reg |-> base, index |-> "", scale |-> 0, n |-> n, type |-> type]
Imm(n, type) == [Reg("", type) EXCEPT !.kind = "imm", !.n = n]
Target0 == Imm(0, "long")
Ins(op, a, b) == [op |-> op, a |-> a, b |-> b, ir |-> 0]
Ins1(op, a) == Ins(op, a, Target0)

-----------------------------------------------------------------------------
(* What the assembler takes *)

Width(o) == Size(o.type)
IsXmm(o) == o.kind = "reg" /\ o.reg \in Precision
IsFloat(o) == o.type = "float"
FloatOps == {"movss", "addss", "subss", "mulss", "divss", "ucomiss"}

Encodable(i) ==
    /\ ~(i.a.kind = "mem" /\ i.b.kind = "mem")
    /\ i.op \in {"mov", "add", "sub", "imul", "and", "or", "xor", "cmp", "test"} =>
            /\ i.a.kind # "imm" /\ ~IsXmm(i.a) /\ ~IsXmm(i.b)
            /\ i.b.kind = "imm" \/ Width(i.a) = Width(i.b)
    /\ i.op \in FloatOps => /\ Width(i.a) = 4 /\ Width(i.b) = 4
                            /\ IsXmm(i.a) \/ (i.op = "movss" /\ i.a.kind = "mem")
                            /\ IsXmm(i.b) \/ i.b.kind = "mem"
    /\ i.op = "imul" => i.a.kind = "reg" /\ Width(i.a) > 1
    /\ i.op = "idiv" => i.a.kind # "imm" /\ ~IsXmm(i.a)
    /\ i.op \in {"sete", "setl", "setb"} => i.a.kind # "imm" /\ Width(i.a) = 1
    /\ i.op = "lea" => i.a.kind = "reg" /\ i.b.kind = "mem"
    /\ i.op = "movsxd" => i.a.kind = "reg" /\ Width(i.a) = 8 /\ i.b.kind # "imm" /\ Width(i.b) = 4

-----------------------------------------------------------------------------
(* A machine m has regs, memory, flags and pc, its place in the text.      *)

Content(m, r, n) == Whole(SubSeq(m.regs[r], 1, n))

EffectiveAddress(m, o) ==
    Plus(IF o.index = "" THEN Content(m, o.reg, 8)
         ELSE Indexed(Content(m, o.reg, 8), Content(m, o.index, 8), o.scale), o.n)

Fetch(m, o, n) ==
    CASE o.kind = "reg" -> Content(m, o.reg, n)
      [] o.kind = "imm" -> <<"imm", n, o.n>>
      [] o.kind = "mem" -> Read(m.memory, EffectiveAddress(m, o), n)

InRegister(old, bytes) ==
    IF Len(bytes) = 4 THEN bytes \o Zeros(4) ELSE bytes \o SubSeq(old, Len(bytes) + 1, 8)

Put(m, o, value) ==
    IF o.kind = "reg" THEN [m EXCEPT !.regs[o.reg] = InRegister(@, Bytes(value))]
    ELSE [m EXCEPT !.memory = Write(@, EffectiveAddress(m, o), value)]

Rsp(m) == Content(m, "rsp", 8)
MoveRsp(m, n) == [m EXCEPT !.regs["rsp"] = Bytes(Plus(Content(m, "rsp", 8), n))]

PushValue(m, value) ==
    [MoveRsp(m, -8) EXCEPT !.memory = Write(@, Plus(Rsp(m), -8), value)]
PopInto(m, o) == Put(MoveRsp(m, 8), o, Read(m.memory, Rsp(m), 8))

-----------------------------------------------------------------------------
(* Instructions *)

OperationOf(op) ==
    CASE op \in {"add", "addss"} -> "add" [] op \in {"sub", "subss"} -> "sub"
      [] op \in {"imul", "mulss"} -> "mult" [] op = "divss" -> "div" [] OTHER -> op

Combine(m, i, n) ==
    IF i.a.reg = "rsp" THEN MoveRsp(m, IF i.op = "sub" THEN -i.b.n ELSE i.b.n)
    ELSE Put(m, i.a, <<OperationOf(i.op), n, Fetch(m, i.a, n), Fetch(m, i.b, n)>>)

(* cdq and cqo fill rdx with the sign of rax; idiv divides the pair. *)
SignOf(t) == <<"signs", t[2], t>>
Dividend(m, n) ==
    IF Content(m, "rdx", n) = SignOf(Content(m, "rax", n)) THEN Content(m, "rax", n)
    ELSE <<"pair", n, Content(m, "rdx", n), Content(m, "rax", n)>>
Divide(m, dividend, divisor, type) ==
    Put(Put(m, Reg("rax", type), <<"div", Size(type), dividend, divisor>>),
        Reg("rdx", type), <<"mod", Size(type), dividend, divisor>>)

(* setl after cmp, setb after ucomiss. *)
Condition(op, flags) ==
    CASE op = "sete" -> <<"cmpe", 1, flags[3], flags[4]>>
      [] (op = "setl") = (flags[1] = "cmp") -> <<"cmpl", 1, flags[3], flags[4]>>
      [] OTHER -> <<op, 1, flags[3], flags[4]>>

AfterCall(m, i) ==
    [m EXCEPT !.regs = [r \in DOMAIN @ |->
        IF r = "rax" \/ r = "xmm0" THEN Cells(<<"result", 4, i.ir, Fetch(m, i.b, Width(i.b))>>) \o Cells(<<"lost", 4, r>>)
        ELSE IF r \in CallerSaved THEN Cells(<<"lost", 8, r>>) ELSE @[r]]]

Effect(m, i) ==
    CASE i.op \in {"mov", "movss"} -> Put(m, i.a, Fetch(m, i.b, Width(i.a)))
      [] i.op = "lea"    -> Put(m, [i.a EXCEPT !.type = "long"], EffectiveAddress(m, i.b))
      [] i.op = "push"   -> PushValue(m, Fetch(m, i.a, 8))
      [] i.op = "pop"    -> PopInto(m, [i.a EXCEPT !.type = "long"])
      [] i.op = "cdq"    -> Put(m, Reg("rdx", "int"), SignOf(Content(m, "rax", 4)))
      [] i.op = "cqo"    -> Put(m, Reg("rdx", "long"), SignOf(Content(m, "rax", 8)))
      [] i.op = "idiv"   -> Divide(m, Dividend(m, Width(i.a)), Fetch(m, i.a, Width(i.a)), i.a.type)
      [] i.op \in {"cmp", "ucomiss"} ->
            [m EXCEPT !.flags = <<i.op, Width(i.a), Fetch(m, i.a, Width(i.a)),
                                  Fetch(m, i.b, Width(i.a))>>]
      [] i.op = "test"   ->
            [m EXCEPT !.flags = <<"cmp", Width(i.a), Fetch(m, i.a, Width(i.a)),
                                  <<"imm", Width(i.a), 0>>>>]
      [] i.op \in {"sete", "setl", "setb"} -> Put(m, i.a, Condition(i.op, m.flags))
      [] i.op = "movsxd" -> Put(m, i.a, <<"sign", 8, Fetch(m, i.b, 4)>>)
      [] i.op = "call"   -> AfterCall(m, i)
      [] i.op \in {"jmp", "je", "jne", "label", "ret"} -> m
      [] OTHER -> Combine(m, i, Width(i.a))

LabelAt(text, l) == CHOOSE k \in DOMAIN text : text[k].op = "label" /\ text[k].a = l

(* ret leaves to where the stack says; 0 is the caller. *)
NextPc(m, text, zero) ==
    LET i == text[m.pc]
    IN  CASE i.op = "jmp" \/ (i.op = "je" /\ zero) \/ (i.op = "jne" /\ ~zero) -> LabelAt(text, i.a)
          [] i.op = "ret" -> IF Rsp(m) = Plus(Frame, 8) THEN 0 ELSE -1
          [] OTHER -> m.pc + 1

Execute(m, text, zero) == [Effect(m, text[m.pc]) EXCEPT !.pc = NextPc(m, text, zero)]
=============================================================================
