------------------------ MODULE InstructionSelection ------------------------
(***************************************************************************)
(* CodeGenerator::build and generate of codegen/x86-64 for one function:   *)
(* what is emitted for each instruction of the intermediate code, given    *)
(* the homes the allocator chose, and the run of it on Processor. Homes    *)
(* are registers, "slot" for a place in the frame. Types are int, long,    *)
(* bool, float, pointers and a structure of twelve bytes; calls have one   *)
(* argument or none and no float alive around them (StackFrame and         *)
(* MoveResolver have more). Unsigned types, double, arrays, retained       *)
(* variables and copies of more than 32 bytes are left out.                *)
(***************************************************************************)
EXTENDS Processor

CONSTANTS
    Programs,     \* the functions: code, vars, types, params, ranges, live, pointed, memory
    Pool          \* the general registers a home may be

VARIABLES
    program, homes,
    places,       \* where in the frame the registers that must have a place are
    text,         \* m_text.m_instructions
    machine,      \* the processor that runs the text
    settled,      \* what it had done when it last ended an instruction of the code
    zero          \* whether what jumps test is zero

SPILL1 == "r15"
SPILL2 == "r14"
PRCSPILL1 == "xmm15"
PRCSPILL2 == "xmm14"

-----------------------------------------------------------------------------
(* The homes: registers whose ranges meet differ, parameters come in the   *)
(* registers of the convention, what is marked is in the frame.            *)

Covers(v, k, p) == p.ranges[v][1] <= k /\ k <= p.ranges[v][2]

IsFloatVar(v, p) == p.types[v] = "float"
ReturnHome(p) == IF IsFloatVar("%return", p) THEN "xmm0" ELSE "rax"

ParamRegister(v, p) ==
    LET before == SelectSeq(p.params, LAMBDA w : IsFloatVar(w, p) = IsFloatVar(v, p))
        i      == CHOOSE j \in DOMAIN before : before[j] = v
    IN  IF IsFloatVar(v, p) THEN <<"xmm0", "xmm1">>[i] ELSE <<"rdi", "rsi", "rdx">>[i]

HomesOf(v, p) ==
    CASE v = "%return" -> {ReturnHome(p)}
      [] v \in p.memory -> {"slot"}
      [] v \in ToSet(p.params) -> {ParamRegister(v, p)}
      [] IsFloatVar(v, p) -> {"xmm1", "xmm2", "slot"}
      [] OTHER -> Pool \union {"slot"}

Meet(v, w, p) ==
    \/ Covers(v, p.ranges[w][1], p) /\ Covers(w, p.ranges[w][1], p)
    \/ Covers(w, p.ranges[v][1], p) /\ Covers(v, p.ranges[v][1], p)

(* One register of the code after the other. *)
HomeAssignments(p) ==
    FoldLeft(LAMBDA hs, v :
                {h \in {(v :> r) @@ g : r \in HomesOf(v, p), g \in hs} :
                    \A w \in DOMAIN h \ {v} : h[w] = h[v] /\ h[v] # "slot" => ~Meet(v, w, p)},
             {<<>>}, p.vars)

-----------------------------------------------------------------------------
(* The frame: slots in the order of vars. *)

SizesUpTo(n, p, h) ==
    FoldLeft(LAMBDA sum, v : sum + (IF h[v] = "slot" THEN Size(p.types[v]) ELSE 0),
             0, SubSeq(p.vars, 1, n))
SlotOffset(v, p, h) == -SizesUpTo(CHOOSE n \in DOMAIN p.vars : p.vars[n] = v, p, h)
FrameSize(p, h) == LET spills == SizesUpTo(Len(p.vars), p, h) IN spills + (spills % 16)

Home(v, p, h) ==
    IF h[v] = "slot" THEN Mem("rbp", SlotOffset(v, p, h), p.types[v]) ELSE Reg(h[v], p.types[v])

Saved(h) == IF \E v \in DOMAIN h : h[v] = "r14" THEN <<"r14">> ELSE <<>>

-----------------------------------------------------------------------------
(* Emitting. An operator gives the instructions it adds.                   *)

IsAddress(o) == o.kind = "mem"
BothAddress(t, s) == IsAddress(t) /\ IsAddress(s)
Scratch(o, general, precision) == Reg(IF IsFloat(o) THEN precision ELSE general, o.type)

MovOf(s) == IF IsFloat(s) THEN "movss" ELSE "mov"
OneMove(t, s) == <<Ins(MovOf(s), [t EXCEPT !.type = s.type], s)>>

(* memoryValueToRegister *)
ValueRegister(o) == Scratch(o, SPILL1, PRCSPILL1)
MoveTo(t, s) ==
    IF BothAddress(t, s) THEN OneMove(ValueRegister(s), s) \o OneMove(t, ValueRegister(s))
    ELSE OneMove(t, s)

Binary_Direct(op, t, s) == <<Ins(op, t, s)>>

(* A source in memory goes through a register when the target is there.    *)
Binary(op, t, s) ==
    IF BothAddress(t, s) THEN OneMove(ValueRegister(s), s) \o <<Ins(op, t, ValueRegister(s))>>
    ELSE <<Ins(op, t, s)>>

Through(o, reg) == IF o.kind = "reg" THEN <<>> ELSE OneMove(reg, o)
Seen(o, reg)    == IF o.kind = "reg" THEN o ELSE reg

Multiply(t, s) ==
    LET reg == Scratch(s, SPILL1, PRCSPILL1)
        from == IF IsAddress(s) THEN reg ELSE s
        other == Scratch(s, SPILL2, PRCSPILL2)
        op == IF IsFloat(s) THEN "mulss" ELSE "imul"
    IN  (IF IsAddress(s) THEN OneMove(reg, s) ELSE <<>>)
        \o (IF IsAddress(t) THEN OneMove(other, from) \o <<Ins(op, other, from)>>
            ELSE <<Ins(op, t, from)>>)

(* isRegisterAlive *)
Alive(r, k, p, h) == \E v \in DOMAIN h : h[v] = r /\ Covers(v, k, p)

DivideInto_NoSave(t, s, result, alive) ==
    OneMove(Reg("rax", t.type), t) \o <<Ins1(IF s.type = "int" THEN "cdq" ELSE "cqo", Target0)>>
    \o Through(s, Reg(SPILL1, s.type)) \o <<Ins1("idiv", Seen(s, Reg(SPILL1, s.type)))>>
    \o OneMove(t, Reg(result, t.type))

(* div and mod: rdx is saved while a register lives in it. *)
DivideInto(t, s, result, alive) ==
    (IF alive THEN <<Ins1("push", Reg("rdx", "long"))>> ELSE <<>>)
    \o OneMove(Reg("rax", t.type), t) \o <<Ins1(IF s.type = "int" THEN "cdq" ELSE "cqo", Target0)>>
    \o Through(s, Reg(SPILL1, s.type)) \o <<Ins1("idiv", Seen(s, Reg(SPILL1, s.type)))>>
    \o OneMove(t, Reg(result, t.type))
    \o (IF alive THEN <<Ins1("pop", Reg("rdx", "long"))>> ELSE <<>>)

(* Operands that are not in a register are compared in the scratch ones.   *)
CompareAndStore(opp, op, store, set) ==
    LET first  == Scratch(opp, SPILL1, PRCSPILL1)
        second == Scratch(op, SPILL2, PRCSPILL2)
    IN  Through(opp, first) \o Through(op, second)
        \o <<Ins(IF IsFloat(op) THEN "ucomiss" ELSE "cmp", Seen(opp, first), Seen(op, second)),
             Ins1(IF set = "setl" /\ IsFloat(op) THEN "setb" ELSE set, Reg("rax", "bool"))>>
        \o MoveTo(store, Reg("rax", "bool"))

CompareAndJump(o, l, jump) ==
    (IF o.kind = "imm" THEN OneMove(Reg(SPILL1, o.type), o) ELSE <<>>)
    \o <<Ins("cmp", IF o.kind = "imm" THEN Reg(SPILL1, o.type) ELSE o, Imm(0, "int")),
         Ins1(jump, l)>>

Not(t, o) ==
    LET reg == Reg(SPILL1, o.type)
    IN  Through(o, reg) \o <<Ins("test", Seen(o, reg), Seen(o, reg)), Ins1("sete", t)>>

PointTo(t, o) ==
    LET reg == Reg(SPILL1, t.type)
    IN  <<Ins("lea", reg, IF IsAddress(o) THEN o ELSE Mem(o.reg, 0, o.type))>> \o MoveTo(t, reg)

(* Values of up to 32 bytes are copied eight or four at a time, from where *)
(* a pointer leads or from a place.                                        *)
ChunkOf(remaining) == IF remaining > 4 THEN "long" ELSE "int"
Chunk(t, s, n, type) ==
    MoveTo([t EXCEPT !.n = @ + n, !.type = type], [s EXCEPT !.n = @ + n, !.type = type])
Chunks(t, s, size) ==
    FlattenSeq([i \in 1..((size + 7) \div 8) |->
                    Chunk(t, s, 8 * (i - 1), ChunkOf(size - 8 * (i - 1)))])
CopyFromPointer(t, s, size) ==
    LET reg == Reg(SPILL2, s.type)
    IN  Through(s, reg) \o Chunks(t, Mem(Seen(s, reg).reg, 0, t.type), size)

(* The types that are not built in are copied. *)
DereferenceInto(t, s) ==
    IF t.type \in Pointers \union Structs THEN CopyFromPointer(t, s, Size(t.type))
    ELSE OneMove(Reg(SPILL1, s.type), s) \o MoveTo(t, Mem(SPILL1, 0, RawType(s.type)))

UpsizeInto(t, s) ==
    LET reg  == Reg(SPILL1, t.type)
        from == IF s.kind = "imm" THEN Reg(SPILL2, s.type) ELSE s
    IN  (IF s.kind = "imm" THEN OneMove(from, s) ELSE <<>>)
        \o <<Ins("movsxd", IF IsAddress(t) THEN reg ELSE t, from)>>
        \o (IF IsAddress(t) THEN MoveTo(t, reg) ELSE <<>>)

DownsizeInto(t, s) ==
    LET from == CASE s.kind = "imm" -> Reg(SPILL2, s.type)
                  [] s.kind = "mem" -> Reg(SPILL1, s.type) [] OTHER -> s
    IN  Through(s, from) \o MoveTo(t, [from EXCEPT !.type = t.type])

-----------------------------------------------------------------------------
(* convertOperand: instructions for the index and the base, the operand.   *)
(* The base of an address is the home itself, except of an element: there  *)
(* a base in the frame is loaded first.                                    *)

IndexOf(o, p, h) == Home(o.index, p, h)

Prepare(o, p, h) ==
    IF o.kind # "at" \/ o.index = "" THEN <<>>
    ELSE Through(IndexOf(o, p, h), Reg(SPILL1, p.types[o.index]))
         \o (IF h[o.id] = "slot" THEN OneMove(Reg(SPILL2, p.types[o.id]), Home(o.id, p, h)) ELSE <<>>)

Convert(o, p, h) ==
    LET base == Home(o.id, p, h)
        elem == [Mem(IF h[o.id] = "slot" THEN SPILL2 ELSE base.reg, 0, o.type)
                    EXCEPT !.index = Seen(IndexOf(o, p, h), Reg(SPILL1, "long")).reg,
                           !.scale = Size(o.type)]
    IN  CASE o.kind = "var" -> base
          [] o.kind = "imm" -> Imm(o.n, o.type)
          [] o.kind = "at" /\ o.index # "" -> elem
          [] o.kind = "at" -> Mem(IF IsAddress(base) THEN "rbp" ELSE base.reg,
                                  (IF IsAddress(base) THEN base.n ELSE 0) + o.n, o.type)
          [] OTHER -> o

-----------------------------------------------------------------------------
(* generate, for the k-th instruction *)

FloatOp(op) == CASE op = "add" -> "addss" [] op = "sub" -> "subss" [] OTHER -> "divss"

Arithmetic2(op, t, s, alive) ==
    CASE op \in {"and", "or", "xor"} -> <<Ins(op, t, s)>>
      [] op = "mult" -> Multiply(t, s)
      [] op \in {"div", "mod"} /\ ~IsFloat(s) ->
            DivideInto(t, s, IF op = "div" THEN "rax" ELSE "rdx", alive)
      [] OTHER -> Binary(IF IsFloat(s) THEN FloatOp(op) ELSE op, t, s)

Epilogue(p, h) ==
    (IF Saved(h) # <<>> THEN <<Ins1("pop", Reg("r14", "long"))>> ELSE <<>>)
    \o (IF FrameSize(p, h) > 0 THEN <<Ins("add", Reg("rsp", "long"), Imm(FrameSize(p, h), "long"))>>
        ELSE <<>>)
    \o <<Ins1("pop", Reg("rbp", "long")), Ins1("ret", Target0)>>

(* A call saves the registers alive around it in pushes, *)
(* but that of its result, and aligns the stack.                           *)
SavedAround(k, p, h) ==
    SelectSeq(p.vars, LAMBDA v : h[v] \in CallerSaved /\ Covers(v, k, p) /\ v # p.code[k].a.id)
CallOf(k, p, h) ==
    LET saved == SavedAround(k, p, h)
        depth == FrameSize(p, h) + 8 * (Len(Saved(h)) + Len(saved))
        gap   == IF depth % 16 = 0 THEN 0 ELSE 16 - (depth % 16)
        rsp   == Reg("rsp", "long")
        arg   == p.code[k].b
        ret   == p.code[k].a
    IN  [i \in DOMAIN saved |-> Ins1("push", Reg(h[saved[i]], "long"))]
        \o (IF arg = None THEN <<>> ELSE MoveTo(Reg("rdi", arg.type), Convert(arg, p, h)))
        \o (IF gap > 0 THEN <<Ins("sub", rsp, Imm(gap, "long"))>> ELSE <<>>)
        \o <<Ins("call", Target0, IF arg = None THEN Target0 ELSE Reg("rdi", arg.type))>>
        \o (IF gap > 0 THEN <<Ins("add", rsp, Imm(gap, "long"))>> ELSE <<>>)
        \o Reverse([i \in DOMAIN saved |-> Ins1("pop", Reg(h[saved[i]], "long"))])
        \o (IF ret.kind = "label" THEN <<>>
            ELSE MoveTo(Home(ret.id, p, h), Reg("rax", ret.type)))

Generate(op, a, b, c, alive) ==
    CASE op = "label" -> <<Ins1("label", a)>>
      [] op \in {"move", "pderef"} -> MoveTo(a, b)
      [] op \in Arithmetic -> Arithmetic2(op, a, b, alive)
      [] op = "cmpl" -> CompareAndStore(a, b, c, "setl")
      [] op = "cmpe" -> CompareAndStore(a, b, c, "sete")
      [] op = "jmpf" -> CompareAndJump(a, b, "je")
      [] op = "jmpt" -> CompareAndJump(a, b, "jne")
      [] op = "jmp"  -> <<Ins1("jmp", a)>>
      [] op = "lnot" -> Not(a, b)
      [] op = "point" -> PointTo(a, b)
      [] op = "copy" -> IF b.kind = "reg" THEN CopyFromPointer(a, b, Width(a))
                        ELSE Chunks(a, b, Width(a))
      [] op = "deref" -> DereferenceInto(a, b)
      [] op = "upsize" -> UpsizeInto(a, b)
      [] op = "downsize" -> DownsizeInto(a, b)

(* Where an operand is an element, its registers are loaded first.         *)
Select(k, p, h) ==
    LET i == p.code[k]
        emitted == CASE i.op = "return" -> Epilogue(p, h)
                     [] i.op = "call"   -> CallOf(k, p, h)
                     [] OTHER -> Prepare(i.a, p, h) \o Prepare(i.b, p, h)
                                 \o Generate(i.op, Convert(i.a, p, h), Convert(i.b, p, h),
                                             Convert(i.c, p, h), Alive("rdx", k, p, h))
    IN  [j \in DOMAIN emitted |-> [emitted[j] EXCEPT !.ir = k]]

ToSlots(p, h) ==
    FlattenSeq([i \in DOMAIN p.vars |->
        IF h[p.vars[i]] = "slot" /\ p.vars[i] \in ToSet(p.params)
        THEN MoveTo(Home(p.vars[i], p, h), Reg(ParamRegister(p.vars[i], p), p.types[p.vars[i]]))
        ELSE <<>>])

Prologue(p, h) ==
    <<Ins1("push", Reg("rbp", "long")), Ins("mov", Reg("rbp", "long"), Reg("rsp", "long"))>>
    \o ToSlots(p, h) \o [i \in DOMAIN Saved(h) |-> Ins1("push", Reg("r14", "long"))]
    \o (IF FrameSize(p, h) > 0 THEN <<Ins("sub", Reg("rsp", "long"), Imm(FrameSize(p, h), "long"))>>
        ELSE <<>>)

Build(p, h) == Prologue(p, h) \o FlattenSeq([k \in DOMAIN p.code |-> Select(k, p, h)])

-----------------------------------------------------------------------------
(* Homes for which the code emitted is known to be wrong; the hazards say  *)
(* why. The others are run.                                                *)

InMemory(o, h) == o.kind = "at" \/ (o.kind = "var" /\ h[o.id] = "slot")
Holds(o, h, r) == o.kind = "var" /\ h[o.id] = r
Operands(i) == {i.a, i.b, i.c}

MulIntoMemory(i, h)    == i.op = "mult" /\ InMemory(i.a, h)
DivisionUsesRdx(i, h)  == i.op \in {"div", "mod"} /\ (Holds(i.a, h, "rdx") \/ Holds(i.b, h, "rdx"))
FloatIntoMemory(i, h)  == i.op \in {"add", "sub", "div"} /\ IsFloat(i.a) /\ InMemory(i.a, h)
LogicInMemory(i, h)    == i.op \in {"and", "or", "xor"} /\ InMemory(i.a, h) /\ InMemory(i.b, h)
SpilledPointer(i, p, h) ==
    \E o \in Operands(i) : /\ o.kind = "at" /\ o.index = "" /\ h[o.id] = "slot"
                           /\ p.types[o.id] \notin Structs
SpilledIndex(i, h) ==
    i.a.kind = "at" /\ i.a.index # "" /\ h[i.a.index] = "slot" /\ InMemory(i.b, h)

(* r14 is a scratch register and a home. *)
UsesSecondScratch(i, h) ==
    \/ i.op \in {"cmpl", "cmpe"} /\ (i.b.kind = "imm" \/ InMemory(i.b, h))
    \/ i.op \in {"upsize", "downsize"} /\ i.b.kind = "imm"
    \/ i.op = "deref" /\ i.a.type \in Pointers \union Structs
    \/ \E o \in Operands(i) : o.kind = "at" /\ o.index # "" /\ h[o.id] = "slot"
SecondScratchTaken(k, p, h) == Alive(SPILL2, k, p, h) /\ UsesSecondScratch(p.code[k], h)

(* Saved registers are pushed before the room for the slots is made. *)
SavedOverSlots(p, h) == Saved(h) # <<>> /\ FrameSize(p, h) > 0

KnownWrong(p, h) ==
    \/ SavedOverSlots(p, h)
    \/ \E k \in DOMAIN p.code :
          \/ MulIntoMemory(p.code[k], h) \/ DivisionUsesRdx(p.code[k], h)
          \/ FloatIntoMemory(p.code[k], h) \/ LogicInMemory(p.code[k], h)
          \/ SpilledPointer(p.code[k], p, h) \/ SpilledIndex(p.code[k], h)
          \/ SecondScratchTaken(k, p, h)

-----------------------------------------------------------------------------
(* The run. The processor starts with the address to return to on the      *)
(* stack, the parameters in their registers and anything in the others.    *)

Function == program
Vars == DOMAIN Function.types
Placed == Function.pointed \union {v \in Vars : Function.types[v] \in Structs}

Given(v) == <<"param", Size(Function.types[v]), v>>
Garbage(r, n) == Cells(<<"garbage", n, r>>)
StartRegister(r) ==
    IF \E v \in ToSet(Function.params) : ParamRegister(v, Function) = r
    THEN LET v == CHOOSE w \in ToSet(Function.params) : ParamRegister(w, Function) = r
         IN  Bytes(Given(v)) \o Garbage(r, 8 - Size(Function.types[v]))
    ELSE Garbage(r, 8)

Start ==
    [regs   |-> [r \in General \union Precision |->
                    IF r = "rsp" THEN Bytes(Plus(Frame, 8)) ELSE StartRegister(r)],
     memory |-> <<>>,
     flags  |-> <<"none", 1, <<"none", 1>>, <<"none", 1>>>>,
     pc     |-> 1]

Extents == UNION {PlacesOf(places[v], Size(Function.types[v])) : v \in Placed}

(* The value of a register, and what of the memory is not the frame's own. *)
ValueOf(v, m) == Fetch([m EXCEPT !.regs["rbp"] = Bytes(Frame)], Home(v, Function, homes),
                       Size(Function.types[v]))
Visible(memory) ==
    [place \in {q \in DOMAIN memory : q[1] # Frame \/ q \in Extents} |-> memory[place]]
Tested(flags) == IF flags[4] = <<"imm", flags[2], 0>> THEN flags[3] ELSE <<"other", 1>>

(* What the processor m has done when it ends instruction k; a return ends *)
(* it where the caller's base pointer is back.                             *)
Back(m) == m.pc = 0 /\ m.regs["rbp"] = Start.regs["rbp"]
Ended(m, k) ==
    LET return == k > 0 /\ Function.code[k].op = "return"
        now    == IF return THEN (IF Back(m) THEN 0 ELSE -1) ELSE text[m.pc].ir
    IN  [next   |-> now,
         values |-> [v \in (IF return THEN DOMAIN settled.values
                            ELSE Function.live[now] \ Placed) |-> ValueOf(v, m)],
         memory |-> Visible(m.memory),
         tested |-> IF k > 0 /\ Function.code[k].op \in {"jmpf", "jmpt"} THEN Tested(m.flags)
                    ELSE settled.tested]
Settle(m, k) == IF m.pc > 0 /\ text[m.pc].ir = k THEN settled ELSE Ended(m, k)

(* The code generator leaves the parameters that have a place to the first *)
(* instructions; the caller sees them there from the start.                *)
Settled0 ==
    [next   |-> 1,
     values |-> [v \in (ToSet(Function.params) \intersect Function.live[1]) \ Placed |-> Given(v)],
     memory |-> FoldSet(LAMBDA v, m : Write(m, places[v], Given(v)), <<>>,
                        Placed \intersect ToSet(Function.params)),
     tested |-> <<>>]

Init ==
    /\ program \in Programs
    /\ homes \in {h \in HomeAssignments(Function) : ~KnownWrong(Function, h)}
    /\ places = [v \in Placed |-> Plus(Frame, SlotOffset(v, Function, homes))]
    /\ text = Build(Function, homes)
    /\ machine = Start
    /\ settled = Settled0
    /\ zero \in BOOLEAN

Step ==
    /\ machine.pc > 0
    /\ machine' = Execute(machine, text, zero)
    /\ settled' = Settle(machine', text[machine.pc].ir)
    /\ UNCHANGED <<program, homes, places, text, zero>>

(* The caller goes on. *)
Returned == machine.pc = 0 /\ UNCHANGED <<program, homes, places, text, machine, settled, zero>>

Next == Step \/ Returned

vars == <<program, homes, places, text, machine, settled, zero>>
Spec == Init /\ [][Next]_vars

-----------------------------------------------------------------------------
(* Properties *)

Abstract == INSTANCE IRMachine WITH
    next <- settled.next, values <- settled.values, memory <- settled.memory,
    tested <- settled.tested

(* The code emitted for each instruction does what the instruction says    *)
(* and nothing else that the rest of the function or its caller can see,   *)
(* whatever homes the allocator chose, and returns to the caller.          *)
ImplementsIR == Abstract!Spec

(* Every instruction emitted is one the assembler takes: no two operands   *)
(* in memory, widths that agree, registers of the right class.             *)
Assembles == \A k \in DOMAIN text : Encodable(text[k])
=============================================================================
