----------------------------- MODULE IRMachine ------------------------------
(***************************************************************************)
(* What the generated code of a function promises: to do what the          *)
(* intermediate code says, one instruction after the other. A register     *)
(* has a value while it is live; one whose address is taken, or a          *)
(* structure, has a place in memory that no other one overlaps. The        *)
(* meaning of an instruction is that which ir/ and the code generator give *)
(* its operands; a called function changes nothing but its result.         *)
(***************************************************************************)
EXTENDS IRCode

CONSTANT Programs     \* the functions

VARIABLES
    program,
    next,      \* the instruction to execute, 0 after a return
    values,    \* of the registers that are live and have no place
    memory,
    places,    \* the addresses of the others
    zero,      \* whether what a jump tests is zero
    tested     \* what the last one tested

Function == program
Code == Function.code
Instr == Code[next]
Fixed == UNCHANGED <<program, places, zero>>

(* Registers that must have a place. *)
Placed(p) == p.pointed \union {v \in DOMAIN p.types : p.types[v] \in Structs}
Extent(v) == PlacesOf(places[v], Size(Function.types[v]))

Given(v) == <<"param", Size(Function.types[v]), v>>

WriteAll(start, vs, value(_)) ==
    FoldSet(LAMBDA v, m : Write(m, places[v], value(v)), start, vs)

LiveValues(vals, k) == [v \in (DOMAIN vals \intersect Function.live[k]) |-> vals[v]]

Init ==
    /\ program \in Programs
    /\ next = 1
    /\ values = [v \in (ToSet(Function.params) \intersect Function.live[1]) \ Placed(Function)
                    |-> Given(v)]
    /\ DOMAIN places = Placed(Function)
    /\ \A v, w \in Placed(Function) : v # w => Extent(v) \intersect Extent(w) = {}
    /\ memory = WriteAll(<<>>, Placed(Function) \intersect ToSet(Function.params), Given)
    /\ zero \in BOOLEAN
    /\ tested = <<>>

-----------------------------------------------------------------------------
(* Operands *)

ValueOfVar(v) ==
    IF v \in DOMAIN places THEN Read(memory, places[v], Size(Function.types[v])) ELSE values[v]

(* A structure is its place, a pointer leads to one. *)
Base(v) == IF Function.types[v] \in Structs THEN places[v] ELSE ValueOfVar(v)
Where(o) ==
    Plus(IF o.index = "" THEN Base(o.id)
         ELSE Indexed(Base(o.id), ValueOfVar(o.index), Size(o.type)), o.n)

Value(o) ==
    CASE o.kind = "imm" -> <<"imm", Size(o.type), o.n>>
      [] o.kind = "at"  -> Read(memory, Where(o), Size(o.type))
      [] OTHER          -> ValueOfVar(o.id)

Proceed(k, vals) ==
    /\ next' = k
    /\ values' = LiveValues(vals, k)
    /\ Fixed

Assign(o, value) ==
    IF o.kind = "var" /\ o.id \notin DOMAIN places
    THEN /\ Proceed(next + 1, [v \in DOMAIN values \union {o.id} |->
                                IF v = o.id THEN value ELSE values[v]])
         /\ UNCHANGED memory
    ELSE /\ memory' = Write(memory, IF o.kind = "var" THEN places[o.id] ELSE Where(o), value)
         /\ Proceed(next + 1, values)

Goto(k) == Proceed(k, values) /\ UNCHANGED memory

-----------------------------------------------------------------------------
(* Instructions *)

Executing(ops) == next # 0 /\ Instr.op \in ops
Silent(ops) == Executing(ops) /\ UNCHANGED tested      \* nothing is tested

Move == Silent({"move", "copy", "pderef"}) /\ Assign(Instr.a, Value(Instr.b))

Operate ==
    /\ Silent(Arithmetic)
    /\ Assign(Instr.a, <<Instr.op, Size(Instr.a.type), Value(Instr.a), Value(Instr.b)>>)

Compare ==
    /\ Silent({"cmpl", "cmpe"})
    /\ Assign(Instr.c, <<Instr.op, 1, Value(Instr.a), Value(Instr.b)>>)

LogicalNot ==
    Silent({"lnot"}) /\ Assign(Instr.a, <<"cmpe", 1, Value(Instr.b), <<"imm", 1, 0>>>>)

Point == Silent({"point"}) /\ Assign(Instr.a, places[Instr.b.id])

Dereference ==
    /\ Silent({"deref"})
    /\ Assign(Instr.a, Read(memory, Value(Instr.b), Size(Instr.a.type)))

Upsize ==
    Silent({"upsize"}) /\ Assign(Instr.a, <<"sign", Size(Instr.a.type), Value(Instr.b)>>)

Downsize ==
    Silent({"downsize"}) /\ Assign(Instr.a, Low(Value(Instr.b), Size(Instr.a.type)))

(* A called function has one argument or none. *)
Argument == IF Instr.b = None THEN <<"imm", 8, 0>> ELSE Value(Instr.b)
Call == Silent({"call"}) /\ IF Instr.a.kind = "label" THEN Goto(next + 1)
                               ELSE Assign(Instr.a, <<"result", Size(Instr.a.type), next, Argument>>)

Jump == \/ Silent({"jmp"}) /\ Goto(PositionOf(Instr.a, Code))
        \/ Silent({"label"}) /\ Goto(next + 1)

(* jmpf jumps when the value is zero, jmpt when it is not. *)
JumpIf ==
    /\ Executing({"jmpf", "jmpt"})
    /\ tested' = Value(Instr.a)
    /\ Goto(IF zero = (Instr.op = "jmpf") THEN PositionOf(Instr.b, Code) ELSE next + 1)

(* What is left is the value returned. *)
Return ==
    /\ Executing({"return"})
    /\ next' = 0
    /\ UNCHANGED <<values, memory, tested>>
    /\ Fixed

Next == Move \/ Operate \/ Compare \/ LogicalNot \/ Point \/ Dereference \/ Upsize
        \/ Downsize \/ Call \/ Jump \/ JumpIf \/ Return

vars == <<program, next, values, memory, places, zero, tested>>
Spec == Init /\ [][Next]_vars
=============================================================================
