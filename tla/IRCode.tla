------------------------------- MODULE IRCode -------------------------------
(***************************************************************************)
(* The intermediate code of one function as ir/ has it, and the values it  *)
(* computes with. A value is a term, a tuple of what made it, its size in  *)
(* bytes and its parts; of a value whose bytes came from several places    *)
(* the bytes are kept. A program of Programs has its code, the registers   *)
(* of it (vars, in the order of their first ranges), their types, which of *)
(* them are parameters and which the liveness propagator keeps in memory   *)
(* (pointed or dereferenced, or a structure).                              *)
(***************************************************************************)
EXTENDS Integers, Sequences, SequencesExt

-----------------------------------------------------------------------------
(* Terms and their bytes *)

Cells(t) == [k \in 1..t[2] |-> <<t, k>>]
Zeros(n) == [k \in 1..n |-> <<<<"zero", 1>>, 1>>]
Bytes(t) == IF t[1] = "cells" THEN t[3] ELSE Cells(t)
Whole(cells) ==
    IF cells[1][1][2] = Len(cells) /\ cells = Cells(cells[1][1]) THEN cells[1][1]
    ELSE <<"cells", Len(cells), cells>>
Low(t, n) == Whole(SubSeq(Bytes(t), 1, n))

(* Addresses: a term, perhaps an index times a scale, and an offset. *)
NoIndex == <<"none", 0>>
Frame == <<"frame", 8>>     \* what rbp holds in the body of a function
Parts(t) == IF t[1] = "at" THEN t ELSE <<"at", 8, t, NoIndex, 0, 0>>
Address(base, index, scale, n) ==
    IF index = NoIndex /\ n = 0 THEN base ELSE <<"at", 8, base, index, scale, n>>
Plus(t, n) == Address(Parts(t)[3], Parts(t)[4], Parts(t)[5], Parts(t)[6] + n)
Indexed(t, index, scale) == Address(Parts(t)[3], index, scale, Parts(t)[6])

(* Memory: the bytes that were written, each at its place. *)
Place(t) == <<Parts(t)[3], Parts(t)[4], Parts(t)[5], Parts(t)[6]>>
PlacesOf(t, n) == {Place(Plus(t, k)) : k \in 0..(n - 1)}
Load(memory, place) ==
    IF place \in DOMAIN memory THEN memory[place] ELSE <<<<"memory", 1, place>>, 1>>
Read(memory, t, n) == Whole([k \in 1..n |-> Load(memory, Place(Plus(t, k - 1)))])
Write(memory, t, value) ==
    [place \in DOMAIN memory \union PlacesOf(t, value[2]) |->
        IF place \in PlacesOf(t, value[2])
        THEN Bytes(value)[place[4] - Parts(t)[6] + 1] ELSE memory[place]]

-----------------------------------------------------------------------------
(* Types and operands *)

Pointers == {"int*", "long*", "int**", "Pair*"}
Structs == {"Pair"}
Size(type) ==
    CASE type \in {"int", "float"} -> 4
      [] type = "bool" -> 1
      [] type = "Pair" -> 12
      [] OTHER -> 8
RawType(type) ==
    CASE type = "int**" -> "int*" [] type = "long*" -> "long"
      [] type = "Pair*" -> "Pair" [] OTHER -> "int"

Var(v, type)      == [kind |-> "var", id |-> v, index |-> "", n |-> 0, type |-> type]
Number(n, type)   == [kind |-> "imm", id |-> "", index |-> "", n |-> n, type |-> type]
At(v, i, n, type) == [kind |-> "at", id |-> v, index |-> i, n |-> n, type |-> type]
Label(l)          == [kind |-> "label", id |-> "", index |-> "", n |-> l, type |-> "label"]
None              == Label(0)
IR(op, a, b, c)   == [op |-> op, a |-> a, b |-> b, c |-> c]

Arithmetic == {"add", "sub", "mult", "div", "mod", "and", "or", "xor"}
Jumps == {"jmpf", "jmpt", "jmp"}

-----------------------------------------------------------------------------
(* Which registers an instruction reads and writes, and which are live.    *)

Named(o) == {v \in {o.id, o.index} : v # ""}
Target(i) == CASE i.op = "cmpl" \/ i.op = "cmpe" -> i.c [] OTHER -> i.a

Writes(i) ==
    IF i.op \in Jumps \union {"label", "return"} \/ Target(i).kind # "var" THEN {}
    ELSE {Target(i).id}

ReadsFirst(i) == i.op \in Arithmetic \union {"jmpf", "jmpt", "cmpl", "cmpe"}

Reads(i, code) ==
    (IF ReadsFirst(i) \/ i.a.kind = "at" THEN Named(i.a) ELSE {}) \union Named(i.b)
    \union (IF i.op = "return"
            THEN {"%return"} \intersect UNION {Writes(code[k]) : k \in DOMAIN code} ELSE {})

PositionOf(l, code) == CHOOSE k \in DOMAIN code : code[k].op = "label" /\ code[k].a = l

Successors(k, code) ==
    CASE code[k].op = "return" -> {}
      [] code[k].op = "jmp" -> {PositionOf(code[k].a, code)}
      [] code[k].op \in {"jmpf", "jmpt"} -> {k + 1, PositionOf(code[k].b, code)}
      [] OTHER -> {k + 1}

(* The jumps of the programs go forward. *)
Live(code) ==
    LET live[k \in 1..Len(code)] ==
            Reads(code[k], code) \union (UNION {live[s] : s \in Successors(k, code)}
                                         \ Writes(code[k]))
    IN  live

(* From where to where a register occurs; parameters do from the start.    *)
Occurs(v, code, params) ==
    {k \in DOMAIN code : v \in Named(code[k].a) \union Named(code[k].b) \union Named(code[k].c)}
       \union (IF v \in ToSet(params) THEN {0} ELSE {})
RangeOf(occurs) == IF occurs = {} THEN <<1, 0>> ELSE <<Min(occurs), Max(occurs)>>
Ranges(order, code, params) == [v \in ToSet(order) |-> RangeOf(Occurs(v, code, params))]
=============================================================================
