-------------------------- MODULE MC_MoveResolver --------------------------
(***************************************************************************)
(* Calls with three parameter registers: every choice of the arguments     *)
(* among four registers, a constant and a label, with up to two arguments  *)
(* on the stack, with the first argument possibly a struct that is copied  *)
(* and the last one a number in an xmm register.                           *)
(***************************************************************************)
EXTENDS MoveResolver

CONSTANTS rdi, rsi, rdx, rbx, r15, imm, frame, junk, rax,
          label, l1, l2, l3, rsp, xmm0, copied, seventh, eighth

MC_ParamRegs == <<rdi, rsi, rdx>>
MC_OtherRegs == {rbx}
MC_Values == {imm, frame, l1, l2, l3}
MC_Cells == {rsp, xmm0, copied, seventh, eighth}

Instr(k, d, s) == [kind |-> k, dst |-> d, src |-> s]
Labels == <<l1, l2, l3>>
Reg(i, o) ==
  IF o = label THEN <<Instr("mov", r15, Labels[i]), Instr("mov", MC_ParamRegs[i], r15)>>
  ELSE <<Instr("mov", MC_ParamRegs[i], o)>>
Push(c, o) == <<Instr("push", c, o)>>
PushMemory(c) == <<Instr("first", r15, frame), Instr("push", c, r15)>>
Copy(o) == <<Instr("stay", rsp, imm), Instr("stay", r15, o), Instr("stay", copied, r15)>>
LargeCopy(o) == <<Instr("stay", rsp, imm), Instr("stay", rdi, frame), Instr("stay", rsi, o)>>
Float(o) == <<Instr("stay", xmm0, o)>>

Operands == {rdi, rsi, rdx, rbx, imm}
Registers2 == {Reg(1, o) \o Reg(2, p) : o, p \in Operands \cup {label}}
Registers3 == {Reg(1, o) \o Reg(2, p) \o Reg(3, q) : o, p, q \in Operands \cup {label}}
Structs == {Copy(s) \o Reg(1, frame) \o Reg(2, p) \o Reg(3, q) : s \in {rdi, rsi}, p, q \in Operands}
Mixed ==
  {Reg(1, o) \o Copy(s) \o Reg(2, frame) \o Reg(3, q) : s \in {rsi}, o, q \in {rdi, rsi, imm, label}}
    \cup {Reg(1, o) \o LargeCopy(s) \o Reg(2, frame) \o Reg(3, q) : s \in {rsi}, o, q \in {rdi, rsi, imm}}

Number(c) == [i \in DOMAIN c |-> [kind |-> c[i].kind, n |-> i, dst |-> c[i].dst, src |-> c[i].src]]

\* TLC evaluates a definition of its own once, and what replaces a constant at each use.
AllCalls ==
  {Number(c) : c \in
     {<<>>} \cup Registers2 \cup Registers3 \cup Structs \cup Mixed
       \cup {r \o Float(rbx) : r \in Registers2}
       \cup {r \o Push(seventh, o) : r \in Registers3 \cup Structs, o \in Operands}
       \cup {r \o Push(seventh, o) : r \in Mixed, o \in {rdi, imm}}
       \cup {r \o Push(seventh, o) \o Float(rbx) : r \in Registers2, o \in {rdi, imm}}
       \cup {r \o PushMemory(seventh) : r \in Registers2}
       \cup {r \o Push(seventh, o) \o Push(eighth, p) : r \in Registers3, o, p \in {rdi, imm}}}
MC_Calls == AllCalls
=============================================================================
