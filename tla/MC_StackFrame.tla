--------------------------- MODULE MC_StackFrame ---------------------------
(***************************************************************************)
(* Functions with up to two slots (one of them possibly a parameter) and   *)
(* up to two callee-saved registers, whose bodies assign the variables,    *)
(* call twice with different registers to save and arguments to push, and  *)
(* may return between the calls.  The spill registers are r14, which the   *)
(* allocator may also give out, and r15, which it never does               *)
(* (register_allocator.cpp:19).                                            *)
(***************************************************************************)
EXTENDS StackFrame

MC_IntRegs == {"rdi", "rsi"}
MC_FloatRegs == {"xmm0", "xmm1"}
MC_FloatSize == [r \in MC_FloatRegs |-> IF r = "xmm0" THEN 4 ELSE 8]
MC_CalleeSaved == {"rbx", "r14", "r15"}
MC_Allocated == {"rbx", "r14"}
MC_Spill == {"r14", "r15"}

Var(v, n, p) == [var |-> v, size |-> n, param |-> p]
SlotChoices ==
  { <<>>, <<Var("x", 4, FALSE)>>, <<Var("x", 4, TRUE), Var("c", 1, FALSE)>>,
    <<Var("l", 8, FALSE), Var("m", 8, TRUE)>> }

Integer == [kind |-> "integer"]
Address == [kind |-> "address"]
Float(n) == [kind |-> "float", size |-> n]
Struct(n) == [kind |-> "struct", size |-> n]
ACall(s, a) == [kind |-> "call", saves |-> s, args |-> a]
Usage == [kind |-> "use"]
Leaves == [kind |-> "return"]

Saves == { <<>>, <<"rdi">>, <<"rdi", "rsi">>, <<"xmm0", "rdi">>, <<"rdi", "xmm1">>, <<"xmm0", "xmm1">> }
Arguments == { <<>>, <<Integer>>, <<Float(4), Integer>>, <<Struct(16)>>, <<Struct(4), Float(8)>>, <<Address>> }

TwiceSaved == { <<"rdi", "rsi">>, <<"xmm0", "rdi">>, <<"xmm0", "xmm1">> }
TwicePassed == { <<>>, <<Integer>>, <<Float(4), Integer>>, <<Struct(4), Float(8)>> }

Bodies ==
  {<<Usage, ACall(s, a), Leaves>> : s \in Saves, a \in Arguments}
    \cup {<<Usage, ACall(s, a), Leaves, ACall(t, a), Leaves>> : s, t \in TwiceSaved, a \in TwicePassed}

MC_Functions ==
  {[slots |-> slots, saved |-> regs, scratch |-> scratch, body |-> body] :
     slots \in SlotChoices, regs \in SUBSET MC_Allocated, scratch \in {{}, MC_Spill}, body \in Bodies}

\* Functions that need no spill register, nor call one that does.
MC_PlainFunctions == {f \in MC_Functions : f.scratch = {}}
=============================================================================
