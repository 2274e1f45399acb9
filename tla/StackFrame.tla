----------------------------- MODULE StackFrame -----------------------------
(***************************************************************************)
(* The stack frame of a compiled function: what CodeGenerator believes of  *)
(* it while it emits the prologue, the calls and the returns (m_spills and *)
(* m_spillPosition), side by side with the frame the processor has when it *)
(* runs that code.                                                         *)
(*                                                                         *)
(* The generator goes through the whole body once, in order.  Each call    *)
(* and each return of the body is either on the path the processor takes   *)
(* (`live') or on a branch it does not take: then only the generator's     *)
(* bookkeeping changes.  Bytes are numbered by their distance below rbp.   *)
(***************************************************************************)
EXTENDS Integers, Sequences, FiniteSets

CONSTANTS
  IntRegs,      \* caller-saved general registers
  FloatRegs,    \* caller-saved xmm registers
  FloatSize,    \* the size of the type each xmm register holds: 4 or 8
  CalleeSaved,  \* rbx, r12, ..., r15
  Garbage,      \* a value nobody put there
  MaxDepth,     \* bound: bytes of stack below rbp that the model keeps
  Functions     \* the functions that may be compiled

\* A range that lives in memory: its name, its size, whether it is a parameter.
Slot == [var : STRING, size : {1, 2, 4, 8}, param : BOOLEAN]

\* What call() pushes for an argument that found no register, or copies for
\* one that is a struct.
Argument ==
  [kind : {"integer", "address"}] \cup [kind : {"float", "struct"}, size : {4, 8, 16}]
Operation ==
  [kind : {"use", "return"}]
    \cup [kind : {"call"}, saves : Seq(IntRegs \cup FloatRegs), args : Seq(Argument)]

\* `saved' are the callee-saved registers the allocator gave out; `scratch' those
\* among the spill registers r14 and r15 (SPILL2, SPILL1) that the function or
\* what it calls writes, with or without having saved them.
FunctionType ==
  [slots : Seq(Slot), saved : SUBSET CalleeSaved, scratch : SUBSET CalleeSaved,
   body : Seq(Operation)]

\* The builder ends every function with a return (ssa/builder.cpp:121-122).
ASSUME FrameAssumption ==
  /\ IsFiniteSet(CalleeSaved)
  /\ FloatSize \in [FloatRegs -> {4, 8}]
  /\ MaxDepth \in Nat
  /\ Functions \subseteq FunctionType
  /\ \A f \in Functions : f.body # <<>> /\ f.body[Len(f.body)].kind = "return"

VARIABLES
  fn,         \* the function
  pc,         \* the operation of the body that is being generated
  phase,
  live,       \* is that operation on the path the processor takes?
  spills,     \* ctx.m_spills
  position,   \* ctx.m_spillPosition
  saved,      \* ctx.m_savedRegisters
  todo,       \* the registers or arguments the present loop has still to do
  mark,       \* spilledBeg of call(), spillP of ret()
  grown,      \* spilledForPos and spilled of call()
  rets,       \* the number of returns generated so far
  depth,      \* processor: rbp - rsp
  mem,        \* processor: the value each byte below rbp is part of
  value       \* processor: the value in each register

vars == <<fn, pc, phase, live, spills, position, saved, todo, mark, grown, rets, depth, mem, value>>
generator == <<spills, position>>
processor == <<depth, mem, value>>

-----------------------------------------------------------------------------
Reversed_Not(s) == s
Reversed(s) == [i \in DOMAIN s |-> s[Len(s) + 1 - i]]

\* Lines 111-112: `spills' grows slot by slot; the slot ends where it stands.
SlotEnd(slots) ==
  LET end[i \in 0..Len(slots)] == IF i = 0 THEN 0 ELSE end[i - 1] + slots[i].size
  IN  end

\* The register classes of x86-64 are disjoint, and the part of the stack the
\* model keeps holds every frame: its slots, their padding, what is saved.
ASSUME RegisterAssumption ==
  IntRegs \cap FloatRegs = {} /\ (IntRegs \cup FloatRegs) \cap CalleeSaved = {}
ASSUME DepthAssumption ==
  \A f \in Functions :
    LET frame == SlotEnd(f.slots)[Len(f.slots)] + 15 + 8 * Cardinality(f.saved)
    IN  /\ frame <= MaxDepth
        /\ \A i \in DOMAIN f.body :
             f.body[i].kind = "call" => frame + 8 * Len(f.body[i].saves) <= MaxDepth

Fill(m, first, last, v) == [k \in DOMAIN m |-> IF k \in first..last THEN v ELSE m[k]]

\* The value the n bytes ending at distance d are, if they still are one.
Read(d, n) ==
  LET bytes == (d - n + 1)..d
  IN  IF bytes \subseteq DOMAIN mem /\ \A k \in bytes : mem[k] = mem[d] THEN mem[d] ELSE Garbage
-----------------------------------------------------------------------------
\* push of a general register or an immediate: a real push.
PushInteger(v) ==
  /\ spills' = spills + 8
  /\ position' = position + 8
  /\ depth' = IF live THEN depth + 8 ELSE depth
  /\ mem' = IF live THEN Fill(mem, depth + 1, depth + 8, v) ELSE mem

\* push of an xmm register, and copyAddressToNew: the bytes are written where
\* m_spillPosition says, which need not be where rsp is.
PushBytes(v, size) ==
  /\ spills' = spills + size
  /\ position' = position + size
  /\ depth' = IF live THEN depth + size ELSE depth
  /\ mem' = IF live THEN Fill(mem, position + 1, position + size, v) ELSE mem

\* Lines 733-736: push of an address counts nothing.
PushAddress(v) ==
  /\ depth' = IF live THEN depth + 8 ELSE depth
  /\ mem' = IF live THEN Fill(mem, depth + 1, depth + 8, v) ELSE mem
  /\ UNCHANGED generator

PopInteger(r) ==
  /\ spills' = spills - 8
  /\ position' = position - 8
  /\ depth' = IF live THEN depth - 8 ELSE depth
  /\ value' = IF live THEN [value EXCEPT ![r] = Read(depth, 8)] ELSE value

PopFloat_AfterTheAdd(r) ==
  /\ spills' = spills - FloatSize[r]
  /\ position' = position - FloatSize[r]
  /\ depth' = IF live THEN depth - FloatSize[r] ELSE depth
  /\ value' = IF live THEN [value EXCEPT ![r] = Read(position', FloatSize[r])] ELSE value
PopFloat(r) ==
  /\ spills' = spills - FloatSize[r]
  /\ position' = position - FloatSize[r]
  /\ depth' = IF live THEN depth - FloatSize[r] ELSE depth
  /\ value' = IF live THEN [value EXCEPT ![r] = Read(position, FloatSize[r])] ELSE value

-----------------------------------------------------------------------------
CallerSaved == IntRegs \cup FloatRegs
AllRegs == CallerSaved \cup CalleeSaved
Total == LET end == SlotEnd(fn.slots) IN end[Len(fn.slots)]
SlotBytes(i) == LET end == SlotEnd(fn.slots) IN (end[i - 1] + 1)..end[i]
Params == {i \in DOMAIN fn.slots : fn.slots[i].param}
Locals == DOMAIN fn.slots \ Params

Orders(S) == {o \in [1..Cardinality(S) -> S] : \A r \in S : \E i \in DOMAIN o : o[i] = r}

\* Slots written with the values of their variables.
Store(m, slots) ==
  [k \in DOMAIN m |->
     IF \E i \in slots : k \in SlotBytes(i)
     THEN fn.slots[CHOOSE i \in slots : k \in SlotBytes(i)].var ELSE m[k]]

\* rbp has been pushed and holds rsp (lines 88-90).
Init ==
  /\ fn \in Functions
  /\ pc = 1 /\ phase = "enter" /\ live = TRUE
  /\ spills = 0 /\ position = 0 /\ rets = 0
  /\ saved = <<>> /\ todo = <<>>
  /\ mark = 0 /\ grown = [position |-> 0, spills |-> 0]
  /\ depth = 0
  /\ mem = [k \in 1..MaxDepth |-> Garbage]
  /\ value = [r \in AllRegs |-> r]

\* Lines 125-126.
FramePosition_Zero == 0
FramePosition == Total
Padding(n) == n % 16

\* Lines 92-130: parameters that live in memory are stored at once; the
\* registers to save come out of an unordered_set.
Layout ==
  /\ phase = "enter"
  /\ phase' = "saving"
  /\ position' = FramePosition
  /\ spills' = Total + Padding(Total)
  /\ mem' = Store(mem, Params)
  /\ saved' \in Orders(fn.saved)
  /\ todo' = saved'
  /\ UNCHANGED <<fn, pc, live, mark, grown, rets, depth, value>>

\* Lines 132-133.
SaveCallee ==
  /\ phase = "saving" /\ todo # <<>>
  /\ PushInteger(value[Head(todo)])
  /\ todo' = Tail(todo)
  /\ UNCHANGED <<fn, pc, phase, live, saved, mark, grown, rets, value>>

\* Lines 135-136: room for the slots is made below the saved registers.
Reserve ==
  /\ phase = "saving" /\ todo = <<>>
  /\ phase' = "body"
  /\ depth' = depth + Total + Padding(Total)
  /\ UNCHANGED <<fn, pc, live, spills, position, saved, todo, mark, grown, rets, mem, value>>

Current == fn.body[pc]
At(kind) == phase = "body" /\ pc <= Len(fn.body) /\ Current.kind = kind

\* The translated instructions of the body assign all variables of the function,
\* and take operands through the spill registers (lines 633, 757-787, 836).
Use ==
  /\ At("use")
  /\ pc' = pc + 1
  /\ mem' = Store(mem, Locals)
  /\ value' = [r \in AllRegs |-> IF r \in fn.saved \cup fn.scratch THEN Garbage
                                ELSE IF r \in CallerSaved THEN r ELSE value[r]]
  /\ UNCHANGED <<fn, phase, live, spills, position, saved, todo, mark, grown, rets, depth>>

\* Lines 549-566: the live caller-saved registers are pushed.
StartCall ==
  /\ At("call")
  /\ live' \in BOOLEAN
  /\ phase' = "save"
  /\ todo' = Current.saves
  /\ UNCHANGED <<fn, pc, spills, position, saved, mark, grown, rets, processor>>

SaveCaller ==
  /\ phase = "save" /\ todo # <<>>
  /\ LET r == Head(todo)
     IN  IF r \in FloatRegs THEN PushBytes(value[r], FloatSize[r]) ELSE PushInteger(value[r])
  /\ todo' = Tail(todo)
  /\ UNCHANGED <<fn, pc, phase, live, saved, mark, grown, rets, value>>

StartArguments ==
  /\ phase = "save" /\ todo = <<>>
  /\ phase' = "arguments"
  /\ todo' = Current.args
  /\ mark' = spills
  /\ UNCHANGED <<fn, pc, live, spills, position, saved, grown, rets, processor>>

\* Lines 583-601.
PushArgument ==
  /\ phase = "arguments" /\ todo # <<>>
  /\ LET a == Head(todo)
     IN  CASE a.kind = "integer" -> PushInteger("argument")
           [] a.kind = "address" -> PushAddress("argument")
           [] OTHER -> PushBytes("argument", a.size)
  /\ todo' = Tail(todo)
  /\ UNCHANGED <<fn, pc, phase, live, saved, mark, grown, rets, value>>

\* Lines 651-657: rsp is brought down to a multiple of sixteen.
Gap_Mark(n) == IF (n - mark) % 16 = 0 THEN 0 ELSE 16 - ((n - mark) % 16)
Gap(n) == IF n % 16 = 0 THEN 0 ELSE 16 - (n % 16)
Align ==
  /\ phase = "arguments" /\ todo = <<>>
  /\ phase' = "calling"
  /\ spills' = spills + Gap(spills)
  /\ depth' = IF live THEN depth + Gap(spills) ELSE depth
  /\ grown' = [position |-> spills - mark, spills |-> spills' - mark]
  /\ UNCHANGED <<fn, pc, live, position, saved, todo, mark, rets, mem, value>>

\* Lines 659-664: the callee may use what is below rsp and what it need not save,
\* and it leaves its own values in the spill registers.
Call ==
  /\ phase = "calling"
  /\ phase' = "called"
  /\ IF live
     THEN /\ mem' = [k \in DOMAIN mem |-> IF k > depth THEN Garbage ELSE mem[k]]
          /\ value' = [r \in AllRegs |-> IF r \in CallerSaved \cup fn.scratch THEN Garbage ELSE value[r]]
     ELSE UNCHANGED <<mem, value>>
  /\ UNCHANGED <<fn, pc, live, spills, position, saved, todo, mark, grown, rets, depth>>

\* Lines 666-670.
Release_KeepsGap ==
  /\ phase = "called"
  /\ phase' = "restore"
  /\ spills' = spills - grown.position
  /\ position' = position - grown.position
  /\ depth' = IF live THEN depth - grown.spills ELSE depth
  /\ todo' = Reversed(Current.saves)
  /\ UNCHANGED <<fn, pc, live, saved, mark, grown, rets, mem, value>>
Release ==
  /\ phase = "called"
  /\ phase' = "restore"
  /\ spills' = spills - grown.spills
  /\ position' = position - grown.position
  /\ depth' = IF live THEN depth - grown.spills ELSE depth
  /\ todo' = Reversed(Current.saves)
  /\ UNCHANGED <<fn, pc, live, saved, mark, grown, rets, mem, value>>

\* Lines 672-674.
RestoreCaller ==
  /\ phase = "restore" /\ todo # <<>>
  /\ IF Head(todo) \in FloatRegs THEN PopFloat(Head(todo)) ELSE PopInteger(Head(todo))
  /\ todo' = Tail(todo)
  /\ UNCHANGED <<fn, pc, phase, live, saved, mark, grown, rets, mem>>

\* Code behind a branch that is not taken may have been jumped over: what
\* follows is reached with the registers assigned anew.
EndCall ==
  /\ phase = "restore" /\ todo = <<>>
  /\ phase' = "body" /\ pc' = pc + 1
  /\ value' = [r \in AllRegs |-> IF r \in CallerSaved THEN r ELSE value[r]]
  /\ live' = TRUE
  /\ UNCHANGED <<fn, spills, position, saved, todo, mark, grown, rets, depth, mem>>

-----------------------------------------------------------------------------
\* Lines 684-686: every return reverses the list, also the second one.
StartReturn ==
  /\ At("return")
  /\ live' \in IF pc = Len(fn.body) THEN {TRUE} ELSE BOOLEAN
  /\ phase' = "popping"
  /\ mark' = spills
  /\ saved' = Reversed(saved)
  /\ todo' = saved'
  /\ UNCHANGED <<fn, pc, spills, position, grown, rets, processor>>

PopCallee ==
  /\ phase = "popping" /\ todo # <<>>
  /\ PopInteger(Head(todo))
  /\ todo' = Tail(todo)
  /\ UNCHANGED <<fn, pc, phase, live, saved, mark, grown, rets, mem>>

\* Lines 690-697: rsp is brought up to rbp, rbp is popped, ret; m_spills gets
\* its value back for the code that follows, m_spillPosition does not.
Leave_NoMark ==
  /\ phase = "popping" /\ todo = <<>>
  /\ phase' = IF live THEN "returned" ELSE "body"
  /\ pc' = IF live THEN pc ELSE pc + 1
  /\ depth' = IF live /\ spills > 0 THEN depth - spills ELSE depth
  /\ spills' = spills - 8
  /\ position' = position - 8
  /\ rets' = rets + 1
  /\ UNCHANGED <<fn, live, saved, todo, mark, grown, mem, value>>
Leave ==
  /\ phase = "popping" /\ todo = <<>>
  /\ phase' = IF live THEN "returned" ELSE "body"
  /\ pc' = IF live THEN pc ELSE pc + 1
  /\ depth' = IF live /\ spills > 0 THEN depth - spills ELSE depth
  /\ spills' = mark
  /\ position' = position - 8
  /\ rets' = rets + 1
  /\ UNCHANGED <<fn, live, saved, todo, mark, grown, mem, value>>

Returned == phase = "returned" /\ UNCHANGED vars

Next ==
  \/ Layout \/ SaveCallee \/ Reserve \/ Use
  \/ StartCall \/ SaveCaller \/ StartArguments \/ PushArgument \/ Align \/ Call
  \/ Release \/ RestoreCaller \/ EndCall
  \/ StartReturn \/ PopCallee \/ Leave \/ Returned

Spec == Init /\ [][Next]_vars

-----------------------------------------------------------------------------
Phases == {"enter", "saving", "body", "save", "arguments", "calling", "called",
           "restore", "popping", "returned"}
ValueType == AllRegs \cup {Garbage, "argument"} \cup {fn.slots[i].var : i \in DOMAIN fn.slots}

\* Every variable has its type (code_generator.hpp:19-30).
TypeOK ==
  /\ fn \in Functions
  /\ pc \in 1..Len(fn.body)
  /\ phase \in Phases
  /\ live \in BOOLEAN
  /\ spills \in Nat /\ position \in Int /\ depth \in Int /\ mark \in Nat
  /\ saved \in Seq(CalleeSaved)
  /\ grown \in [position : Nat, spills : Nat]
  /\ rets \in Nat
  /\ mem \in [1..MaxDepth -> ValueType]
  /\ value \in [AllRegs -> ValueType]

Calls == {i \in DOMAIN fn.body : fn.body[i].kind = "call"}

\* No call pushes an argument that lives in memory (lines 733-736).
NoAddressPushed ==
  \A c \in Calls : \A i \in DOMAIN fn.body[c].args : fn.body[c].args[i].kind # "address"

(***************************************************************************)
(* The stack is aligned at every call, wherever it is made and whatever    *)
(* has been saved, reserved and pushed before (code_generator.cpp:651-657).*)
(***************************************************************************)
AlignedAtCall ==
  live /\ NoAddressPushed /\ phase = "calling" => depth % 16 = 0

(***************************************************************************)
(* ret finds the return address: rsp has come back to rbp when rbp is      *)
(* popped, at every return of the function (code_generator.cpp:684-698).   *)
(***************************************************************************)
ReturnFindsFrame == phase = "returned" /\ NoAddressPushed => depth = 0

(***************************************************************************)
(* The bytes m_spillPosition names are where rsp is: no padding separates  *)
(* them and no return was generated before.                                *)
(***************************************************************************)
PositionExact == Total % 16 = 0 /\ rets = 0
OnlyIntegers ==
  \A c \in Calls :
    /\ \A i \in DOMAIN fn.body[c].saves : fn.body[c].saves[i] \in IntRegs
    /\ \A i \in DOMAIN fn.body[c].args : fn.body[c].args[i].kind = "integer"

(***************************************************************************)
(* A register that was saved around a call has its value when the call is  *)
(* over, however registers of both classes, arguments and the gap lie on   *)
(* the stack (code_generator.cpp:549-566, 672-674, 700-754).               *)
(***************************************************************************)
SavedAcrossCall ==
  phase = "restore" /\ todo = <<>> /\ live /\ NoAddressPushed /\ (PositionExact \/ OnlyIntegers) =>
    \A i \in DOMAIN Current.saves : value[Current.saves[i]] = Current.saves[i]

\* The body has assigned its variables.
Used == \E i \in 1..(pc - 1) : fn.body[i].kind = "use"

(***************************************************************************)
(* Calls leave the variables in memory alone: no push, copy or callee      *)
(* writes into a slot of the frame (code_generator.cpp:111-126, 700-731).  *)
(***************************************************************************)
SlotsSurvive ==
  phase \in {"body", "restore"} /\ Used /\ NoAddressPushed /\ fn.saved = {} /\ (rets = 0 \/ OnlyIntegers) =>
    \A i \in DOMAIN fn.slots : Read(SlotEnd(fn.slots)[i], fn.slots[i].size) = fn.slots[i].var

(***************************************************************************)
(* In a frame without slots the first return gives every register that was *)
(* saved back, whatever order unordered_set gave them in and whatever the  *)
(* body and its calls did to them (code_generator.cpp:129-133, 686-688).   *)
(* Spill registers that were written without being saved are lost.         *)
(***************************************************************************)
CalleeSavedWithoutSlots ==
  phase = "returned" /\ NoAddressPushed /\ fn.slots = <<>> /\ rets = 1 =>
    \A r \in CalleeSaved : r \in fn.saved \/ r \notin fn.scratch => value[r] = r

(***************************************************************************)
(* README.md:7, "The compiler targets x86-64 Sys-V": a function returns    *)
(* with the registers Sys-V says it must preserve.                         *)
(***************************************************************************)
CalleeSavedPreserved ==
  phase = "returned" => \A r \in CalleeSaved : value[r] = r
=============================================================================
