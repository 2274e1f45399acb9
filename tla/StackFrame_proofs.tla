-------------------------- MODULE StackFrame_proofs --------------------------
(***************************************************************************)
(* The stack frame, proved for every function: the generator's count of    *)
(* the bytes on the stack is the distance the processor's rsp has from rbp, *)
(* so that calls are aligned and returns find the return address.          *)
(*                                                                         *)
(* What is on the stack, proved for every function whose frame the model   *)
(* keeps: no push, copy or callee writes where something is kept that will *)
(* be read again, so calls preserve what they save, slots keep their       *)
(* values, and a frame without slots gives its registers back.             *)
(***************************************************************************)
EXTENDS StackFrame, VectorLemmas

-----------------------------------------------------------------------------
\* The bytes that saving a register takes, for each register of a sequence.
Bytes(r) == IF r \in FloatRegs THEN FloatSize[r] ELSE 8
Widths(s) == [i \in 1..Len(s) |-> Bytes(s[i])]

\* The bytes the first k registers take that the call saves.
SavedBytes(k) == Sums(Widths(Current.saves))[k]

\* What is on the stack between the operations of the body.
Base == Total + Padding(Total) + 8 * Len(saved)

InCall == {"save", "arguments", "calling", "called", "restore"}

-----------------------------------------------------------------------------
\* The operation being generated is the one the phase belongs to.
PhaseInv ==
  /\ phase \in InCall => Current.kind = "call"
  /\ phase \in {"popping", "returned"} => Current.kind = "return"
  /\ phase = "popping" /\ pc = Len(fn.body) => live
  /\ phase \in {"enter", "saving"} => live

\* What the loop of a phase has still to do.
TodoInv ==
  /\ phase \in {"saving", "popping"} => todo \in Seq(CalleeSaved) /\ Len(todo) <= Len(saved)
  /\ phase = "save" =>
       /\ todo \in Seq(IntRegs \cup FloatRegs) /\ Len(todo) <= Len(Current.saves)
       /\ \A i \in 1..Len(todo) : todo[i] = Current.saves[Len(Current.saves) - Len(todo) + i]
  /\ phase = "restore" =>
       /\ todo \in Seq(IntRegs \cup FloatRegs) /\ Len(todo) <= Len(Current.saves)
       /\ \A i \in 1..Len(todo) : todo[i] = Current.saves[Len(todo) + 1 - i]
  /\ phase = "arguments" =>
       /\ todo \in Seq(Argument)
       /\ \A i \in 1..Len(todo) : \E j \in DOMAIN Current.args : todo[i] = Current.args[j]

\* m_spills is the sum of what was pushed and reserved.
CountInv ==
  /\ phase = "enter" => spills = 0
  /\ phase = "saving" => spills = Base - 8 * Len(todo)
  /\ phase = "body" => spills = Base
  /\ phase = "save" => spills = Base + SavedBytes(Len(Current.saves) - Len(todo))
  /\ phase \in {"arguments", "calling", "called"} =>
       mark = Base + SavedBytes(Len(Current.saves)) /\ spills >= mark
  /\ phase \in {"calling", "called"} => spills = mark + grown.spills
  /\ phase = "calling" => spills % 16 = 0
  /\ phase = "restore" => spills = Base + SavedBytes(Len(todo))
  /\ phase = "popping" => mark = Base /\ spills = Total + Padding(Total) + 8 * Len(todo)

\* rsp is where m_spills says, on the path the processor takes; beside it, rsp
\* stays where it was before the operation.
DepthInv ==
  NoAddressPushed =>
    /\ phase = "enter" => depth = 0
    /\ phase = "saving" => depth = 8 * (Len(saved) - Len(todo))
    /\ phase = "body" => depth = Base
    /\ phase \in InCall \cup {"popping"} => depth = IF live THEN spills ELSE Base
    /\ phase = "returned" => depth = 0

IInv == TypeOK /\ PhaseInv /\ TodoInv /\ CountInv /\ DepthInv

-----------------------------------------------------------------------------
\* Where the slots of a function end: the sums of their sizes.
LEMMA SlotEndSums ==
  ASSUME NEW slots \in Seq(Slot)
  PROVE  IsSums(SlotEnd(slots), [i \in 1..Len(slots) |-> slots[i].size])
<1> DEFINE w == [i \in 1..Len(slots) |-> slots[i].size]
           E(f) == f = [i \in 0..Len(slots) |-> IF i = 0 THEN 0 ELSE f[i - 1] + slots[i].size]
<1>1. \A i \in 1..Len(slots) : slots[i].size \in Nat
  <2> SUFFICES ASSUME NEW i \in 1..Len(slots) PROVE slots[i].size \in Nat
    OBVIOUS
  <2>1. slots[i] \in Slot
    OBVIOUS
  <2>2. slots[i].size \in {1, 2, 4, 8}
    BY <2>1 DEF Slot
  <2> QED BY <2>2
<1>2. w \in Seq(Nat) /\ Len(w) = Len(slots) /\ Len(slots) \in Nat
  BY <1>1
<1>3. IsSums(Sums(w), w)
  BY <1>2, SumsExist
<1>4. E(Sums(w))
  <2> DEFINE f == Sums(w)
  <2>1. /\ f \in [0..Len(slots) -> Nat] /\ f[0] = 0
        /\ \A i \in 1..Len(slots) : f[i] = f[i - 1] + slots[i].size
    BY <1>2, <1>3 DEF IsSums
  <2> HIDE DEF f
  <2>2. \A i \in 0..Len(slots) : f[i] = IF i = 0 THEN 0 ELSE f[i - 1] + slots[i].size
    BY <1>2, <2>1
  <2>3. f = [i \in 0..Len(slots) |-> IF i = 0 THEN 0 ELSE f[i - 1] + slots[i].size]
    BY <2>1, <2>2
  <2> QED BY <2>3 DEF f
<1>5. E(SlotEnd(slots))
  BY <1>4 DEF SlotEnd
<1> QED
  <2> DEFINE f == SlotEnd(slots)
  <2>1. f = [i \in 0..Len(slots) |-> IF i = 0 THEN 0 ELSE f[i - 1] + slots[i].size]
    BY <1>5
  <2> HIDE DEF f
  <2>2. DOMAIN f = 0..Len(slots) /\ f[0] = 0
    BY <1>2, <2>1
  <2>3. \A i \in 1..Len(slots) : f[i] = f[i - 1] + slots[i].size
    BY <1>2, <2>1
  <2>4. \A i \in 0..Len(slots) : f[i] \in Nat
    <3> DEFINE Bad == {i \in 0..Len(slots) : f[i] \notin Nat}
    <3> SUFFICES ASSUME Bad # {} PROVE FALSE
      OBVIOUS
    <3>1. PICK i \in Bad : \A j \in Bad : i <= j
      <4>1. Bad \in SUBSET Nat
        OBVIOUS
      <4> HIDE DEF Bad
      <4> QED BY <4>1, LeastNatural
    <3>2. i # 0
      BY <2>2
    <3>3. i - 1 \in 0..Len(slots) /\ i - 1 \notin Bad /\ i \in 1..Len(slots)
      <4>1. i \in 0..Len(slots) /\ i - 1 \in 0..Len(slots) /\ ~(i <= i - 1) /\ i \in 1..Len(slots)
        BY <1>2, <3>2
      <4> HIDE DEF Bad
      <4> QED BY <3>1, <4>1
    <3> QED BY <1>1, <2>3, <3>3
  <2>5. f \in [0..Len(slots) -> Nat]
    BY <2>1, <2>2, <2>4
  <2>6. IsSums(f, w)
    BY <1>2, <2>2, <2>3, <2>5 DEF IsSums
  <2> QED BY <2>6 DEF f

\* What the assumptions say of the function that is compiled.
LEMMA FunctionFacts ==
  ASSUME fn \in Functions
  PROVE  /\ fn.slots \in Seq(Slot)
         /\ fn.saved \in SUBSET CalleeSaved /\ fn.scratch \in SUBSET CalleeSaved
         /\ fn.body \in Seq(Operation) /\ Len(fn.body) \in Nat \ {0}
         /\ fn.body[Len(fn.body)].kind = "return"
         /\ Total \in Nat
<1>1. /\ fn.slots \in Seq(Slot)
      /\ fn.saved \in SUBSET CalleeSaved /\ fn.scratch \in SUBSET CalleeSaved
      /\ fn.body \in Seq(Operation)
      /\ fn.body # <<>> /\ fn.body[Len(fn.body)].kind = "return"
  BY FrameAssumption DEF FunctionType
<1>2. Len(fn.body) \in Nat \ {0}
  BY <1>1
<1>3. Total \in Nat
  <2>1. IsSums(SlotEnd(fn.slots), [i \in 1..Len(fn.slots) |-> fn.slots[i].size])
    BY <1>1, SlotEndSums
  <2>2. SlotEnd(fn.slots) \in [0..Len(fn.slots) -> Nat] /\ Len(fn.slots) \in 0..Len(fn.slots)
    BY <1>1, <2>1 DEF IsSums
  <2> QED BY <2>2 DEF Total
<1> QED BY <1>1, <1>2, <1>3

\* What the call that is being generated saves and passes.
LEMMA CallFacts ==
  ASSUME TypeOK, Current.kind = "call"
  PROVE  /\ Current.saves \in Seq(IntRegs \cup FloatRegs)
         /\ Current.args \in Seq(Argument)
         /\ pc < Len(fn.body)
<1>1. fn \in Functions /\ pc \in 1..Len(fn.body)
  BY DEF TypeOK
<1>2. Current \in Operation
  BY <1>1, FunctionFacts DEF Current
<1>3. pc # Len(fn.body)
  BY <1>1, FunctionFacts DEF Current
<1> QED BY <1>1, <1>2, <1>3, FunctionFacts DEF Operation

\* The bytes that saving the registers of a call takes, register by register.
LEMMA SavedBytesStep ==
  ASSUME TypeOK, Current.kind = "call"
  PROVE  /\ SavedBytes(0) = 0
         /\ \A k \in 0..Len(Current.saves) : SavedBytes(k) \in Nat
         /\ \A k \in 1..Len(Current.saves) :
              SavedBytes(k) = SavedBytes(k - 1) + Bytes(Current.saves[k])
<1> DEFINE s == Current.saves
           w == Widths(s)
<1>1. s \in Seq(IntRegs \cup FloatRegs)
  BY CallFacts
<1>2. \A i \in 1..Len(s) : Bytes(s[i]) \in Nat
  BY <1>1, FrameAssumption DEF Bytes
<1>3. w \in Seq(Nat) /\ Len(w) = Len(s) /\ \A i \in 1..Len(s) : w[i] = Bytes(s[i])
  BY <1>1, <1>2 DEF Widths
<1>4. IsSums(Sums(w), w)
  BY <1>3, SumsExist
<1> QED BY <1>3, <1>4 DEF IsSums, SavedBytes

-----------------------------------------------------------------------------
\* Every step works on the same function.
LEMMA SameFunction ==
  ASSUME [Next]_vars
  PROVE  fn' = fn
BY DEF Next, vars, Layout, SaveCallee, Reserve, Use, StartCall, SaveCaller, StartArguments,
       PushArgument, Align, Call, Release, RestoreCaller, EndCall, StartReturn, PopCallee,
       Leave, Returned

\* Reading, filling and assigning the bytes of the frame keeps their type.
LEMMA ReadType ==
  ASSUME TypeOK, NEW d \in Int, NEW n \in Nat \ {0}
  PROVE  Read(d, n) \in ValueType
<1>1. d \in (d - n + 1)..d
  OBVIOUS
<1>2. mem \in [1..MaxDepth -> ValueType] /\ Garbage \in ValueType
  BY DEF TypeOK, ValueType
<1> QED BY <1>1, <1>2 DEF Read

LEMMA FillType ==
  ASSUME NEW m \in [1..MaxDepth -> ValueType], NEW v \in ValueType, NEW a, NEW b
  PROVE  Fill(m, a, b, v) \in [1..MaxDepth -> ValueType]
BY DEF Fill

LEMMA StoreType ==
  ASSUME NEW m \in [1..MaxDepth -> ValueType], NEW slots \in SUBSET DOMAIN fn.slots
  PROVE  Store(m, slots) \in [1..MaxDepth -> ValueType]
<1>1. \A i \in slots : fn.slots[i].var \in ValueType
  BY DEF ValueType
<1>2. ASSUME NEW k \in 1..MaxDepth, \E i \in slots : k \in SlotBytes(i)
      PROVE  fn.slots[CHOOSE i \in slots : k \in SlotBytes(i)].var \in ValueType
  BY <1>1, <1>2
<1> QED BY <1>2 DEF Store

\* What a push or a pop does to the processor keeps the types.
LEMMA PushPopTypes ==
  ASSUME TypeOK, fn' = fn
  PROVE  /\ \A v \in ValueType : PushInteger(v) => mem' \in [1..MaxDepth -> ValueType] /\ depth' \in Int /\ position' \in Int
         /\ \A v \in ValueType, n \in Int : PushBytes(v, n) => mem' \in [1..MaxDepth -> ValueType] /\ depth' \in Int /\ position' \in Int
         /\ \A v \in ValueType : PushAddress(v) => mem' \in [1..MaxDepth -> ValueType] /\ depth' \in Int /\ position' \in Int
         /\ \A r \in AllRegs : PopInteger(r) => value' \in [AllRegs -> ValueType] /\ depth' \in Int /\ position' \in Int
         /\ \A r \in FloatRegs : PopFloat(r) => value' \in [AllRegs -> ValueType] /\ depth' \in Int /\ position' \in Int
<1>1. /\ mem \in [1..MaxDepth -> ValueType] /\ value \in [AllRegs -> ValueType]
      /\ depth \in Int /\ position \in Int
  BY DEF TypeOK
<1>2. ASSUME NEW v \in ValueType, PushInteger(v)
      PROVE  mem' \in [1..MaxDepth -> ValueType] /\ depth' \in Int /\ position' \in Int
  BY <1>1, <1>2, FillType DEF PushInteger
<1>3. ASSUME NEW v \in ValueType, NEW n \in Int, PushBytes(v, n)
      PROVE  mem' \in [1..MaxDepth -> ValueType] /\ depth' \in Int /\ position' \in Int
  BY <1>1, <1>3, FillType DEF PushBytes
<1>4. ASSUME NEW v \in ValueType, PushAddress(v)
      PROVE  mem' \in [1..MaxDepth -> ValueType] /\ depth' \in Int /\ position' \in Int
  BY <1>1, <1>4, FillType DEF PushAddress, generator
<1>5. ASSUME NEW r \in AllRegs, PopInteger(r)
      PROVE  value' \in [AllRegs -> ValueType] /\ depth' \in Int /\ position' \in Int
  <2>1. Read(depth, 8) \in ValueType
    BY <1>1, ReadType
  <2> QED BY <1>1, <1>5, <2>1 DEF PopInteger
<1>6. ASSUME NEW r \in FloatRegs, PopFloat(r)
      PROVE  value' \in [AllRegs -> ValueType] /\ depth' \in Int /\ position' \in Int
  <2>1. FloatSize[r] \in Nat \ {0} /\ r \in AllRegs
    BY FrameAssumption DEF AllRegs, CallerSaved
  <2>2. Read(position, FloatSize[r]) \in ValueType
    BY <1>1, <2>1, ReadType
  <2> QED BY <1>1, <1>6, <2>1, <2>2 DEF PopFloat
<1> QED BY <1>2, <1>3, <1>4, <1>5, <1>6

\* The registers a call saves or a function must save are registers.
LEMMA TodoFacts ==
  ASSUME TypeOK, TodoInv, PhaseInv, todo # <<>>
  PROVE  /\ phase \in {"saving", "popping"} =>
              Head(todo) \in CalleeSaved /\ Tail(todo) \in Seq(CalleeSaved)
         /\ phase \in {"save", "restore"} =>
              Head(todo) \in IntRegs \cup FloatRegs /\ Tail(todo) \in Seq(IntRegs \cup FloatRegs)
         /\ phase = "arguments" => Head(todo) \in Argument /\ Tail(todo) \in Seq(Argument)
         /\ phase \in {"saving", "popping", "save", "restore", "arguments"} =>
              /\ Len(todo) \in Nat \ {0} /\ Len(Tail(todo)) = Len(todo) - 1
              /\ Head(todo) = todo[1]
              /\ \A i \in 1..(Len(todo) - 1) : Tail(todo)[i] = todo[i + 1]
<1>1. ASSUME NEW S, todo \in Seq(S)
      PROVE  /\ Head(todo) \in S /\ Tail(todo) \in Seq(S)
             /\ Len(todo) \in Nat \ {0} /\ Len(Tail(todo)) = Len(todo) - 1
             /\ Head(todo) = todo[1]
             /\ \A i \in 1..(Len(todo) - 1) : Tail(todo)[i] = todo[i + 1]
  BY <1>1
<1>2. /\ phase \in {"saving", "popping"} => todo \in Seq(CalleeSaved)
      /\ phase \in {"save", "restore"} => todo \in Seq(IntRegs \cup FloatRegs)
      /\ phase = "arguments" => todo \in Seq(Argument)
  BY DEF TodoInv
<1> QED BY <1>1, <1>2

-----------------------------------------------------------------------------
\* What is in memory and in the registers keeps its type.
LEMMA DataStep ==
  ASSUME TypeOK, PhaseInv, TodoInv, [Next]_vars
  PROVE  /\ position' \in Int /\ depth' \in Int
         /\ mem' \in [1..MaxDepth -> ValueType'] /\ value' \in [AllRegs -> ValueType']
<1>1. /\ mem \in [1..MaxDepth -> ValueType] /\ value \in [AllRegs -> ValueType]
      /\ depth \in Int /\ position \in Int /\ mark \in Nat
      /\ fn \in Functions /\ spills \in Nat /\ grown \in [position : Nat, spills : Nat]
      /\ Total \in Nat
  BY FunctionFacts DEF TypeOK
<1>2. fn' = fn /\ ValueType' = ValueType
  BY SameFunction DEF ValueType
<1>3. Garbage \in ValueType /\ "argument" \in ValueType /\ AllRegs \subseteq ValueType
  BY DEF ValueType
<1> SUFFICES /\ position' \in Int /\ depth' \in Int
             /\ mem' \in [1..MaxDepth -> ValueType] /\ value' \in [AllRegs -> ValueType]
  BY <1>2
<1>4. CASE Layout
  <2>1. Store(mem, Params) \in [1..MaxDepth -> ValueType]
    BY <1>1, StoreType DEF Params
  <2> QED BY <1>1, <1>4, <2>1 DEF Layout, FramePosition
<1>5. CASE SaveCallee
  <2>1. value[Head(todo)] \in ValueType
    BY <1>1, <1>5, TodoFacts DEF SaveCallee, AllRegs
  <2> QED BY <1>1, <1>2, <1>5, <2>1, PushPopTypes DEF SaveCallee
<1>6. CASE Reserve
  BY <1>1, <1>6 DEF Reserve, Padding
<1>7. CASE Use
  <2>1. Store(mem, Locals) \in [1..MaxDepth -> ValueType]
    BY <1>1, StoreType DEF Locals
  <2> QED BY <1>1, <1>3, <1>7, <2>1 DEF Use
<1>8. CASE SaveCaller
  <2>1. Head(todo) \in IntRegs \cup FloatRegs /\ value[Head(todo)] \in ValueType
    BY <1>1, <1>8, TodoFacts DEF SaveCaller, AllRegs, CallerSaved
  <2>2. Head(todo) \in FloatRegs => FloatSize[Head(todo)] \in Int
    BY FrameAssumption
  <2> QED BY <1>1, <1>2, <1>8, <2>1, <2>2, PushPopTypes DEF SaveCaller
<1>9. CASE PushArgument
  <2>1. Head(todo) \in Argument
    BY <1>9, TodoFacts DEF PushArgument
  <2>2. Head(todo).kind \notin {"integer", "address"} => Head(todo).size \in Int
    BY <2>1 DEF Argument
  <2>3. CASE Head(todo).kind = "integer"
    BY <1>1, <1>2, <1>3, <1>9, <2>3, PushPopTypes DEF PushArgument
  <2>4. CASE Head(todo).kind = "address"
    BY <1>1, <1>2, <1>3, <1>9, <2>4, PushPopTypes DEF PushArgument
  <2>5. CASE Head(todo).kind \notin {"integer", "address"}
    BY <1>1, <1>2, <1>3, <1>9, <2>2, <2>5, PushPopTypes DEF PushArgument
  <2> QED BY <2>3, <2>4, <2>5
<1>10. CASE Align
  BY <1>1, <1>10 DEF Align, Gap
<1>11. CASE Call
  BY <1>1, <1>3, <1>11 DEF Call
<1>12. CASE Release
  BY <1>1, <1>12 DEF Release
<1>13. CASE RestoreCaller
  <2>1. Head(todo) \in IntRegs \cup FloatRegs /\ Head(todo) \in AllRegs
    BY <1>13, TodoFacts DEF RestoreCaller, AllRegs, CallerSaved
  <2> QED BY <1>1, <1>2, <1>13, <2>1, PushPopTypes DEF RestoreCaller
<1>14. CASE EndCall
  BY <1>1, <1>3, <1>14 DEF EndCall
<1>15. CASE PopCallee
  <2>1. Head(todo) \in AllRegs
    BY <1>15, TodoFacts DEF PopCallee, AllRegs
  <2> QED BY <1>1, <1>2, <1>15, <2>1, PushPopTypes DEF PopCallee
<1>16. CASE Leave
  BY <1>1, <1>16 DEF Leave
<1>17. CASE StartCall \/ StartArguments \/ StartReturn \/ Returned \/ UNCHANGED vars
  BY <1>1, <1>17 DEF StartCall, StartArguments, StartReturn, Returned, vars, processor
<1> QED BY <1>4, <1>5, <1>6, <1>7, <1>8, <1>9, <1>10, <1>11, <1>12, <1>13, <1>14, <1>15, <1>16, <1>17 DEF Next

-----------------------------------------------------------------------------
LEMMA ReversedSeq ==
  ASSUME NEW S, NEW s \in Seq(S)
  PROVE  /\ Reversed(s) \in Seq(S) /\ Len(Reversed(s)) = Len(s)
         /\ \A i \in 1..Len(s) : Reversed(s)[i] = s[Len(s) + 1 - i]
<1>1. \A i \in 1..Len(s) : Len(s) + 1 - i \in 1..Len(s)
  OBVIOUS
<1> QED BY <1>1 DEF Reversed

LEMMA OrdersSeq ==
  ASSUME NEW S \in SUBSET CalleeSaved, NEW o \in Orders(S)
  PROVE  o \in Seq(CalleeSaved)
<1>1. Cardinality(S) \in Nat
  BY FrameAssumption, FS_Subset, FS_CardinalityType
<1>2. o \in [1..Cardinality(S) -> CalleeSaved]
  BY DEF Orders
<1> QED BY <1>1, <1>2

\* What the control invariant speaks of, with its definitions expanded.
Control == PhaseInv /\ TodoInv /\ CountInv /\ DepthInv

\* The plain part of the types.
Plain ==
  /\ pc \in 1..Len(fn.body) /\ phase \in Phases /\ live \in BOOLEAN
  /\ spills \in Nat /\ mark \in Nat /\ rets \in Nat
  /\ saved \in Seq(CalleeSaved) /\ grown \in [position : Nat, spills : Nat]

\* The prologue (lines 85-136).
LEMMA PrologueStep ==
  ASSUME IInv, Layout \/ SaveCallee \/ Reserve
  PROVE  Plain' /\ Control'
<1>1. /\ fn' = fn /\ Total' = Total /\ Total \in Nat
      /\ fn.saved \in SUBSET CalleeSaved
      /\ NoAddressPushed' = NoAddressPushed
      /\ Plain
  <2>1. fn' = fn
    BY DEF Layout, SaveCallee, Reserve
  <2> QED BY <2>1, FunctionFacts DEF IInv, TypeOK, Plain, Total, NoAddressPushed, Calls
<1>2. Padding(Total) \in Nat
  BY <1>1 DEF Padding
<1>3. CASE Layout
  <2>1. saved' \in Seq(CalleeSaved) /\ todo' = saved'
    BY <1>1, <1>3, OrdersSeq DEF Layout
  <2>2. Plain'
    BY <1>1, <1>2, <1>3, <2>1 DEF Layout, Plain, Phases
  <2>3. PhaseInv' /\ TodoInv'
    BY <1>3, <2>1 DEF Layout, PhaseInv, TodoInv, InCall, IInv
  <2>4. Len(saved') \in Nat
    BY <2>1
  <2>5. CountInv' /\ DepthInv'
    BY <1>1, <1>2, <1>3, <2>1, <2>4 DEF Layout, CountInv, DepthInv, Base, InCall, IInv, Padding
  <2> QED BY <2>2, <2>3, <2>5 DEF Control
<1>4. CASE SaveCallee
  <2>1. /\ Tail(todo) \in Seq(CalleeSaved) /\ Len(todo) \in Nat \ {0}
        /\ Len(Tail(todo)) = Len(todo) - 1
    BY <1>4, TodoFacts DEF SaveCallee, IInv
  <2>2. /\ phase = "saving" /\ phase' = phase /\ todo' = Tail(todo) /\ spills' = spills + 8
        /\ UNCHANGED <<pc, live, saved, mark, grown, rets>>
        /\ depth' = IF live THEN depth + 8 ELSE depth
    BY <1>4 DEF SaveCallee, PushInteger
  <2>3. Plain'
    BY <1>1, <2>2 DEF Plain
  <2>4. PhaseInv' /\ TodoInv'
    BY <2>1, <2>2 DEF PhaseInv, TodoInv, InCall, IInv
  <2>5. Len(saved) \in Nat
    BY <1>1 DEF Plain
  <2>6. CountInv'
    BY <1>1, <1>2, <2>1, <2>2, <2>5 DEF CountInv, Base, InCall, IInv, Padding
  <2>7. DepthInv'
    BY <1>1, <2>1, <2>2, <2>5 DEF DepthInv, InCall, IInv, PhaseInv
  <2> QED BY <2>3, <2>4, <2>6, <2>7 DEF Control
<1>5. CASE Reserve
  <2>1. /\ phase = "saving" /\ phase' = "body" /\ todo = <<>>
        /\ UNCHANGED <<pc, live, saved, spills, mark, grown, rets>>
        /\ depth' = depth + Total + Padding(Total)
    BY <1>5 DEF Reserve
  <2>2. Plain'
    BY <1>1, <2>1 DEF Plain, Phases
  <2>3. PhaseInv' /\ TodoInv'
    BY <2>1 DEF PhaseInv, TodoInv, InCall
  <2>4. Len(saved) \in Nat /\ Len(todo) = 0
    BY <1>1, <2>1 DEF Plain
  <2>5. CountInv' /\ DepthInv'
    BY <1>1, <1>2, <2>1, <2>4 DEF CountInv, DepthInv, Base, InCall, IInv, Padding
  <2> QED BY <2>2, <2>3, <2>5 DEF Control
<1> QED BY <1>3, <1>4, <1>5

\* The translated instructions between calls and returns.
LEMMA UseStep ==
  ASSUME IInv, Use
  PROVE  Plain' /\ Control'
<1>1. /\ fn' = fn /\ Total' = Total /\ NoAddressPushed' = NoAddressPushed /\ Plain
      /\ fn \in Functions
  <2>1. fn' = fn
    BY DEF Use
  <2> QED BY <2>1 DEF IInv, TypeOK, Plain, Total, NoAddressPushed, Calls
<1>2. pc # Len(fn.body) /\ Len(fn.body) \in Nat
  BY <1>1, FunctionFacts DEF Use, At, Current
<1>3. /\ phase = "body" /\ phase' = "body" /\ pc' = pc + 1
      /\ UNCHANGED <<live, saved, spills, mark, grown, rets, todo, depth>>
  BY DEF Use, At
<1>4. Plain'
  BY <1>1, <1>2, <1>3 DEF Plain
<1>5. PhaseInv' /\ TodoInv'
  BY <1>3 DEF PhaseInv, TodoInv, InCall
<1>6. CountInv' /\ DepthInv'
  BY <1>1, <1>3 DEF CountInv, DepthInv, Base, InCall, IInv, Padding
<1> QED BY <1>4, <1>5, <1>6 DEF Control

-----------------------------------------------------------------------------
\* The frame of the invariant while one operation of the body is generated.
LEMMA SameOperation ==
  ASSUME TypeOK, fn' = fn, pc' = pc
  PROVE  /\ Current' = Current /\ Total' = Total /\ Total \in Nat
         /\ NoAddressPushed' = NoAddressPushed
         /\ pc \in 1..Len(fn.body) /\ fn \in Functions /\ Len(fn.body) \in Nat
BY FunctionFacts DEF TypeOK, Current, Total, NoAddressPushed, Calls

\* Saving the registers that are live across a call (lines 549-566).
LEMMA SavingStep ==
  ASSUME IInv, StartCall \/ SaveCaller \/ StartArguments
  PROVE  Plain' /\ Control'
<1> DEFINE saves == Current.saves
           B == Sums(Widths(Current.saves))
<1>1. /\ fn' = fn /\ pc' = pc /\ saved' = saved /\ Plain /\ TypeOK
      /\ Current.kind = "call"
  BY DEF StartCall, SaveCaller, StartArguments, At, IInv, TypeOK, Plain, PhaseInv, InCall
<1>2. /\ Current' = Current /\ Total' = Total /\ Total \in Nat
      /\ NoAddressPushed' = NoAddressPushed
  BY <1>1, SameOperation
<1>3. /\ saves \in Seq(IntRegs \cup FloatRegs) /\ Current.args \in Seq(Argument)
      /\ Len(saves) \in Nat
  BY <1>1, CallFacts
<1>4. /\ B[0] = 0 /\ \A k \in 0..Len(saves) : B[k] \in Nat
      /\ \A k \in 1..Len(saves) : B[k] = B[k - 1] + Bytes(saves[k])
  BY <1>1, SavedBytesStep DEF SavedBytes
<1>5. Padding(Total) \in Nat /\ Len(saved) \in Nat
  BY <1>1, <1>2 DEF Padding, Plain
<1>6. CASE StartCall
  <2>1. /\ phase = "body" /\ phase' = "save" /\ todo' = saves /\ live' \in BOOLEAN
        /\ UNCHANGED <<spills, mark, grown, rets, depth>>
    BY <1>6 DEF StartCall, At, processor
  <2>2. Plain'
    BY <1>1, <2>1 DEF Plain, Phases
  <2>3. PhaseInv' /\ TodoInv'
    BY <1>1, <1>2, <1>3, <2>1 DEF PhaseInv, TodoInv, InCall
  <2>4. spills = Base /\ (NoAddressPushed => depth = Base)
    BY <2>1 DEF IInv, CountInv, DepthInv
  <2>5. Base' = Base /\ Base \in Nat
    BY <1>1, <1>2, <1>5 DEF Base, Padding
  <2>6. CountInv'
    BY <1>2, <1>3, <1>4, <2>1, <2>4, <2>5 DEF CountInv, InCall, SavedBytes
  <2>7. DepthInv'
    BY <1>2, <2>1, <2>4, <2>5 DEF DepthInv, InCall
  <2> QED BY <2>2, <2>3, <2>6, <2>7 DEF Control
<1>7. CASE SaveCaller
  <2> DEFINE k == Len(saves) - Len(todo)
  <2>1. /\ Head(todo) = todo[1] /\ Tail(todo) \in Seq(IntRegs \cup FloatRegs)
        /\ Len(todo) \in Nat \ {0} /\ Len(Tail(todo)) = Len(todo) - 1
        /\ \A i \in 1..(Len(todo) - 1) : Tail(todo)[i] = todo[i + 1]
    BY <1>7, TodoFacts DEF SaveCaller, IInv
  <2>2. /\ phase = "save" /\ phase' = phase /\ todo' = Tail(todo)
        /\ UNCHANGED <<live, mark, grown, rets>>
    BY <1>7 DEF SaveCaller
  <2>3. /\ Len(todo) <= Len(saves)
        /\ \A i \in 1..Len(todo) : todo[i] = saves[k + i]
        /\ spills = Base + B[k] /\ spills \in Nat
        /\ (NoAddressPushed => depth = IF live THEN spills ELSE Base)
    BY <2>2 DEF IInv, TodoInv, CountInv, DepthInv, SavedBytes, InCall, TypeOK
  <2>4. k + 1 \in 1..Len(saves) /\ Head(todo) = saves[k + 1] /\ k \in 0..Len(saves)
    BY <1>3, <2>1, <2>3
  <2>5. /\ spills' = spills + Bytes(saves[k + 1]) /\ Bytes(saves[k + 1]) \in Nat
        /\ depth' = IF live THEN depth + Bytes(saves[k + 1]) ELSE depth
    BY <1>7, <2>4, FrameAssumption DEF SaveCaller, PushInteger, PushBytes, Bytes
  <2>6. Plain'
    <3>1. spills' \in Nat
      BY <2>3, <2>5
    <3> QED BY <1>1, <2>2, <3>1 DEF Plain
  <2>7. PhaseInv'
    BY <1>1, <1>2, <2>2 DEF PhaseInv, InCall
  <2>8. TodoInv'
    <3>1. \A i \in 1..(Len(todo) - 1) : Tail(todo)[i] = saves[Len(saves) - (Len(todo) - 1) + i]
      <4> SUFFICES ASSUME NEW i \in 1..(Len(todo) - 1)
                   PROVE  Tail(todo)[i] = saves[Len(saves) - (Len(todo) - 1) + i]
        OBVIOUS
      <4>1. i + 1 \in 1..Len(todo) /\ k + (i + 1) = Len(saves) - (Len(todo) - 1) + i
        <5> DEFINE n == Len(saves)
                   m == Len(todo)
        <5>1. n \in Nat /\ m \in Nat /\ i \in 1..(m - 1) /\ k = n - m
          BY <1>3, <2>1
        <5> HIDE DEF n, m, k
        <5>2. i + 1 \in 1..m
          BY <5>1
        <5>3. k + (i + 1) = n - (m - 1) + i
          BY <5>1
        <5> QED BY <5>2, <5>3 DEF n, m
      <4>2. todo[i + 1] = saves[k + (i + 1)]
        BY <2>3, <4>1
      <4> QED BY <2>1, <4>1, <4>2
    <3>2. Len(Tail(todo)) <= Len(saves)
      BY <1>3, <2>1, <2>3
    <3> QED BY <1>2, <2>1, <2>2, <3>1, <3>2 DEF TodoInv
  <2>9. Base' = Base /\ Base \in Nat
    BY <1>1, <1>2, <1>5 DEF Base, Padding
  <2>10. spills' = Base + B[k + 1] /\ k + 1 = Len(saves) - Len(Tail(todo))
    <3>1. B[k + 1] = B[k] + Bytes(saves[k + 1]) /\ B[k] \in Nat
      <4>1. (k + 1) - 1 = k /\ B[k + 1] = B[(k + 1) - 1] + Bytes(saves[k + 1])
        <5> HIDE DEF k
        <5> QED BY <1>4, <2>4
      <4> QED BY <1>4, <2>4, <4>1
    <3> QED BY <1>3, <2>1, <2>3, <2>5, <2>9, <3>1
  <2>11. CountInv'
    BY <1>2, <2>2, <2>9, <2>10 DEF CountInv, InCall, SavedBytes
  <2>12. DepthInv'
    BY <1>2, <2>2, <2>3, <2>5, <2>9 DEF DepthInv, InCall
  <2> QED BY <2>6, <2>7, <2>8, <2>11, <2>12 DEF Control
<1>8. CASE StartArguments
  <2>1. /\ phase = "save" /\ phase' = "arguments" /\ todo = <<>> /\ todo' = Current.args
        /\ mark' = spills
        /\ UNCHANGED <<live, spills, grown, rets, depth>>
    BY <1>8 DEF StartArguments, processor
  <2>2. Plain'
    BY <1>1, <2>1 DEF Plain, Phases
  <2>3. PhaseInv'
    BY <1>1, <1>2, <2>1 DEF PhaseInv, InCall
  <2>4. TodoInv'
    BY <1>2, <1>3, <2>1 DEF TodoInv
  <2>5. /\ spills = Base + B[Len(saves)] /\ spills \in Nat
        /\ (NoAddressPushed => depth = IF live THEN spills ELSE Base)
    BY <1>3, <2>1 DEF IInv, CountInv, DepthInv, SavedBytes, InCall, TypeOK
  <2>6. Base' = Base
    BY <1>1, <1>2 DEF Base, Padding
  <2>7. CountInv' /\ DepthInv'
    BY <1>2, <2>1, <2>5, <2>6 DEF CountInv, DepthInv, InCall, SavedBytes
  <2> QED BY <2>2, <2>3, <2>4, <2>7 DEF Control
<1> QED BY <1>6, <1>7, <1>8

\* Pushing the arguments and the call itself (lines 583-664).
LEMMA PassingStep ==
  ASSUME IInv, PushArgument \/ Align \/ Call
  PROVE  Plain' /\ Control'
<1> DEFINE saves == Current.saves
           B == Sums(Widths(Current.saves))
<1>1. /\ fn' = fn /\ pc' = pc /\ saved' = saved /\ Plain /\ TypeOK
      /\ Current.kind = "call"
  BY DEF PushArgument, Align, Call, IInv, TypeOK, Plain, PhaseInv, InCall
<1>2. /\ Current' = Current /\ Total' = Total /\ Total \in Nat
      /\ NoAddressPushed' = NoAddressPushed
  BY <1>1, SameOperation
<1>3. Padding(Total) \in Nat /\ Len(saved) \in Nat
  BY <1>1, <1>2 DEF Padding, Plain
<1>4. Base' = Base /\ Base \in Nat
  BY <1>1, <1>2, <1>3 DEF Base, Padding
<1>5. phase \in {"arguments", "calling"} =>
        /\ mark = Base + B[Len(saves)] /\ spills >= mark
        /\ (NoAddressPushed => depth = IF live THEN spills ELSE Base)
  BY DEF IInv, CountInv, DepthInv, SavedBytes, InCall
<1>6. spills \in Nat /\ mark \in Nat /\ live \in BOOLEAN
  BY DEF IInv, TypeOK
<1>7. CASE PushArgument
  <2> DEFINE a == Head(todo)
  <2>1. /\ a \in Argument /\ a = todo[1] /\ Tail(todo) \in Seq(Argument)
        /\ Len(todo) \in Nat \ {0} /\ Len(Tail(todo)) = Len(todo) - 1
        /\ \A i \in 1..(Len(todo) - 1) : Tail(todo)[i] = todo[i + 1]
    BY <1>7, TodoFacts DEF PushArgument, IInv
  <2>2. /\ phase = "arguments" /\ phase' = phase /\ todo' = Tail(todo)
        /\ UNCHANGED <<live, mark, grown, rets>>
    BY <1>7 DEF PushArgument
  <2>3. \A i \in 1..Len(todo) : \E j \in DOMAIN Current.args : todo[i] = Current.args[j]
    BY <2>2 DEF IInv, TodoInv
  <2>4. NoAddressPushed => a.kind # "address"
    <3>1. PICK j \in DOMAIN Current.args : a = Current.args[j]
      <4>1. 1 \in 1..Len(todo)
        BY <2>1
      <4> QED BY <2>1, <2>3, <4>1
    <3>2. pc \in Calls
      BY <1>1 DEF Calls, TypeOK, Current
    <3> QED BY <3>1, <3>2 DEF NoAddressPushed, Current
  <2>5. \E n \in Nat : /\ spills' = spills + n
                        /\ (NoAddressPushed => depth' = IF live THEN depth + n ELSE depth)
    <3>1. CASE a.kind = "integer"
      BY <1>7, <3>1 DEF PushArgument, PushInteger
    <3>2. CASE a.kind = "address"
      <4>1. spills' = spills + 0
        BY <1>6, <1>7, <3>2 DEF PushArgument, PushAddress, generator
      <4> QED BY <2>4, <3>2, <4>1
    <3>3. CASE a.kind \notin {"integer", "address"}
      <4>1. a.size \in Nat
        BY <2>1, <3>3 DEF Argument
      <4> QED BY <1>7, <3>3, <4>1 DEF PushArgument, PushBytes
    <3> QED BY <3>1, <3>2, <3>3
  <2>6. /\ spills' \in Nat /\ spills' >= mark
        /\ (NoAddressPushed => depth' = IF live THEN spills' ELSE Base)
    BY <1>5, <1>6, <2>2, <2>5
  <2>7. Plain'
    BY <1>1, <2>2, <2>6 DEF Plain
  <2>8. PhaseInv'
    BY <1>1, <1>2, <2>2 DEF PhaseInv, InCall
  <2>9. TodoInv'
    <3>1. \A i \in 1..Len(Tail(todo)) : \E j \in DOMAIN Current.args : Tail(todo)[i] = Current.args[j]
      BY <2>1, <2>3
    <3> QED BY <1>2, <2>1, <2>2, <3>1 DEF TodoInv
  <2>10. CountInv' /\ DepthInv'
    BY <1>2, <1>4, <1>5, <2>2, <2>6 DEF CountInv, DepthInv, InCall, SavedBytes
  <2> QED BY <2>7, <2>8, <2>9, <2>10 DEF Control
<1>8. CASE Align
  <2>1. /\ phase = "arguments" /\ phase' = "calling" /\ todo' = todo
        /\ spills' = spills + Gap(spills)
        /\ depth' = IF live THEN depth + Gap(spills) ELSE depth
        /\ grown' = [position |-> spills - mark, spills |-> spills' - mark]
        /\ UNCHANGED <<live, mark, rets>>
    BY <1>8 DEF Align
  <2>2. Gap(spills) \in Nat /\ (spills + Gap(spills)) % 16 = 0
    BY <1>6 DEF Gap
  <2>3. spills' \in Nat /\ spills' >= mark /\ spills' = mark + grown'.spills
    BY <1>5, <1>6, <2>1, <2>2
  <2>4. grown' \in [position : Nat, spills : Nat]
    BY <1>5, <1>6, <2>1, <2>3
  <2>5. Plain'
    BY <1>1, <2>1, <2>3, <2>4 DEF Plain, Phases
  <2>6. PhaseInv' /\ TodoInv'
    BY <1>1, <1>2, <2>1 DEF PhaseInv, TodoInv, InCall
  <2>7. NoAddressPushed => depth' = IF live THEN spills' ELSE Base
    BY <1>5, <1>6, <2>1, <2>2
  <2>8. CountInv' /\ DepthInv'
    BY <1>2, <1>4, <1>5, <2>1, <2>2, <2>3, <2>7 DEF CountInv, DepthInv, InCall, SavedBytes
  <2> QED BY <2>5, <2>6, <2>8 DEF Control
<1>9. CASE Call
  <2>1. /\ phase = "calling" /\ phase' = "called"
        /\ UNCHANGED <<live, spills, todo, mark, grown, rets, depth>>
    BY <1>9 DEF Call
  <2>2. Plain'
    BY <1>1, <2>1 DEF Plain, Phases
  <2>3. PhaseInv' /\ TodoInv'
    BY <1>1, <1>2, <2>1 DEF PhaseInv, TodoInv, InCall
  <2>4. spills = mark + grown.spills
    BY <2>1 DEF IInv, CountInv
  <2>5. CountInv' /\ DepthInv'
    BY <1>2, <1>4, <1>5, <2>1, <2>4 DEF CountInv, DepthInv, InCall, SavedBytes
  <2> QED BY <2>2, <2>3, <2>5 DEF Control
<1> QED BY <1>7, <1>8, <1>9

\* After the call (lines 666-674).
LEMMA RestoringStep ==
  ASSUME IInv, Release \/ RestoreCaller
  PROVE  Plain' /\ Control'
<1> DEFINE saves == Current.saves
           B == Sums(Widths(Current.saves))
<1>1. /\ fn' = fn /\ pc' = pc /\ saved' = saved /\ Plain /\ TypeOK
      /\ Current.kind = "call"
  BY DEF Release, RestoreCaller, IInv, TypeOK, Plain, PhaseInv, InCall
<1>2. /\ Current' = Current /\ Total' = Total /\ Total \in Nat
      /\ NoAddressPushed' = NoAddressPushed
  BY <1>1, SameOperation
<1>3. /\ saves \in Seq(IntRegs \cup FloatRegs) /\ Len(saves) \in Nat
  BY <1>1, CallFacts
<1>4. /\ B[0] = 0 /\ \A k \in 0..Len(saves) : B[k] \in Nat
      /\ \A k \in 1..Len(saves) : B[k] = B[k - 1] + Bytes(saves[k])
  BY <1>1, SavedBytesStep DEF SavedBytes
<1>5. Padding(Total) \in Nat /\ Len(saved) \in Nat
  BY <1>1, <1>2 DEF Padding, Plain
<1>6. Base' = Base /\ Base \in Nat
  BY <1>1, <1>2, <1>5 DEF Base, Padding
<1>7. spills \in Nat /\ mark \in Nat /\ live \in BOOLEAN
  BY DEF IInv, TypeOK
<1>8. CASE Release
  <2>1. /\ phase = "called" /\ phase' = "restore" /\ todo' = Reversed(saves)
        /\ spills' = spills - grown.spills
        /\ depth' = IF live THEN depth - grown.spills ELSE depth
        /\ UNCHANGED <<live, mark, grown, rets>>
    BY <1>8 DEF Release
  <2>2. /\ mark = Base + B[Len(saves)] /\ spills = mark + grown.spills
        /\ (NoAddressPushed => depth = IF live THEN spills ELSE Base)
    BY <2>1 DEF IInv, CountInv, DepthInv, SavedBytes, InCall
  <2>3. grown.spills \in Nat /\ spills' = mark
    <3>1. grown.spills \in Nat
      BY <1>1 DEF Plain
    <3> QED BY <1>7, <2>1, <2>2, <3>1
  <2>4. Plain'
    BY <1>1, <1>7, <2>1, <2>3 DEF Plain, Phases
  <2>5. PhaseInv'
    BY <1>1, <1>2, <2>1 DEF PhaseInv, InCall
  <2>6. TodoInv'
    BY <1>2, <1>3, <2>1, ReversedSeq DEF TodoInv
  <2>7. Len(Reversed(saves)) = Len(saves)
    BY <1>3, ReversedSeq
  <2>8. NoAddressPushed => depth' = IF live THEN spills' ELSE Base
    BY <1>7, <2>1, <2>2, <2>3
  <2>9. CountInv' /\ DepthInv'
    BY <1>2, <1>6, <2>1, <2>2, <2>3, <2>7, <2>8 DEF CountInv, DepthInv, InCall, SavedBytes
  <2> QED BY <2>4, <2>5, <2>6, <2>9 DEF Control
<1>9. CASE RestoreCaller
  <2> DEFINE k == Len(todo)
             r == Head(todo)
  <2>1. /\ r = todo[1] /\ r \in IntRegs \cup FloatRegs
        /\ Tail(todo) \in Seq(IntRegs \cup FloatRegs)
        /\ k \in Nat \ {0} /\ Len(Tail(todo)) = k - 1
        /\ \A i \in 1..(k - 1) : Tail(todo)[i] = todo[i + 1]
    BY <1>9, TodoFacts DEF RestoreCaller, IInv
  <2>2. /\ phase = "restore" /\ phase' = phase /\ todo' = Tail(todo)
        /\ UNCHANGED <<live, mark, grown, rets>>
    BY <1>9 DEF RestoreCaller
  <2>3. /\ k <= Len(saves)
        /\ \A i \in 1..k : todo[i] = saves[k + 1 - i]
        /\ spills = Base + B[k]
        /\ (NoAddressPushed => depth = IF live THEN spills ELSE Base)
    BY <2>2 DEF IInv, TodoInv, CountInv, DepthInv, SavedBytes, InCall
  <2>4. r = saves[k] /\ k \in 1..Len(saves)
    <3>1. 1 \in 1..k /\ k + 1 - 1 = k /\ k \in 1..Len(saves)
      BY <1>3, <2>1, <2>3
    <3> QED BY <2>1, <2>3, <3>1
  <2>5. B[k] = B[k - 1] + Bytes(r) /\ B[k - 1] \in Nat /\ Bytes(r) \in Nat
    <3>1. k - 1 \in 0..Len(saves)
      BY <1>3, <2>4
    <3>2. Bytes(r) \in Nat
      BY FrameAssumption DEF Bytes
    <3> QED BY <1>4, <2>4, <3>1, <3>2
  <2>6. /\ spills' = spills - Bytes(r)
        /\ depth' = IF live THEN depth - Bytes(r) ELSE depth
    BY <1>9 DEF RestoreCaller, PopInteger, PopFloat, Bytes
  <2>7. spills' = Base + B[k - 1] /\ spills' \in Nat
    BY <1>6, <2>3, <2>5, <2>6
  <2>8. NoAddressPushed => depth' = IF live THEN spills' ELSE Base
    BY <1>7, <2>3, <2>6
  <2>9. Plain'
    BY <1>1, <2>2, <2>7 DEF Plain
  <2>10. PhaseInv'
    BY <1>1, <1>2, <2>2 DEF PhaseInv, InCall
  <2>11. TodoInv'
    <3>1. \A i \in 1..(k - 1) : Tail(todo)[i] = saves[(k - 1) + 1 - i]
      <4> SUFFICES ASSUME NEW i \in 1..(k - 1) PROVE Tail(todo)[i] = saves[(k - 1) + 1 - i]
        OBVIOUS
      <4>1. i + 1 \in 1..k /\ k + 1 - (i + 1) = (k - 1) + 1 - i
        <5> HIDE DEF k
        <5> QED BY <2>1
      <4>2. todo[i + 1] = saves[k + 1 - (i + 1)]
        BY <2>3, <4>1
      <4> QED BY <2>1, <4>1, <4>2
    <3>2. k - 1 <= Len(saves)
      BY <1>3, <2>1, <2>3
    <3> QED BY <1>2, <2>1, <2>2, <3>1, <3>2 DEF TodoInv
  <2>12. CountInv' /\ DepthInv'
    BY <1>2, <1>6, <2>1, <2>2, <2>7, <2>8 DEF CountInv, DepthInv, InCall, SavedBytes
  <2> QED BY <2>9, <2>10, <2>11, <2>12 DEF Control
<1> QED BY <1>8, <1>9

\* The operation after a call is generated with nothing saved any more.
LEMMA EndCallStep ==
  ASSUME IInv, EndCall
  PROVE  Plain' /\ Control'
<1>1. /\ fn' = fn /\ saved' = saved /\ Plain /\ TypeOK /\ Current.kind = "call"
      /\ phase = "restore" /\ phase' = "body" /\ todo = <<>> /\ pc' = pc + 1 /\ live' = TRUE
      /\ UNCHANGED <<spills, mark, grown, rets, depth>>
  BY DEF EndCall, IInv, TypeOK, Plain, PhaseInv, InCall
<1>2. /\ fn \in Functions /\ Total' = Total /\ NoAddressPushed' = NoAddressPushed
  BY <1>1 DEF TypeOK, Total, NoAddressPushed, Calls
<1>3. pc < Len(fn.body) /\ pc \in 1..Len(fn.body) /\ Len(fn.body) \in Nat
  BY <1>1, <1>2, CallFacts, FunctionFacts DEF TypeOK
<1>4. Plain'
  BY <1>1, <1>3 DEF Plain, Phases
<1>5. PhaseInv' /\ TodoInv'
  BY <1>1 DEF PhaseInv, TodoInv, InCall
<1>6. /\ spills = Base /\ spills \in Nat
      /\ (NoAddressPushed => depth = Base)
  <2>1. SavedBytes(Len(todo)) = 0 /\ spills = Base + SavedBytes(Len(todo))
    <3>1. Len(todo) = 0
      BY <1>1
    <3> QED BY <1>1, <3>1, SavedBytesStep DEF IInv, CountInv
  <2>2. Base \in Nat
    BY <1>1, <1>2, FunctionFacts DEF Base, Padding, Plain
  <2> QED BY <1>1, <2>1, <2>2 DEF IInv, DepthInv, InCall
<1>7. Base' = Base
  BY <1>1, <1>2 DEF Base, Padding
<1>8. CountInv' /\ DepthInv'
  BY <1>1, <1>2, <1>6, <1>7 DEF CountInv, DepthInv, InCall
<1> QED BY <1>4, <1>5, <1>8 DEF Control

\* A return: on the path the processor takes it is the last thing that
\* happens, beside it the generator goes on (lines 684-697).
LEMMA ReturnStep ==
  ASSUME IInv, StartReturn \/ PopCallee \/ Leave
  PROVE  Plain' /\ Control'
<1>1. /\ fn' = fn /\ fn \in Functions /\ Plain /\ TypeOK /\ Current.kind = "return"
  BY DEF StartReturn, PopCallee, Leave, At, IInv, TypeOK, Plain, PhaseInv
<1>2. /\ Total' = Total /\ Total \in Nat /\ NoAddressPushed' = NoAddressPushed
      /\ pc \in 1..Len(fn.body) /\ Len(fn.body) \in Nat
  BY <1>1, FunctionFacts DEF TypeOK, Total, NoAddressPushed, Calls
<1>3. Padding(Total) \in Nat /\ Padding(Total)' = Padding(Total) /\ Len(saved) \in Nat
  BY <1>1, <1>2 DEF Padding, Plain
<1>4. Base \in Nat /\ spills \in Nat /\ mark \in Nat /\ live \in BOOLEAN
  BY <1>1, <1>2, <1>3 DEF Base, Plain
<1>5. CASE StartReturn
  <2>1. /\ phase = "body" /\ phase' = "popping" /\ mark' = spills /\ saved' = Reversed(saved)
        /\ todo' = saved' /\ pc' = pc /\ live' \in BOOLEAN
        /\ (pc = Len(fn.body) => live')
        /\ UNCHANGED <<spills, grown, rets, depth>>
    BY <1>5 DEF StartReturn, At, processor
  <2>2. saved' \in Seq(CalleeSaved) /\ Len(saved') = Len(saved)
    BY <1>1, <2>1, ReversedSeq DEF Plain
  <2>3. Plain'
    BY <1>1, <1>4, <2>1, <2>2 DEF Plain, Phases
  <2>4. PhaseInv' /\ TodoInv'
    BY <1>1, <1>3, <2>1, <2>2 DEF PhaseInv, TodoInv, InCall, Current
  <2>5. Base' = Base /\ spills = Base /\ (NoAddressPushed => depth = Base)
    BY <1>2, <1>3, <2>1, <2>2 DEF Base, IInv, CountInv, DepthInv
  <2>6. CountInv'
    <3>1. spills' = Total + Padding(Total) + 8 * Len(todo')
      BY <2>1, <2>2, <2>5 DEF Base
    <3> QED BY <1>2, <1>3, <2>1, <2>5, <3>1 DEF CountInv, InCall
  <2>7. DepthInv'
    BY <1>2, <2>1, <2>5 DEF DepthInv, InCall
  <2> QED BY <2>3, <2>4, <2>6, <2>7 DEF Control
<1>6. CASE PopCallee
  <2>1. /\ Tail(todo) \in Seq(CalleeSaved) /\ Len(todo) \in Nat \ {0}
        /\ Len(Tail(todo)) = Len(todo) - 1
    BY <1>6, TodoFacts DEF PopCallee, IInv
  <2>2. /\ phase = "popping" /\ phase' = phase /\ todo' = Tail(todo) /\ spills' = spills - 8
        /\ depth' = IF live THEN depth - 8 ELSE depth
        /\ UNCHANGED <<pc, live, saved, mark, grown, rets>>
    BY <1>6 DEF PopCallee, PopInteger
  <2>3. /\ mark = Base /\ spills = Total + Padding(Total) + 8 * Len(todo)
        /\ (NoAddressPushed => depth = IF live THEN spills ELSE Base)
        /\ Len(todo) <= Len(saved)
    BY <2>2 DEF IInv, CountInv, DepthInv, TodoInv, InCall
  <2>4. spills' = Total + Padding(Total) + 8 * (Len(todo) - 1) /\ spills' \in Nat
    <3>1. Total \in Nat /\ Padding(Total) \in Nat
      BY <1>2, <1>3
    <3>2. \A t, p \in Nat, n \in Nat \ {0} :
            /\ t + p + 8 * n - 8 = t + p + 8 * (n - 1)
            /\ t + p + 8 * (n - 1) \in Nat
      OBVIOUS
    <3> QED BY <2>1, <2>2, <2>3, <3>1, <3>2
  <2>5. NoAddressPushed => depth' = IF live THEN spills' ELSE Base
    BY <1>4, <2>2, <2>3
  <2>6. Plain'
    BY <1>1, <2>2, <2>4 DEF Plain
  <2>7. PhaseInv' /\ TodoInv'
    <3>1. PhaseInv'
      BY <1>1, <2>2 DEF PhaseInv, InCall, Current, IInv
    <3>2. Len(Tail(todo)) <= Len(saved)
      BY <1>3, <2>1, <2>3
    <3>3. TodoInv'
      BY <2>1, <2>2, <3>2 DEF TodoInv
    <3> QED BY <3>1, <3>3
  <2>8. Base' = Base
    BY <1>2, <1>3, <2>2 DEF Base
  <2>9. CountInv' /\ DepthInv'
    BY <1>2, <1>3, <2>1, <2>2, <2>3, <2>4, <2>5, <2>8 DEF CountInv, DepthInv, InCall
  <2> QED BY <2>6, <2>7, <2>9 DEF Control
<1>7. CASE Leave
  <2>1. /\ phase = "popping" /\ todo = <<>>
        /\ phase' = (IF live THEN "returned" ELSE "body")
        /\ pc' = (IF live THEN pc ELSE pc + 1)
        /\ depth' = (IF live /\ spills > 0 THEN depth - spills ELSE depth)
        /\ spills' = mark /\ rets' = rets + 1
        /\ UNCHANGED <<live, saved, todo, mark, grown>>
    BY <1>7 DEF Leave
  <2>2. /\ mark = Base /\ (NoAddressPushed => depth = IF live THEN spills ELSE Base)
        /\ (pc = Len(fn.body) => live)
    BY <2>1 DEF IInv, CountInv, DepthInv, PhaseInv, InCall
  <2>3. pc' \in 1..Len(fn.body)
    BY <1>2, <2>1, <2>2
  <2>4. Plain'
    BY <1>1, <2>1, <2>3 DEF Plain, Phases
  <2>5. PhaseInv' /\ TodoInv'
    BY <1>1, <2>1 DEF PhaseInv, TodoInv, InCall, Current
  <2>6. Base' = Base
    BY <1>2, <1>3, <2>1 DEF Base
  <2>7. CountInv'
    BY <2>1, <2>2, <2>6 DEF CountInv, InCall
  <2>8. NoAddressPushed => depth' = IF live THEN 0 ELSE Base
    BY <1>4, <2>1, <2>2
  <2>9. DepthInv'
    BY <1>2, <2>1, <2>6, <2>8 DEF DepthInv, InCall
  <2> QED BY <2>4, <2>5, <2>7, <2>9 DEF Control
<1> QED BY <1>5, <1>6, <1>7

\* A step that changes nothing.
LEMMA StutterStep ==
  ASSUME IInv, UNCHANGED vars
  PROVE  Plain' /\ Control'
<1>1. /\ UNCHANGED <<fn, pc, phase, live, spills, saved, todo, mark, grown, rets, depth>>
      /\ Plain
  BY DEF vars, IInv, TypeOK, Plain
<1>2. /\ Current' = Current /\ Total' = Total /\ NoAddressPushed' = NoAddressPushed
  BY <1>1 DEF Current, Total, NoAddressPushed, Calls
<1>3. Plain' /\ PhaseInv' /\ TodoInv'
  BY <1>1, <1>2 DEF IInv, Plain, PhaseInv, TodoInv
<1>4. Base' = Base
  BY <1>1, <1>2 DEF Base, Padding
<1>5. CountInv' /\ DepthInv'
  BY <1>1, <1>2, <1>4 DEF IInv, CountInv, DepthInv, SavedBytes
<1> QED BY <1>3, <1>5 DEF Control

-----------------------------------------------------------------------------
\* The inductive invariant holds when the prologue begins (lines 85-91).
LEMMA InvInit ==
  ASSUME Init
  PROVE  IInv
<1>1. fn \in Functions /\ pc = 1 /\ Len(fn.body) \in Nat \ {0}
  BY FunctionFacts DEF Init
<1>2. TypeOK
  BY <1>1 DEF Init, TypeOK, Phases, ValueType
<1>3. PhaseInv /\ TodoInv
  BY DEF Init, PhaseInv, TodoInv, InCall
<1>4. CountInv /\ DepthInv
  BY DEF Init, CountInv, DepthInv, InCall
<1> QED BY <1>2, <1>3, <1>4 DEF IInv

\* Every step of the generator and the processor keeps it.
LEMMA InvStep ==
  ASSUME IInv, [Next]_vars
  PROVE  IInv'
<1>1. Plain' /\ Control'
  BY PrologueStep, UseStep, SavingStep, PassingStep, RestoringStep, EndCallStep, ReturnStep,
     StutterStep DEF Next, Returned
<1>2. fn' \in Functions
  BY SameFunction DEF IInv, TypeOK
<1>3. /\ position' \in Int /\ depth' \in Int
      /\ mem' \in [1..MaxDepth -> ValueType'] /\ value' \in [AllRegs -> ValueType']
  BY DataStep DEF IInv
<1>4. TypeOK'
  BY <1>1, <1>2, <1>3 DEF TypeOK, Plain
<1> QED BY <1>1, <1>4 DEF IInv, Control

THEOREM Invariance == Spec => []IInv
<1>1. Init => IInv
  BY InvInit
<1>2. IInv /\ [Next]_vars => IInv'
  BY InvStep
<1> QED BY <1>1, <1>2, PTL DEF Spec

\* Every variable has its type (code_generator.hpp:19-30).
THEOREM TypeCorrect == Spec => []TypeOK
<1>1. IInv => TypeOK
  BY DEF IInv
<1> QED BY <1>1, Invariance, PTL

(***************************************************************************)
(* Every call is made with rsp at a multiple of sixteen: m_spills is what  *)
(* rsp has moved, and m_spills was brought to a multiple of sixteen        *)
(* (code_generator.cpp:651-657).                                           *)
(***************************************************************************)
THEOREM CallsAreAligned == Spec => []AlignedAtCall
<1>1. IInv => AlignedAtCall
  BY DEF IInv, CountInv, DepthInv, AlignedAtCall, InCall
<1> QED BY <1>1, Invariance, PTL

(***************************************************************************)
(* Every return finds the return address: what m_spills says is on the     *)
(* stack is what the processor has there (code_generator.cpp:684-698).     *)
(***************************************************************************)
THEOREM ReturnsFindFrame == Spec => []ReturnFindsFrame
<1>1. IInv => ReturnFindsFrame
  BY DEF IInv, DepthInv, ReturnFindsFrame
<1> QED BY <1>1, Invariance, PTL

-----------------------------------------------------------------------------
\* In the memory m the n bytes that end at distance d hold v.
Holds(m, d, n, v) == \A k \in (d - n + 1)..d : k \in 1..MaxDepth /\ m[k] = v

\* The list of saved registers is the registers the function must save; a loop
\* over it has its end still to do.
ListInv ==
  /\ phase = "enter" => saved = <<>>
  /\ phase # "enter" =>
       /\ Len(saved) = Cardinality(fn.saved)
       /\ \A i \in 1..Len(saved) : saved[i] \in fn.saved
       /\ \A r \in fn.saved : \E i \in 1..Len(saved) : saved[i] = r
  /\ phase \in {"saving", "popping"} =>
       \A i \in 1..Len(todo) : todo[i] = saved[Len(saved) - Len(todo) + i]

\* Before the first return m_spillPosition differs from m_spills by the padding
\* of the slots, and by the gap of a call.
PositionInv ==
  rets = 0 =>
    /\ phase \in {"saving", "body", "save", "arguments", "restore", "popping"} =>
         position + Padding(Total) = spills
    /\ phase \in {"calling", "called"} => position + Padding(Total) = mark + grown.position
    /\ phase = "enter" => position = 0

\* What the registers hold.
ValueInv ==
  /\ phase \in {"enter", "saving"} => \A r \in AllRegs : value[r] = r
  /\ phase \in {"body", "save", "arguments", "calling", "popping"} => \A r \in CallerSaved : value[r] = r
  /\ \A r \in CalleeSaved \ (fn.saved \cup fn.scratch) : value[r] = r

\* The registers of a call that have been pushed are on the stack, those that
\* have been popped have their values.
Pushed == IF phase = "save" THEN Len(Current.saves) - Len(todo)
          ELSE IF phase = "restore" THEN Len(todo) ELSE Len(Current.saves)
SavesInv ==
  live /\ NoAddressPushed /\ (PositionExact \/ OnlyIntegers) /\ phase \in InCall =>
    /\ \A j \in 1..Pushed : Holds(mem, Base + SavedBytes(j), Bytes(Current.saves[j]), Current.saves[j])
    /\ phase = "restore" =>
         \A j \in (Len(todo) + 1)..Len(Current.saves) : value[Current.saves[j]] = Current.saves[j]

\* The slots hold their variables once these have been assigned.
SlotHolds(m, i) == Holds(m, SlotEnd(fn.slots)[i], fn.slots[i].size, fn.slots[i].var)
SlotsInv ==
  /\ phase = "enter" => ~Used
  /\ NoAddressPushed /\ fn.saved = {} /\ (rets = 0 \/ OnlyIntegers) /\ phase # "enter" =>
       \A i \in DOMAIN fn.slots : Used \/ i \in Params => SlotHolds(mem, i)

\* In a frame without slots the registers that have been saved are on the stack
\* until the first return pops them.
CalleeInv ==
  NoAddressPushed /\ fn.slots = <<>> =>
    /\ rets = 0 /\ phase = "saving" =>
         \A j \in 1..(Len(saved) - Len(todo)) : Holds(mem, 8 * j, 8, saved[j])
    /\ rets = 0 /\ phase \in InCall \cup {"body"} =>
         \A j \in 1..Len(saved) : Holds(mem, 8 * j, 8, saved[j])
    /\ rets = 0 /\ phase = "popping" =>
         /\ \A j \in 1..Len(todo) : Holds(mem, 8 * j, 8, saved[Len(saved) + 1 - j])
         /\ live => \A i \in 1..(Len(saved) - Len(todo)) : value[saved[i]] = saved[i]
    /\ rets = 1 /\ phase = "returned" => \A i \in 1..Len(saved) : value[saved[i]] = saved[i]

MInv == ListInv /\ PositionInv /\ ValueInv /\ SavesInv /\ SlotsInv /\ CalleeInv

-----------------------------------------------------------------------------
\* What holds v still does if the bytes have not changed, and is read as v.
LEMMA HoldsKept ==
  ASSUME NEW m, NEW n, NEW d, NEW size, NEW v, Holds(m, d, size, v),
         \A k \in 1..MaxDepth : k \in (d - size + 1)..d => n[k] = m[k]
  PROVE  Holds(n, d, size, v)
BY DEF Holds

LEMMA ReadHolds ==
  ASSUME TypeOK, NEW d \in Int, NEW n \in Nat \ {0}, NEW v, Holds(mem, d, n, v)
  PROVE  Read(d, n) = v
<1>1. d \in (d - n + 1)..d
  OBVIOUS
<1>2. DOMAIN mem = 1..MaxDepth
  BY DEF TypeOK
<1> QED BY <1>1, <1>2 DEF Holds, Read

\* The bytes of a fill.
LEMMA FillHolds ==
  ASSUME TypeOK, NEW a \in Nat, NEW n \in Nat \ {0}, NEW v, a + n <= MaxDepth
  PROVE  Holds(Fill(mem, a + 1, a + n, v), a + n, n, v)
<1>1. DOMAIN mem = 1..MaxDepth /\ MaxDepth \in Nat
  BY FrameAssumption DEF TypeOK
<1>2. ASSUME NEW k \in (a + n - n + 1)..(a + n)
      PROVE  k \in 1..MaxDepth /\ k \in (a + 1)..(a + n)
  BY <1>1, <1>2
<1> QED BY <1>1, <1>2 DEF Fill, Holds

\* The model keeps the whole frame of every function.
LEMMA Room ==
  ASSUME TypeOK
  PROVE  /\ Total \in Nat /\ Padding(Total) \in Nat /\ Cardinality(fn.saved) \in Nat
         /\ Total + Padding(Total) + 8 * Cardinality(fn.saved) <= MaxDepth
         /\ Current.kind = "call" =>
              Total + Padding(Total) + 8 * Cardinality(fn.saved) + 8 * Len(Current.saves) <= MaxDepth
<1>1. fn \in Functions /\ pc \in DOMAIN fn.body
  BY FunctionFacts DEF TypeOK
<1>2. Total \in Nat /\ Padding(Total) \in 0..15
  <2>1. Total \in Nat
    BY <1>1, FunctionFacts
  <2>2. Total % 16 \in 0..15
    BY <2>1
  <2> QED BY <2>1, <2>2 DEF Padding
<1>3. Cardinality(fn.saved) \in Nat
  BY <1>1, FunctionFacts, FrameAssumption, FS_Subset, FS_CardinalityType
<1>4. Total + 15 + 8 * Cardinality(fn.saved) <= MaxDepth
  BY <1>1, DepthAssumption DEF Total
<1>5. Current.kind = "call" =>
        Total + 15 + 8 * Cardinality(fn.saved) + 8 * Len(Current.saves) <= MaxDepth
  BY <1>1, DepthAssumption DEF Total, Current
<1>6. Current.kind = "call" => Len(Current.saves) \in Nat
  BY CallFacts
<1>7. MaxDepth \in Nat
  BY FrameAssumption
<1> DEFINE c == 8 * Cardinality(fn.saved)
           n == 8 * Len(Current.saves)
<1>8. c \in Nat /\ (Current.kind = "call" => n \in Nat)
  BY <1>3, <1>6
<1>9. /\ Total + 15 + c <= MaxDepth
      /\ Current.kind = "call" => Total + 15 + c + n <= MaxDepth
  BY <1>4, <1>5
<1> HIDE DEF c, n
<1>10. /\ Total + Padding(Total) + c <= MaxDepth
       /\ Current.kind = "call" => Total + Padding(Total) + c + n <= MaxDepth
  BY <1>2, <1>7, <1>8, <1>9
<1>11. Padding(Total) \in Nat
  BY <1>2
<1> QED BY <1>2, <1>3, <1>10, <1>11 DEF c, n

LEMMA SavedBytesOrder ==
  ASSUME TypeOK, Current.kind = "call"
  PROVE  \A j \in 0..Len(Current.saves) :
           /\ SavedBytes(j) \in Nat /\ SavedBytes(j) <= 8 * j
           /\ \A i \in 0..j : SavedBytes(i) <= SavedBytes(j)
<1> DEFINE s == Current.saves
           w == Widths(s)
<1>1. s \in Seq(IntRegs \cup FloatRegs)
  BY CallFacts
<1>2. \A i \in 1..Len(s) : Bytes(s[i]) \in Nat /\ Bytes(s[i]) <= 8
  BY <1>1, FrameAssumption DEF Bytes
<1>3. w \in Seq(Nat) /\ Len(w) = Len(s) /\ \A i \in 1..Len(s) : w[i] = Bytes(s[i])
  BY <1>1, <1>2 DEF Widths
<1>4. IsSums(Sums(w), w)
  BY <1>3, SumsExist
<1>5. \A i \in 1..Len(w) : w[i] <= 8
  BY <1>2, <1>3
<1> SUFFICES ASSUME NEW j \in 0..Len(s)
             PROVE  /\ Sums(w)[j] \in Nat /\ Sums(w)[j] <= 8 * j
                    /\ \A i \in 0..j : Sums(w)[i] <= Sums(w)[j]
  BY DEF SavedBytes
<1>6. Sums(w)[j] \in Nat
  BY <1>3, <1>4 DEF IsSums
<1>7. j \in 0..Len(w) /\ \A i \in 0..j : i \in 0..Len(w) /\ i <= j
  BY <1>1, <1>3
<1> HIDE DEF w
<1>8. Sums(w)[j] <= 8 * j
  BY <1>3, <1>4, <1>5, <1>7, SumsBounded
<1>9. \A i \in 0..j : Sums(w)[i] <= Sums(w)[j]
  BY <1>3, <1>4, <1>7, SumsOrdered
<1> QED BY <1>6, <1>8, <1>9

\* In a function that saves and passes only integers, so does this call.
LEMMA CallKinds ==
  ASSUME TypeOK, PhaseInv, TodoInv, OnlyIntegers, todo # <<>>
  PROVE  /\ phase \in {"save", "restore"} => Head(todo) \notin FloatRegs
         /\ phase = "arguments" => Head(todo).kind = "integer"
<1>1. phase \in InCall => pc \in Calls
  <2>1. phase \in InCall => Current.kind = "call"
    BY DEF PhaseInv
  <2>2. pc \in DOMAIN fn.body
    BY FunctionFacts DEF TypeOK
  <2> QED BY <2>1, <2>2 DEF Calls, Current
<1>2. phase \in InCall =>
        /\ \A i \in DOMAIN Current.saves : Current.saves[i] \notin FloatRegs
        /\ \A i \in DOMAIN Current.args : Current.args[i].kind = "integer"
  BY <1>1, RegisterAssumption DEF OnlyIntegers, Current
<1>3. phase \in {"save", "restore", "arguments"} => Head(todo) = todo[1] /\ Len(todo) \in Nat \ {0}
  BY TodoFacts
<1>4. phase \in InCall =>
        /\ Len(Current.saves) \in Nat /\ DOMAIN Current.saves = 1..Len(Current.saves)
  BY CallFacts DEF PhaseInv
<1>5. CASE phase = "save"
  <2>1. /\ todo[1] = Current.saves[Len(Current.saves) - Len(todo) + 1]
        /\ Len(Current.saves) - Len(todo) + 1 \in 1..Len(Current.saves)
    <3>1. Len(todo) <= Len(Current.saves) /\ 1 \in 1..Len(todo)
      BY <1>3, <1>5 DEF TodoInv
    <3> QED BY <1>3, <1>4, <1>5, <3>1 DEF TodoInv, InCall
  <2> QED BY <1>2, <1>3, <1>4, <1>5, <2>1 DEF InCall
<1>6. CASE phase = "restore"
  <2>1. todo[1] = Current.saves[Len(todo) + 1 - 1] /\ Len(todo) + 1 - 1 \in 1..Len(Current.saves)
    <3>1. Len(todo) <= Len(Current.saves) /\ 1 \in 1..Len(todo)
      BY <1>3, <1>6 DEF TodoInv
    <3> QED BY <1>3, <1>4, <1>6, <3>1 DEF TodoInv, InCall
  <2> QED BY <1>2, <1>3, <1>4, <1>6, <2>1 DEF InCall
<1>7. CASE phase = "arguments"
  <2>1. \E j \in DOMAIN Current.args : todo[1] = Current.args[j]
    <3>1. 1 \in 1..Len(todo)
      BY <1>3, <1>7
    <3> QED BY <1>7, <3>1 DEF TodoInv
  <2> QED BY <1>2, <1>3, <1>7, <2>1 DEF InCall
<1> QED BY <1>5, <1>6, <1>7

-----------------------------------------------------------------------------
\* The steps other than those of the two loops over the saved registers.
Others ==
  \/ Use \/ StartCall \/ SaveCaller \/ StartArguments \/ PushArgument \/ Align \/ Call
  \/ Release \/ RestoreCaller \/ EndCall \/ Leave

LEMMA NextCases ==
  ASSUME [Next]_vars
  PROVE  Layout \/ SaveCallee \/ Reserve \/ Others \/ StartReturn \/ PopCallee \/ UNCHANGED vars
BY DEF Next, Others, Returned

LEMMA OthersFrame ==
  ASSUME Others
  PROVE  /\ UNCHANGED <<fn, saved>>
         /\ phase \notin {"enter", "saving", "returned"}
         /\ phase' \notin {"enter", "saving", "popping"}
BY DEF Others, Use, StartCall, SaveCaller, StartArguments, PushArgument, Align, Call, Release,
       RestoreCaller, EndCall, Leave, At

LEMMA ListStep ==
  ASSUME IInv, ListInv, [Next]_vars
  PROVE  ListInv'
<1>1. fn' = fn /\ fn \in Functions /\ saved \in Seq(CalleeSaved)
  BY SameFunction DEF IInv, TypeOK
<1>2. fn.saved \in SUBSET CalleeSaved /\ Cardinality(fn.saved) \in Nat
  BY <1>1, FunctionFacts, FrameAssumption, FS_Subset, FS_CardinalityType
<1>3. CASE Layout
  <2>1. /\ saved' \in Orders(fn.saved) /\ todo' = saved' /\ phase' = "saving"
    BY <1>3 DEF Layout
  <2>2. /\ saved' \in [1..Cardinality(fn.saved) -> fn.saved]
        /\ \A r \in fn.saved : \E i \in DOMAIN saved' : saved'[i] = r
    BY <2>1 DEF Orders
  <2>3. saved' \in Seq(CalleeSaved)
    BY <1>2, <2>1, OrdersSeq
  <2>4. Len(saved') = Cardinality(fn.saved) /\ DOMAIN saved' = 1..Len(saved')
    BY <1>2, <2>2, <2>3
  <2>5. \A i \in 1..Len(todo') : Len(saved') - Len(todo') + i = i
    BY <1>2, <2>1, <2>4
  <2> QED BY <1>1, <2>1, <2>2, <2>4, <2>5 DEF ListInv
<1>4. CASE SaveCallee \/ PopCallee
  <2>1. /\ todo' = Tail(todo) /\ phase \in {"saving", "popping"} /\ phase' = phase /\ saved' = saved
    BY <1>4 DEF SaveCallee, PopCallee
  <2>2. /\ Len(todo) \in Nat \ {0} /\ Len(Tail(todo)) = Len(todo) - 1
        /\ \A i \in 1..(Len(todo) - 1) : Tail(todo)[i] = todo[i + 1]
    BY <1>4, TodoFacts DEF SaveCallee, PopCallee, IInv
  <2>3. \A i \in 1..Len(todo) : todo[i] = saved[Len(saved) - Len(todo) + i]
    BY <2>1 DEF ListInv
  <2>4. \A i \in 1..(Len(todo) - 1) : Tail(todo)[i] = saved[Len(saved) - (Len(todo) - 1) + i]
    <3> SUFFICES ASSUME NEW i \in 1..(Len(todo) - 1)
                 PROVE  Tail(todo)[i] = saved[Len(saved) - (Len(todo) - 1) + i]
      OBVIOUS
    <3>1. Len(saved) \in Nat
      BY <1>1
    <3> DEFINE n == Len(saved)
               m == Len(todo)
    <3>2. n \in Nat /\ m \in Nat \ {0} /\ i \in 1..(m - 1)
      BY <2>2, <3>1
    <3> HIDE DEF n, m
    <3>3. i + 1 \in 1..m /\ n - m + (i + 1) = n - (m - 1) + i
      BY <3>2
    <3> QED BY <2>2, <2>3, <3>3 DEF n, m
  <2> QED BY <1>1, <2>1, <2>2, <2>4 DEF ListInv
<1>5. CASE StartReturn
  <2>1. /\ saved' = Reversed(saved) /\ todo' = saved' /\ phase = "body" /\ phase' = "popping"
    BY <1>5 DEF StartReturn, At
  <2>2. /\ saved' \in Seq(CalleeSaved) /\ Len(saved') = Len(saved)
        /\ \A i \in 1..Len(saved) : saved'[i] = saved[Len(saved) + 1 - i]
    BY <1>1, <2>1, ReversedSeq
  <2> DEFINE n == Len(saved)
  <2>3. /\ n \in Nat /\ n = Cardinality(fn.saved)
        /\ \A i \in 1..n : saved[i] \in fn.saved
        /\ \A r \in fn.saved : \E i \in 1..n : saved[i] = r
    BY <1>1, <2>1 DEF ListInv
  <2>4. /\ Len(saved') = n /\ \A i \in 1..n : saved'[i] = saved[n + 1 - i]
    BY <2>2
  <2> HIDE DEF n
  <2>5. \A i \in 1..n : n + 1 - i \in 1..n /\ n + 1 - (n + 1 - i) = i /\ n - n + i = i
    BY <2>3
  <2>6. \A r \in fn.saved : \E i \in 1..n : saved'[i] = r
    <3> SUFFICES ASSUME NEW r \in fn.saved PROVE \E i \in 1..n : saved'[i] = r
      OBVIOUS
    <3>1. PICK i \in 1..n : saved[i] = r
      BY <2>3
    <3>2. saved'[n + 1 - i] = r
      BY <2>4, <2>5, <3>1
    <3> QED BY <2>5, <3>2
  <2>7. \A i \in 1..n : saved'[i] \in fn.saved
    BY <2>3, <2>4, <2>5
  <2>8. \A i \in 1..Len(todo') : todo'[i] = saved'[Len(saved') - Len(todo') + i]
    BY <2>1, <2>4, <2>5
  <2> QED BY <1>1, <2>1, <2>3, <2>4, <2>6, <2>7, <2>8 DEF ListInv
<1>6. CASE Reserve
  <2>1. phase = "saving" /\ phase' = "body" /\ saved' = saved
    BY <1>6 DEF Reserve
  <2> QED BY <1>1, <2>1 DEF ListInv
<1>7. CASE Others
  BY <1>1, <1>7, OthersFrame DEF ListInv
<1>8. CASE UNCHANGED vars
  BY <1>8 DEF vars, ListInv
<1> QED BY <1>3, <1>4, <1>5, <1>6, <1>7, <1>8, NextCases

\* Where m_spillPosition stands.
LEMMA PositionStep ==
  ASSUME IInv, PositionInv, [Next]_vars
  PROVE  PositionInv'
<1>1. fn' = fn /\ Total' = Total /\ Padding(Total)' = Padding(Total)
  BY SameFunction DEF Total, Padding
<1>2. /\ Total \in Nat /\ Padding(Total) \in Nat /\ spills \in Nat /\ mark \in Nat
      /\ position \in Int /\ rets \in Nat /\ grown \in [position : Nat, spills : Nat]
  <2>1. Total \in Nat /\ Padding(Total) \in Nat
    BY Room DEF IInv
  <2> QED BY <2>1 DEF IInv, TypeOK
<1>3. CASE Layout
  BY <1>1, <1>2, <1>3 DEF Layout, PositionInv, FramePosition
<1>4. CASE SaveCallee \/ PopCallee \/ RestoreCaller
  <2>1. /\ phase \in {"saving", "popping", "restore"} /\ phase' = phase /\ rets' = rets
    BY <1>4 DEF SaveCallee, PopCallee, RestoreCaller
  <2>2. \E n \in Int : spills' = spills + n /\ position' = position + n
    <3>1. CASE SaveCallee
      BY <3>1 DEF SaveCallee, PushInteger
    <3>2. CASE PopCallee
      <4>1. spills' = spills + (-8) /\ position' = position + (-8)
        BY <1>2, <3>2 DEF PopCallee, PopInteger
      <4> QED BY <4>1
    <3>3. CASE RestoreCaller /\ Head(todo) \in FloatRegs
      <4>1. FloatSize[Head(todo)] \in Int
        BY <3>3, FrameAssumption
      <4>2. /\ spills' = spills + (-FloatSize[Head(todo)])
            /\ position' = position + (-FloatSize[Head(todo)])
        BY <1>2, <3>3, <4>1 DEF RestoreCaller, PopFloat
      <4> QED BY <4>1, <4>2
    <3>4. CASE RestoreCaller /\ Head(todo) \notin FloatRegs
      <4>1. spills' = spills + (-8) /\ position' = position + (-8)
        BY <1>2, <3>4 DEF RestoreCaller, PopInteger
      <4> QED BY <4>1
    <3> QED BY <1>4, <3>1, <3>2, <3>3, <3>4
  <2> QED BY <1>1, <1>2, <2>1, <2>2 DEF PositionInv
<1>5. CASE SaveCaller \/ PushArgument
  <2>1. /\ phase \in {"save", "arguments"} /\ phase' = phase /\ rets' = rets
    BY <1>5 DEF SaveCaller, PushArgument
  <2>2. \E n \in Int : spills' = spills + n /\ position' = position + n
    <3>1. CASE SaveCaller
      <4>1. Head(todo) \in FloatRegs => FloatSize[Head(todo)] \in Int
        BY FrameAssumption
      <4> QED BY <3>1, <4>1 DEF SaveCaller, PushInteger, PushBytes
    <3>2. CASE PushArgument
      <4>1. Head(todo) \in Argument
        BY <3>2, TodoFacts DEF PushArgument, IInv
      <4>2. CASE Head(todo).kind = "integer"
        BY <3>2, <4>2 DEF PushArgument, PushInteger
      <4>3. CASE Head(todo).kind = "address"
        <5>1. spills' = spills + 0 /\ position' = position + 0
          BY <1>2, <3>2, <4>3 DEF PushArgument, PushAddress, generator
        <5> QED BY <5>1
      <4>4. CASE Head(todo).kind \notin {"integer", "address"}
        <5>1. Head(todo).size \in Int
          BY <4>1, <4>4 DEF Argument
        <5> QED BY <3>2, <4>4, <5>1 DEF PushArgument, PushBytes
      <4> QED BY <4>2, <4>3, <4>4
    <3> QED BY <1>5, <3>1, <3>2
  <2> QED BY <1>1, <1>2, <2>1, <2>2 DEF PositionInv
<1>6. CASE Reserve \/ Use \/ StartCall \/ StartArguments \/ EndCall \/ StartReturn
  <2>1. /\ phase \in {"saving", "body", "save", "restore"}
        /\ phase' \in {"body", "save", "arguments", "popping"}
        /\ UNCHANGED <<spills, position, rets>>
    BY <1>6 DEF Reserve, Use, StartCall, StartArguments, EndCall, StartReturn, At
  <2> QED BY <1>1, <2>1 DEF PositionInv
<1>7. CASE Align
  <2>1. /\ phase = "arguments" /\ phase' = "calling" /\ UNCHANGED <<position, rets, mark>>
        /\ grown'.position = spills - mark
    BY <1>7 DEF Align
  <2> QED BY <1>1, <1>2, <2>1 DEF PositionInv
<1>8. CASE Call
  BY <1>1, <1>8 DEF Call, PositionInv
<1>9. CASE Release
  <2>1. /\ phase = "called" /\ phase' = "restore" /\ rets' = rets
        /\ spills' = spills - grown.spills /\ position' = position - grown.position
    BY <1>9 DEF Release
  <2>2. spills = mark + grown.spills
    BY <2>1 DEF IInv, CountInv
  <2>3. spills' = mark
    BY <1>2, <2>1, <2>2
  <2> QED BY <1>1, <1>2, <2>1, <2>3 DEF PositionInv
<1>10. CASE Leave
  <2>1. rets' = rets + 1
    BY <1>10 DEF Leave
  <2> QED BY <1>2, <2>1 DEF PositionInv
<1>11. CASE Returned \/ UNCHANGED vars
  BY <1>1, <1>11 DEF Returned, vars, PositionInv
<1> QED BY <1>3, <1>4, <1>5, <1>6, <1>7, <1>8, <1>9, <1>10, <1>11 DEF Next

\* What the registers hold.
LEMMA ValueStep ==
  ASSUME IInv, ListInv, ValueInv, [Next]_vars
  PROVE  ValueInv'
<1>1. /\ fn' = fn /\ fn \in Functions
      /\ fn.saved \in SUBSET CalleeSaved /\ fn.scratch \in SUBSET CalleeSaved
  BY SameFunction, FunctionFacts DEF IInv, TypeOK
<1>2. /\ value \in [AllRegs -> ValueType] /\ CallerSaved \subseteq AllRegs
      /\ CalleeSaved \subseteq AllRegs /\ CallerSaved \cap CalleeSaved = {}
  BY RegisterAssumption DEF IInv, TypeOK, AllRegs, CallerSaved
<1>3. CASE Layout \/ SaveCallee \/ Reserve
  <2>1. /\ phase \in {"enter", "saving"} /\ phase' \in {"saving", "body"} /\ value' = value
    BY <1>3 DEF Layout, SaveCallee, Reserve
  <2> QED BY <1>1, <1>2, <2>1 DEF ValueInv
<1>4. CASE Use
  <2>1. /\ phase' = "body"
        /\ value' = [r \in AllRegs |-> IF r \in fn.saved \cup fn.scratch THEN Garbage
                                       ELSE IF r \in CallerSaved THEN r ELSE value[r]]
    BY <1>4 DEF Use, At
  <2> QED BY <1>1, <1>2, <2>1 DEF ValueInv
<1>5. CASE StartCall \/ SaveCaller \/ StartArguments \/ PushArgument \/ Align \/ StartReturn \/ Leave
  <2>1. /\ phase \in {"body", "save", "arguments", "popping"}
        /\ phase' \in {"save", "arguments", "calling", "popping", "body", "returned"}
        /\ value' = value
    BY <1>5 DEF StartCall, SaveCaller, StartArguments, PushArgument, Align, StartReturn, Leave,
                At, processor
  <2> QED BY <1>1, <2>1 DEF ValueInv
<1>6. CASE Call
  <2>1. /\ phase' = "called"
        /\ \A r \in CalleeSaved \ fn.scratch : value'[r] = value[r]
    BY <1>2, <1>6 DEF Call
  <2> QED BY <1>1, <2>1 DEF ValueInv
<1>7. CASE Release \/ Returned \/ UNCHANGED vars
  <2>1. value' = value /\ (phase' = phase \/ phase' = "restore")
    BY <1>7 DEF Release, Returned, vars
  <2> QED BY <1>1, <2>1 DEF ValueInv
<1>8. CASE RestoreCaller
  <2>1. Head(todo) \in CallerSaved
    BY <1>8, TodoFacts DEF RestoreCaller, IInv, CallerSaved
  <2>2. /\ phase' = "restore" /\ \A r \in AllRegs \ {Head(todo)} : value'[r] = value[r]
    BY <1>2, <1>8 DEF RestoreCaller, PopInteger, PopFloat
  <2> QED BY <1>1, <1>2, <2>1, <2>2 DEF ValueInv
<1>9. CASE EndCall
  BY <1>1, <1>2, <1>9 DEF EndCall, ValueInv
<1>10. CASE PopCallee
  <2>1. phase = "popping" /\ phase' = phase
    BY <1>10 DEF PopCallee
  <2>2. Head(todo) \in fn.saved
    <3>1. /\ Head(todo) = todo[1] /\ Len(todo) \in Nat \ {0} /\ Len(todo) <= Len(saved)
          /\ Len(saved) \in Nat
      BY <1>10, TodoFacts DEF PopCallee, IInv, TodoInv, TypeOK
    <3>2. 1 \in 1..Len(todo) /\ Len(saved) - Len(todo) + 1 \in 1..Len(saved)
      BY <3>1
    <3> QED BY <2>1, <3>1, <3>2 DEF ListInv
  <2>3. \A r \in AllRegs \ {Head(todo)} : value'[r] = value[r]
    BY <1>2, <1>10 DEF PopCallee, PopInteger
  <2> QED BY <1>1, <1>2, <2>1, <2>2, <2>3 DEF ValueInv
<1> QED BY <1>3, <1>4, <1>5, <1>6, <1>7, <1>8, <1>9, <1>10 DEF Next

-----------------------------------------------------------------------------
\* On the path the processor takes, rsp is where m_spills says, which is never
\* above the frame; beside a call m_spillPosition differs by the padding.
LEMMA Levels ==
  ASSUME IInv, ListInv, PositionInv, live, NoAddressPushed
  PROVE  /\ Base \in Nat
         /\ phase # "enter" => Base = Total + Padding(Total) + 8 * Cardinality(fn.saved)
         /\ phase = "saving" => depth = 8 * (Len(saved) - Len(todo))
         /\ phase = "popping" => depth = Total + Padding(Total) + 8 * Len(todo)
         /\ phase \in InCall =>
              /\ Current.kind = "call" /\ Pushed \in 0..Len(Current.saves)
              /\ depth >= Base + SavedBytes(Pushed)
              /\ rets = 0 => position + Padding(Total) >= Base + SavedBytes(Pushed)
         /\ phase \in {"save", "restore"} =>
              /\ depth = Base + SavedBytes(Pushed)
              /\ rets = 0 => position + Padding(Total) = depth
<1>1. Total \in Nat /\ Padding(Total) \in Nat /\ Len(saved) \in Nat /\ Cardinality(fn.saved) \in Nat
  BY Room DEF IInv, TypeOK
<1>2. /\ spills \in Nat /\ mark \in Nat /\ position \in Int /\ grown \in [position : Nat, spills : Nat]
  BY DEF IInv, TypeOK
<1>3. Base \in Nat /\ (phase # "enter" => Base = Total + Padding(Total) + 8 * Cardinality(fn.saved))
  <2>1. phase # "enter" => Len(saved) = Cardinality(fn.saved)
    BY DEF ListInv
  <2>2. Base \in Nat
    BY <1>1 DEF Base
  <2> QED BY <2>1, <2>2 DEF Base
<1>4. phase \in InCall \cup {"popping"} => depth = spills
  BY DEF IInv, DepthInv
<1>5. phase \in InCall => Current.kind = "call" /\ Pushed \in 0..Len(Current.saves)
  <2>1. phase \in InCall => Current.kind = "call" /\ Len(Current.saves) \in Nat
    BY CallFacts DEF IInv, PhaseInv
  <2>2. phase \in {"save", "restore"} => Len(todo) \in Nat /\ Len(todo) <= Len(Current.saves)
    BY DEF IInv, TodoInv
  <2> QED BY <2>1, <2>2 DEF Pushed, InCall
<1>6. phase \in InCall => SavedBytes(Pushed) \in Nat
  BY <1>5, SavedBytesOrder DEF IInv
<1>7. phase \in {"save", "restore"} => spills = Base + SavedBytes(Pushed)
  BY DEF IInv, CountInv, Pushed
<1>8. phase \in {"arguments", "calling", "called"} =>
        spills >= mark /\ mark = Base + SavedBytes(Pushed)
  BY DEF IInv, CountInv, Pushed
<1>9. phase \in InCall => spills >= Base + SavedBytes(Pushed)
  <2> DEFINE level == Base + SavedBytes(Pushed)
  <2>1. phase \in InCall => level \in Nat
    BY <1>3, <1>6
  <2> HIDE DEF level
  <2>2. phase \in InCall => spills >= level
    BY <1>2, <1>7, <1>8, <2>1 DEF level, InCall
  <2> QED BY <2>2 DEF level
<1>10. rets = 0 /\ phase \in InCall => position + Padding(Total) >= Base + SavedBytes(Pushed)
  <2> DEFINE level == Base + SavedBytes(Pushed)
  <2>1. phase \in InCall => level \in Nat
    BY <1>3, <1>6
  <2>2. rets = 0 /\ phase \in {"save", "arguments", "restore"} => position + Padding(Total) = spills
    BY DEF PositionInv
  <2>3. rets = 0 /\ phase \in {"calling", "called"} => position + Padding(Total) = level + grown.position
    BY <1>8 DEF PositionInv
  <2>4. phase \in InCall => spills >= level
    BY <1>9
  <2> HIDE DEF level
  <2>5. rets = 0 /\ phase \in InCall => position + Padding(Total) >= level
    BY <1>1, <1>2, <2>1, <2>2, <2>3, <2>4 DEF InCall
  <2> QED BY <2>5 DEF level
<1>11. rets = 0 /\ phase \in {"save", "restore"} => position + Padding(Total) = spills
  BY DEF PositionInv
<1>12. /\ phase = "saving" => depth = 8 * (Len(saved) - Len(todo))
       /\ phase = "popping" => depth = Total + Padding(Total) + 8 * Len(todo)
  BY <1>4 DEF IInv, CountInv, DepthInv
<1>13. phase \in {"save", "restore"} => phase \in InCall
  BY DEF InCall
<1> QED BY <1>3, <1>4, <1>5, <1>7, <1>9, <1>10, <1>11, <1>12, <1>13

\* What the steps other than the assignments to slots leave alone: on the path
\* the processor takes, everything between rbp and both positions.
LEMMA MemStep ==
  ASSUME IInv, [Next]_vars, ~Layout, ~Use, NEW k \in 1..MaxDepth,
         live => k <= depth /\ (OnlyIntegers \/ k <= position)
  PROVE  mem'[k] = mem[k]
<1>1. /\ mem \in [1..MaxDepth -> ValueType] /\ depth \in Int /\ position \in Int /\ k \in Int
  BY DEF IInv, TypeOK
<1>2. ASSUME NEW v, PushInteger(v) \/ PushAddress(v)
      PROVE  mem'[k] = mem[k]
  <2>1. CASE live
    <3>1. mem' = Fill(mem, depth + 1, depth + 8, v) /\ k <= depth
      BY <1>2, <2>1 DEF PushInteger, PushAddress
    <3>2. k \notin (depth + 1)..(depth + 8)
      BY <1>1, <3>1
    <3> QED BY <1>1, <3>1, <3>2 DEF Fill
  <2>2. CASE ~live
    BY <1>2, <2>2 DEF PushInteger, PushAddress
  <2> QED BY <2>1, <2>2
<1>3. ASSUME NEW v, NEW n \in Int, PushBytes(v, n), ~OnlyIntegers
      PROVE  mem'[k] = mem[k]
  <2>1. CASE live
    <3>1. mem' = Fill(mem, position + 1, position + n, v) /\ k <= position
      BY <1>3, <2>1 DEF PushBytes
    <3>2. k \notin (position + 1)..(position + n)
      BY <1>1, <3>1
    <3> QED BY <1>1, <3>1, <3>2 DEF Fill
  <2>2. CASE ~live
    BY <1>3, <2>2 DEF PushBytes
  <2> QED BY <2>1, <2>2
<1>4. CASE SaveCallee
  BY <1>2, <1>4 DEF SaveCallee
<1>5. CASE SaveCaller
  <2>1. OnlyIntegers => Head(todo) \notin FloatRegs
    BY <1>5, CallKinds DEF SaveCaller, IInv
  <2>2. Head(todo) \in FloatRegs => FloatSize[Head(todo)] \in Int
    BY FrameAssumption
  <2> QED BY <1>2, <1>3, <1>5, <2>1, <2>2 DEF SaveCaller
<1>6. CASE PushArgument
  <2>1. OnlyIntegers => Head(todo).kind = "integer"
    BY <1>6, CallKinds DEF PushArgument, IInv
  <2>2. Head(todo) \in Argument
    BY <1>6, TodoFacts DEF PushArgument, IInv
  <2>3. CASE Head(todo).kind \in {"integer", "address"}
    BY <1>2, <1>6, <2>3 DEF PushArgument
  <2>4. CASE Head(todo).kind \notin {"integer", "address"}
    <3>1. Head(todo).size \in Int
      BY <2>2, <2>4 DEF Argument
    <3> QED BY <1>3, <1>6, <2>1, <2>4, <3>1 DEF PushArgument
  <2> QED BY <2>3, <2>4
<1>7. CASE Call
  <2>1. CASE live
    <3>1. mem' = [i \in DOMAIN mem |-> IF i > depth THEN Garbage ELSE mem[i]] /\ k <= depth
      BY <1>7, <2>1 DEF Call
    <3>2. ~(k > depth)
      BY <1>1, <3>1
    <3> QED BY <1>1, <3>1, <3>2
  <2>2. CASE ~live
    BY <1>7, <2>2 DEF Call
  <2> QED BY <2>1, <2>2
<1>8. CASE \/ Reserve \/ StartCall \/ StartArguments \/ Align \/ Release \/ RestoreCaller \/ EndCall
           \/ StartReturn \/ PopCallee \/ Leave \/ Returned \/ UNCHANGED vars
  BY <1>8 DEF Reserve, StartCall, StartArguments, Align, Release, RestoreCaller, EndCall,
              StartReturn, PopCallee, Leave, Returned, vars, processor
<1> QED BY <1>4, <1>5, <1>6, <1>7, <1>8 DEF Next

\* What a call has pushed is on the stack until it has been popped.
LEMMA SavesStep ==
  ASSUME IInv, ListInv, PositionInv, ValueInv, SavesInv, [Next]_vars
  PROVE  SavesInv'
<1> DEFINE saves == Current.saves
           n == Len(Current.saves)
           B == Sums(Widths(Current.saves))
           R(m, j) == Holds(m, Base + B[j], Bytes(saves[j]), saves[j])
<1>1. fn' = fn /\ Total' = Total /\ OnlyIntegers' = OnlyIntegers /\ NoAddressPushed' = NoAddressPushed
  BY SameFunction DEF Total, OnlyIntegers, NoAddressPushed, Calls
<1> SUFFICES ASSUME live', NoAddressPushed, PositionExact' \/ OnlyIntegers, phase' \in InCall
             PROVE  SavesInv'
  BY <1>1 DEF SavesInv
<1>2. CASE StartCall
  <2>1. phase' = "save" /\ pc' = pc /\ todo' = saves /\ Current.kind = "call"
    BY <1>2 DEF StartCall, At
  <2>2. Current' = Current /\ n \in Nat
    BY <1>1, <2>1, CallFacts DEF IInv, Current
  <2>3. Pushed' = 0
    BY <2>1, <2>2 DEF Pushed
  <2> QED BY <2>1, <2>3 DEF SavesInv
<1>3. CASE ~StartCall
  <2>1. /\ SaveCaller \/ StartArguments \/ PushArgument \/ Align \/ Call \/ Release \/ RestoreCaller
             \/ UNCHANGED vars
        /\ phase \in InCall
        /\ UNCHANGED <<pc, live, saved, rets>>
    <3>1. \/ SaveCaller \/ StartArguments \/ PushArgument \/ Align \/ Call \/ Release \/ RestoreCaller
          \/ UNCHANGED vars
      BY <1>3 DEF Next, Layout, SaveCallee, Reserve, Use, EndCall, StartReturn, PopCallee, Leave,
                  Returned, InCall, At
    <3> QED BY <3>1 DEF SaveCaller, StartArguments, PushArgument, Align, Call, Release,
                        RestoreCaller, vars, InCall
  <2>2. Current' = Current /\ Padding(Total)' = Padding(Total) /\ Base' = Base /\ PositionExact' = PositionExact
    BY <1>1, <2>1 DEF Current, Padding, Base, PositionExact
  <2>3. /\ live /\ (PositionExact \/ OnlyIntegers)
        /\ \A j \in 1..Pushed : R(mem, j)
        /\ phase = "restore" => \A j \in (Len(todo) + 1)..n : value[saves[j]] = saves[j]
    BY <2>1, <2>2 DEF SavesInv, SavedBytes
  <2> SUFFICES /\ \A j \in 1..Pushed' : R(mem', j)
               /\ phase' = "restore" => \A j \in (Len(todo') + 1)..n : value'[saves[j]] = saves[j]
    BY <2>2 DEF SavesInv, SavedBytes
  <2>4. /\ Base \in Nat /\ Current.kind = "call" /\ Pushed \in 0..n
        /\ Base = Total + Padding(Total) + 8 * Cardinality(fn.saved)
        /\ depth >= Base + B[Pushed]
        /\ rets = 0 => position + Padding(Total) >= Base + B[Pushed]
        /\ phase \in {"save", "restore"} =>
              depth = Base + B[Pushed] /\ (rets = 0 => position + Padding(Total) = depth)
    <3>1. phase # "enter"
      BY <2>1 DEF InCall
    <3> QED BY <2>1, <2>3, <3>1, Levels DEF SavedBytes
  <2>5. /\ saves \in Seq(IntRegs \cup FloatRegs) /\ n \in Nat
        /\ \A j \in 0..n : B[j] \in Nat /\ B[j] <= 8 * j /\ \A i \in 0..j : B[i] <= B[j]
        /\ \A j \in 1..n : B[j] = B[j - 1] + Bytes(saves[j])
        /\ \A j \in 1..n : Bytes(saves[j]) \in Nat \ {0}
        /\ Base + 8 * n <= MaxDepth
    <3>1. saves \in Seq(IntRegs \cup FloatRegs) /\ n \in Nat
      BY <2>4, CallFacts DEF IInv
    <3>2. \A j \in 0..n : B[j] \in Nat /\ B[j] <= 8 * j /\ \A i \in 0..j : B[i] <= B[j]
      BY <2>4, SavedBytesOrder DEF SavedBytes, IInv
    <3>3. \A j \in 1..n : B[j] = B[j - 1] + Bytes(saves[j])
      BY <2>4, SavedBytesStep DEF SavedBytes, IInv
    <3>4. \A j \in 1..n : Bytes(saves[j]) \in Nat \ {0}
      BY <3>1, FrameAssumption DEF Bytes
    <3>5. Base + 8 * n <= MaxDepth
      BY <2>4, Room DEF IInv
    <3> QED BY <3>1, <3>2, <3>3, <3>4, <3>5
  <2>6. PositionExact => Padding(Total) = 0 /\ rets = 0
    BY DEF PositionExact, Padding
  <2>7. depth \in Int /\ position \in Int /\ MaxDepth \in Nat /\ value \in [AllRegs -> ValueType]
    BY FrameAssumption DEF IInv, TypeOK
  <2>8. \A j \in 1..Pushed : R(mem', j)
    <3> SUFFICES ASSUME NEW j \in 1..Pushed PROVE R(mem', j)
      OBVIOUS
    <3>1. /\ Base + B[j] \in Nat /\ B[j] <= B[Pushed] /\ Bytes(saves[j]) \in Nat \ {0}
          /\ B[Pushed] \in Nat /\ B[j] \in Nat
      <4>1. j \in 0..n /\ j \in 1..n /\ Pushed \in 0..n /\ j \in 0..Pushed
        BY <2>4, <2>5
      <4>2. Base \in Nat /\ B[j] \in Nat /\ B[Pushed] \in Nat /\ B[j] <= B[Pushed]
        <5> HIDE DEF B, n
        <5>1. Base \in Nat
          BY <2>4
        <5>2. \A i \in 0..n : B[i] \in Nat /\ \A h \in 0..i : B[h] <= B[i]
          BY <2>5
        <5> QED BY <4>1, <5>1, <5>2
      <4>3. Bytes(saves[j]) \in Nat \ {0}
        BY <2>5, <4>1
      <4>4. \A x, y \in Nat : x + y \in Nat
        OBVIOUS
      <4> HIDE DEF B, n, saves
      <4> QED BY <4>2, <4>3, <4>4
    <3>2. \A k \in 1..MaxDepth : k \in ((Base + B[j]) - Bytes(saves[j]) + 1)..(Base + B[j]) => mem'[k] = mem[k]
      <4> SUFFICES ASSUME NEW k \in 1..MaxDepth, k <= Base + B[j] PROVE mem'[k] = mem[k]
        BY <3>1
      <4> DEFINE low == Base + B[j]
                 top == Base + B[Pushed]
      <4>1. low \in Nat /\ top \in Nat /\ low <= top
        <5>1. \A x, y, z \in Nat : x <= y => z + x \in Nat /\ z + y \in Nat /\ z + x <= z + y
          OBVIOUS
        <5> HIDE DEF B
        <5> QED BY <2>4, <3>1, <5>1
      <4>2. depth >= top /\ (rets = 0 => position + Padding(Total) >= top)
        BY <2>4
      <4>3. k <= low /\ k \in Nat
        OBVIOUS
      <4> HIDE DEF low, top
      <4>4. k <= depth
        BY <2>7, <4>1, <4>2, <4>3
      <4>5. OnlyIntegers \/ k <= position
        BY <2>3, <2>6, <2>7, <4>1, <4>2, <4>3
      <4>6. ~Layout /\ ~Use
        BY <2>1 DEF Layout, Use, At, InCall
      <4> HIDE DEF n, B
      <4> QED BY <4>4, <4>5, <4>6, MemStep
    <3>3. R(mem, j)
      BY <2>3
    <3> HIDE DEF saves, B
    <3> QED BY <3>2, <3>3, HoldsKept
  <2>9. CASE SaveCaller
    <3> DEFINE k == Pushed
               r == Head(todo)
    <3>1. /\ phase = "save" /\ phase' = "save" /\ todo' = Tail(todo)
          /\ IF r \in FloatRegs THEN PushBytes(value[r], FloatSize[r]) ELSE PushInteger(value[r])
          /\ todo # <<>>
      BY <2>9 DEF SaveCaller
    <3>2. /\ r = todo[1] /\ Len(todo) \in Nat \ {0} /\ Len(Tail(todo)) = Len(todo) - 1
          /\ r \in IntRegs \cup FloatRegs
      BY <3>1, TodoFacts DEF IInv
    <3>3. Len(todo) <= n /\ todo[1] = saves[n - Len(todo) + 1]
      <4>1. 1 \in 1..Len(todo)
        BY <3>2
      <4> QED BY <3>1, <4>1 DEF IInv, TodoInv
    <3>4. k = n - Len(todo) /\ Pushed' = k + 1 /\ k + 1 \in 1..n /\ r = saves[k + 1]
      BY <2>2, <2>5, <3>1, <3>2, <3>3 DEF Pushed
    <3>5. value[r] = r
      BY <3>1, <3>2 DEF ValueInv, CallerSaved
    <3>6. depth = Base + B[k] /\ B[k] \in Nat /\ Base + B[k + 1] = depth + Bytes(r)
          /\ depth + Bytes(r) <= MaxDepth /\ Bytes(r) \in Nat \ {0} /\ depth \in Nat
      <4>1. depth = Base + B[k] /\ k \in 0..n
        BY <2>4, <3>1
      <4>2. k + 1 \in 1..n /\ k \in 0..n /\ k + 1 \in 0..n /\ r = saves[k + 1]
        BY <2>5, <3>4, <4>1
      <4> HIDE DEF k, r
      <4>3. (k + 1) - 1 = k
        BY <4>2
      <4>4. B[k + 1] = B[(k + 1) - 1] + Bytes(r) /\ (k + 1) - 1 = k
        BY <2>5, <4>2, <4>3
      <4>5. B[k] \in Nat /\ B[k + 1] <= 8 * (k + 1) /\ B[k + 1] \in Nat /\ Bytes(r) \in Nat \ {0}
        BY <2>5, <4>2
      <4>6. Base + 8 * n <= MaxDepth /\ k + 1 <= n /\ n \in Nat /\ Base \in Nat /\ MaxDepth \in Nat /\ k \in Nat
        BY <2>4, <2>5, <2>7, <4>2
      <4> HIDE DEF n, B
      <4>7. Base + B[k + 1] <= MaxDepth
        BY <4>5, <4>6
      <4> QED BY <4>1, <4>4, <4>5, <4>6, <4>7
    <3>7. mem' = Fill(mem, depth + 1, depth + Bytes(r), value[r])
      <4>1. CASE r \in FloatRegs
        <5>1. ~OnlyIntegers
          BY <3>1, <4>1, CallKinds DEF IInv
        <5>2. position = depth
          BY <2>3, <2>4, <2>6, <2>7, <3>1, <5>1
        <5> QED BY <2>3, <3>1, <4>1, <5>2 DEF PushBytes, Bytes
      <4>2. CASE r \notin FloatRegs
        BY <2>3, <3>1, <4>2 DEF PushInteger, Bytes
      <4> QED BY <4>1, <4>2
    <3>8. R(mem', k + 1)
      <4>1. Holds(Fill(mem, depth + 1, depth + Bytes(r), r), depth + Bytes(r), Bytes(r), r)
        <5> HIDE DEF r
        <5> QED BY <3>6, FillHolds DEF IInv
      <4> QED BY <3>4, <3>5, <3>6, <3>7, <4>1
    <3>9. \A j \in 1..(k + 1) : j \in 1..k \/ j = k + 1
      BY <2>4
    <3> HIDE DEF k
    <3> QED BY <2>8, <3>1, <3>4, <3>8, <3>9 DEF k
  <2>10. CASE StartArguments \/ PushArgument \/ Align \/ Call \/ UNCHANGED vars
    <3>1. /\ phase' # "restore" => Pushed' = Pushed
          /\ phase' = "restore" => UNCHANGED <<phase, todo, value>> /\ Pushed' = Pushed
      <4>1. CASE StartArguments
        <5>1. phase = "save" /\ todo = <<>> /\ phase' = "arguments"
          BY <4>1 DEF StartArguments
        <5>2. Pushed = n - 0 /\ Pushed' = n
          BY <2>2, <5>1 DEF Pushed
        <5> QED BY <2>5, <5>1, <5>2
      <4>2. CASE PushArgument \/ Align \/ Call
        <5>1. phase \in {"arguments", "calling"} /\ phase' \in {"arguments", "calling", "called"}
          BY <4>2 DEF PushArgument, Align, Call
        <5> QED BY <2>2, <5>1 DEF Pushed
      <4>3. CASE UNCHANGED vars
        BY <2>2, <4>3 DEF vars, Pushed
      <4> QED BY <2>10, <4>1, <4>2, <4>3
    <3> QED BY <2>3, <2>8, <3>1
  <2>11. CASE Release
    <3>1. phase = "called" /\ phase' = "restore" /\ todo' = Reversed(saves)
      BY <2>11 DEF Release
    <3>2. Len(todo') = n
      BY <2>5, <3>1, ReversedSeq
    <3>3. Pushed = n /\ Pushed' = n
      BY <2>2, <3>1, <3>2 DEF Pushed
    <3>4. (n + 1)..n = {}
      BY <2>5
    <3> QED BY <2>8, <3>2, <3>3, <3>4
  <2>12. CASE RestoreCaller
    <3> DEFINE k == Len(todo)
               r == Head(todo)
    <3>1. /\ phase = "restore" /\ phase' = "restore" /\ todo' = Tail(todo) /\ todo # <<>>
          /\ IF r \in FloatRegs THEN PopFloat(r) ELSE PopInteger(r)
      BY <2>12 DEF RestoreCaller
    <3>2. /\ r = todo[1] /\ k \in Nat \ {0} /\ Len(Tail(todo)) = k - 1
          /\ r \in IntRegs \cup FloatRegs
      BY <3>1, TodoFacts DEF IInv
    <3>3. k <= n /\ r = saves[k] /\ k \in 1..n
      <4>1. 1 \in 1..k /\ k + 1 - 1 = k
        BY <3>2
      <4>2. k <= n /\ todo[1] = saves[k + 1 - 1]
        BY <3>1, <4>1 DEF IInv, TodoInv
      <4> QED BY <2>5, <3>2, <4>1, <4>2
    <3>4. Pushed = k /\ Pushed' = k - 1
      BY <3>1, <3>2 DEF Pushed
    <3>5. R(mem, k) /\ depth = Base + B[k] /\ Bytes(r) \in Nat \ {0}
      BY <2>3, <2>4, <2>5, <3>1, <3>2, <3>3, <3>4
    <3>6. Read(depth, Bytes(r)) = r
      <4>1. Holds(mem, depth, Bytes(r), r)
        BY <3>3, <3>5
      <4> HIDE DEF r
      <4> QED BY <2>7, <3>5, <4>1, ReadHolds DEF IInv
    <3>7. value' = [value EXCEPT ![r] = r]
      <4>1. CASE r \in FloatRegs
        <5>1. ~OnlyIntegers
          BY <3>1, <4>1, CallKinds DEF IInv
        <5>2. position = depth
          BY <2>3, <2>4, <2>6, <2>7, <3>1, <5>1
        <5> QED BY <2>3, <3>1, <3>6, <4>1, <5>2 DEF PopFloat, Bytes
      <4>2. CASE r \notin FloatRegs
        BY <2>3, <3>1, <3>6, <4>2 DEF PopInteger, Bytes
      <4> QED BY <4>1, <4>2
    <3>8. \A j \in k..n : value'[saves[j]] = saves[j]
      <4> SUFFICES ASSUME NEW j \in k..n PROVE value'[saves[j]] = saves[j]
        OBVIOUS
      <4>1. saves[j] \in AllRegs
        <5>1. j \in 1..n
          BY <2>5, <3>3
        <5> QED BY <2>5, <5>1 DEF AllRegs, CallerSaved
      <4>2. j # k => value[saves[j]] = saves[j]
        <5>1. j # k => j \in (k + 1)..n
          BY <3>3
        <5> QED BY <2>3, <3>1, <5>1
      <4>3. CASE saves[j] = r
        BY <2>7, <3>7, <4>1, <4>3
      <4>4. CASE saves[j] # r
        BY <2>7, <3>3, <3>7, <4>1, <4>2, <4>4
      <4> QED BY <4>3, <4>4
    <3>9. Len(todo') + 1 = k
      BY <3>1, <3>2
    <3>10. \A j \in 1..(k - 1) : j \in 1..k
      BY <3>2
    <3> QED BY <2>8, <3>4, <3>8, <3>9, <3>10
  <2> QED BY <2>1, <2>9, <2>10, <2>11, <2>12
<1> QED BY <1>2, <1>3

-----------------------------------------------------------------------------
\* The slots lie one below the other, within the frame.
LEMMA SlotFacts ==
  ASSUME TypeOK
  PROVE  /\ \A i \in DOMAIN fn.slots :
              /\ i \in Nat \ {0} /\ fn.slots[i].size \in Nat \ {0}
              /\ SlotEnd(fn.slots)[i] \in Nat /\ SlotEnd(fn.slots)[i] <= Total
              /\ SlotBytes(i) = (SlotEnd(fn.slots)[i] - fn.slots[i].size + 1)..SlotEnd(fn.slots)[i]
              /\ SlotBytes(i) \subseteq 1..Total
         /\ \A i, j \in DOMAIN fn.slots : i # j => SlotBytes(i) \cap SlotBytes(j) = {}
<1> DEFINE n == Len(fn.slots)
           end == SlotEnd(fn.slots)
           w == [i \in 1..Len(fn.slots) |-> fn.slots[i].size]
<1>1. fn.slots \in Seq(Slot) /\ Total \in Nat
  BY FunctionFacts DEF TypeOK
<1>2. n \in Nat /\ DOMAIN fn.slots = 1..n /\ \A i \in 1..n : fn.slots[i].size \in Nat \ {0}
  <2>1. \A i \in 1..n : fn.slots[i] \in Slot
    BY <1>1
  <2>2. \A i \in 1..n : fn.slots[i].size \in {1, 2, 4, 8}
    BY <2>1 DEF Slot
  <2> QED BY <1>1, <2>2
<1>3. w \in Seq(Nat) /\ Len(w) = n /\ \A i \in 1..n : w[i] = fn.slots[i].size
  BY <1>2
<1>4. IsSums(end, w)
  BY <1>1, SlotEndSums
<1>5. /\ \A i \in 0..n : end[i] \in Nat
      /\ \A i \in 1..n : end[i] = end[i - 1] + fn.slots[i].size
      /\ Total = end[n]
  <2>1. \A i \in 0..n : end[i] \in Nat
    BY <1>3, <1>4 DEF IsSums
  <2>2. \A i \in 1..n : end[i] = end[i - 1] + fn.slots[i].size
    BY <1>3, <1>4 DEF IsSums
  <2>3. Total = end[n]
    BY DEF Total
  <2> QED BY <2>1, <2>2, <2>3
<1>6. \A i, j \in 0..n : i <= j => end[i] <= end[j]
  <2> HIDE DEF end, w, n
  <2> QED BY <1>3, <1>4, SumsOrdered
<1>7. \A i \in 1..n : SlotBytes(i) = (end[i - 1] + 1)..end[i]
  BY DEF SlotBytes
<1> HIDE DEF end, w, n
<1>8. ASSUME NEW i \in 1..n
      PROVE  /\ end[i] <= Total
             /\ SlotBytes(i) = (end[i] - fn.slots[i].size + 1)..end[i]
             /\ SlotBytes(i) \subseteq 1..Total
  <2>1. i - 1 \in 0..n /\ i \in 0..n /\ n \in 0..n /\ i <= n
    BY <1>2
  <2>2. /\ end[i] <= Total /\ end[i] \in Nat /\ end[i - 1] \in Nat
        /\ end[i] = end[i - 1] + fn.slots[i].size /\ fn.slots[i].size \in Nat
    BY <1>2, <1>5, <1>6, <2>1
  <2>3. end[i] - fn.slots[i].size = end[i - 1]
    BY <2>2
  <2>4. SlotBytes(i) = (end[i] - fn.slots[i].size + 1)..end[i]
    BY <1>7, <2>3
  <2>5. \A k \in (end[i - 1] + 1)..end[i] : k \in 1..Total
    BY <1>1, <2>2
  <2> QED BY <1>7, <2>2, <2>4, <2>5
<1>9. ASSUME NEW i \in 1..n, NEW j \in 1..n, i < j
      PROVE  SlotBytes(i) \cap SlotBytes(j) = {}
  <2>1. i \in 0..n /\ j - 1 \in 0..n /\ j \in 0..n /\ i <= j - 1
    BY <1>2, <1>9
  <2>2. end[i] <= end[j - 1] /\ end[i] \in Nat /\ end[j - 1] \in Nat
    BY <1>5, <1>6, <2>1
  <2>3. \A k \in Int : ~(k \in (end[i - 1] + 1)..end[i] /\ k \in (end[j - 1] + 1)..end[j])
    BY <2>2
  <2>4. /\ SlotBytes(i) = (end[i - 1] + 1)..end[i]
        /\ SlotBytes(j) = (end[j - 1] + 1)..end[j]
    BY <1>7
  <2>5. \A k : k \in SlotBytes(i) => k \in Int
    BY <2>4
  <2> QED BY <2>3, <2>4, <2>5
<1>10. \A i, j \in 1..n : i # j => SlotBytes(i) \cap SlotBytes(j) = {}
  <2>1. \A i, j \in 1..n : i # j => i < j \/ j < i
    BY <1>2
  <2> QED BY <1>9, <2>1
<1>11. \A i \in 1..n : i \in Nat \ {0} /\ i \in 0..n
  BY <1>2
<1> QED BY <1>2, <1>5, <1>8, <1>10, <1>11 DEF end

\* Assigning slots gives each of them its variable and leaves the others alone.
LEMMA StoreHolds ==
  ASSUME TypeOK, NEW S \in SUBSET DOMAIN fn.slots, NEW i \in DOMAIN fn.slots,
         i \in S \/ SlotHolds(mem, i)
  PROVE  SlotHolds(Store(mem, S), i)
<1> DEFINE bytes == (SlotEnd(fn.slots)[i] - fn.slots[i].size + 1)..SlotEnd(fn.slots)[i]
<1>1. SlotBytes(i) = bytes /\ SlotBytes(i) \subseteq 1..Total
  BY SlotFacts
<1>2. DOMAIN mem = 1..MaxDepth /\ 1..Total \subseteq 1..MaxDepth
  <2>1. Total <= MaxDepth
    <3> DEFINE c == 8 * Cardinality(fn.saved)
    <3>1. c \in Nat /\ Total + Padding(Total) + c <= MaxDepth /\ Total \in Nat /\ Padding(Total) \in Nat
      BY Room
    <3> HIDE DEF c
    <3> QED BY <3>1, FrameAssumption
  <2> QED BY <2>1, FrameAssumption, Room DEF TypeOK
<1> SUFFICES ASSUME NEW k \in SlotBytes(i)
             PROVE  k \in 1..MaxDepth /\ Store(mem, S)[k] = fn.slots[i].var
  BY <1>1 DEF SlotHolds, Holds
<1>3. k \in DOMAIN mem
  BY <1>1, <1>2
<1>4. \A j \in S : k \in SlotBytes(j) => j = i
  BY SlotFacts
<1>5. CASE i \in S
  <2>1. (CHOOSE j \in S : k \in SlotBytes(j)) = i
    BY <1>4, <1>5
  <2> QED BY <1>2, <1>3, <1>5, <2>1 DEF Store
<1>6. CASE i \notin S
  <2>1. mem[k] = fn.slots[i].var
    BY <1>1, <1>6 DEF SlotHolds, Holds
  <2> QED BY <1>2, <1>3, <1>4, <1>6, <2>1 DEF Store
<1> QED BY <1>5, <1>6

\* The steps that write into the stack while a call is made.
LEMMA Writers ==
  ASSUME IInv, [Next]_vars, mem' # mem
  PROVE  \/ Layout \/ Use \/ SaveCallee
         \/ (SaveCaller \/ PushArgument \/ Call) /\ live /\ phase \in InCall
<1>1. SaveCaller /\ ~live => mem' = mem
  BY DEF SaveCaller, PushInteger, PushBytes
<1>2. PushArgument /\ ~live => mem' = mem
  BY DEF PushArgument, PushInteger, PushBytes, PushAddress
<1>3. Call /\ ~live => mem' = mem
  BY DEF Call
<1>4. SaveCaller \/ PushArgument \/ Call => phase \in InCall
  BY DEF SaveCaller, PushArgument, Call, InCall
<1>5. (\/ Reserve \/ StartCall \/ StartArguments \/ Align \/ Release \/ RestoreCaller \/ EndCall
       \/ StartReturn \/ PopCallee \/ Leave \/ Returned \/ UNCHANGED vars) => mem' = mem
  BY DEF Reserve, StartCall, StartArguments, Align, Release, RestoreCaller, EndCall,
         StartReturn, PopCallee, Leave, Returned, vars, processor
<1> QED BY <1>1, <1>2, <1>3, <1>4, <1>5 DEF Next

\* What lies in the frame is not written while a call is made.
LEMMA FrameKept ==
  ASSUME IInv, ListInv, PositionInv, [Next]_vars, NoAddressPushed, rets = 0 \/ OnlyIntegers,
         ~Layout, ~Use, ~SaveCallee,
         NEW k \in 1..MaxDepth, k <= Total + 8 * Cardinality(fn.saved), Padding(Total) = 0 \/ k <= Total
  PROVE  mem'[k] = mem[k]
<1> SUFFICES ASSUME mem' # mem PROVE mem'[k] = mem[k]
  OBVIOUS
<1>1. live /\ phase \in InCall
  BY Writers
<1>2. phase # "enter"
  BY <1>1 DEF InCall
<1> DEFINE c == 8 * Cardinality(fn.saved)
           level == SavedBytes(Pushed)
<1>3. /\ Base = Total + Padding(Total) + c /\ depth >= Base + level
      /\ rets = 0 => position + Padding(Total) >= Base + level
      /\ level \in Nat
  BY <1>1, <1>2, Levels, SavedBytesOrder DEF IInv
<1>4. Total \in Nat /\ Padding(Total) \in Nat /\ c \in Nat /\ depth \in Int /\ position \in Int
  BY Room DEF IInv, TypeOK
<1>5. k <= Total + c
  OBVIOUS
<1> HIDE DEF c, level
<1>6. k <= depth /\ (rets = 0 => k <= position)
  BY <1>3, <1>4, <1>5
<1> QED BY <1>6, MemStep

LEMMA UsedStep ==
  ASSUME IInv, [Next]_vars, Used', ~Used
  PROVE  Use
<1>1. fn' = fn /\ fn \in Functions /\ pc \in 1..Len(fn.body) /\ Len(fn.body) \in Nat
  BY SameFunction, FunctionFacts DEF IInv, TypeOK
<1>2. PICK i \in 1..(pc' - 1) : fn.body[i].kind = "use"
  BY <1>1 DEF Used
<1>3. pc' = pc \/ pc' = pc + 1
  BY DEF Next, vars, Layout, SaveCallee, Reserve, Use, StartCall, SaveCaller, StartArguments,
         PushArgument, Align, Call, Release, RestoreCaller, EndCall, StartReturn, PopCallee,
         Leave, Returned
<1>4. i = pc /\ pc' = pc + 1
  <2>1. i \notin 1..(pc - 1)
    BY <1>2 DEF Used
  <2> QED BY <1>1, <1>2, <1>3, <2>1
<1>5. Current.kind = "use"
  BY <1>2, <1>4 DEF Current
<1>6. phase \notin InCall /\ phase \notin {"popping", "returned"}
  BY <1>5 DEF IInv, PhaseInv
<1>7. pc' # pc
  BY <1>1, <1>4
<1> QED BY <1>6, <1>7 DEF Next, vars, Layout, SaveCallee, Reserve, StartCall, SaveCaller,
         StartArguments, PushArgument, Align, Call, Release, RestoreCaller, EndCall, StartReturn,
         PopCallee, Leave, Returned, InCall

\* The slots keep their variables.
LEMMA SlotsStep ==
  ASSUME IInv, ListInv, PositionInv, SlotsInv, [Next]_vars
  PROVE  SlotsInv'
<1>1. /\ fn' = fn /\ OnlyIntegers' = OnlyIntegers /\ NoAddressPushed' = NoAddressPushed
      /\ Params' = Params /\ \A i : SlotHolds(mem, i)' <=> SlotHolds(mem', i)
  BY SameFunction DEF OnlyIntegers, NoAddressPushed, Calls, Params, SlotHolds
<1>2. rets' = 0 => rets = 0
  <2>1. rets' = rets \/ rets' = rets + 1
    BY DEF Next, vars, Layout, SaveCallee, Reserve, Use, StartCall, SaveCaller, StartArguments,
           PushArgument, Align, Call, Release, RestoreCaller, EndCall, StartReturn, PopCallee,
           Leave, Returned
  <2> QED BY <2>1 DEF IInv, TypeOK
<1>3. phase' = "enter" => phase = "enter" /\ ~Use
  BY DEF Next, vars, Layout, SaveCallee, Reserve, Use, StartCall, SaveCaller, StartArguments,
         PushArgument, Align, Call, Release, RestoreCaller, EndCall, StartReturn, PopCallee,
         Leave, Returned, At
<1>4. phase' = "enter" => ~Used'
  BY <1>3, UsedStep DEF SlotsInv
<1> SUFFICES ASSUME NoAddressPushed, fn.saved = {}, rets = 0 \/ OnlyIntegers, phase' # "enter",
                    NEW i \in DOMAIN fn.slots, Used' \/ i \in Params
             PROVE  SlotHolds(mem', i)
  BY <1>1, <1>2, <1>4 DEF SlotsInv
<1>5. CASE Layout
  <2>1. mem' = Store(mem, Params) /\ phase = "enter" /\ ~Use
    BY <1>5 DEF Layout, Use, At
  <2>2. i \in Params
    BY <2>1, UsedStep DEF SlotsInv
  <2> QED BY <2>1, <2>2, StoreHolds DEF Params, IInv
<1>6. CASE Use
  <2>1. mem' = Store(mem, Locals) /\ phase # "enter"
    BY <1>6 DEF Use, At
  <2>2. i \in Locals \/ SlotHolds(mem, i)
    BY <2>1 DEF SlotsInv, Locals
  <2> QED BY <2>1, <2>2, StoreHolds DEF Locals, IInv
<1>7. CASE ~Layout /\ ~Use
  <2>1. phase # "enter"
    BY <1>7 DEF Next, vars, Layout, SaveCallee, Reserve, Use, StartCall, SaveCaller, StartArguments,
           PushArgument, Align, Call, Release, RestoreCaller, EndCall, StartReturn, PopCallee,
           Leave, Returned, At
  <2>2. SlotHolds(mem, i)
    BY <1>7, <2>1, UsedStep DEF SlotsInv
  <2>3. ~SaveCallee
    <3>1. SUFFICES ASSUME SaveCallee PROVE FALSE
      OBVIOUS
    <3>2. phase = "saving" /\ todo # <<>>
      BY <3>1 DEF SaveCallee
    <3>3. Len(todo) \in Nat \ {0} /\ Len(todo) <= Len(saved) /\ Len(saved) = Cardinality(fn.saved)
      BY <3>2, TodoFacts DEF IInv, TodoInv, ListInv
    <3>4. Cardinality(fn.saved) = 0
      BY FS_EmptySet
    <3> QED BY <3>3, <3>4
  <2>4. SlotBytes(i) \subseteq 1..Total
        /\ SlotBytes(i) = (SlotEnd(fn.slots)[i] - fn.slots[i].size + 1)..SlotEnd(fn.slots)[i]
    BY SlotFacts DEF IInv
  <2>5. \A k \in 1..MaxDepth : k \in SlotBytes(i) => mem'[k] = mem[k]
    <3> SUFFICES ASSUME NEW k \in 1..MaxDepth, k \in SlotBytes(i) PROVE mem'[k] = mem[k]
      OBVIOUS
    <3>1. k <= Total /\ Total \in Nat /\ Cardinality(fn.saved) = 0
      <4>1. k \in 1..Total
        BY <2>4
      <4>2. Total \in Nat
        BY Room DEF IInv
      <4> QED BY <4>1, <4>2, FS_EmptySet
    <3>2. k <= Total + 8 * Cardinality(fn.saved)
      BY <3>1
    <3> QED BY <1>7, <2>3, <3>1, <3>2, FrameKept
  <2> QED BY <2>2, <2>4, <2>5, HoldsKept DEF SlotHolds
<1> QED BY <1>5, <1>6, <1>7

-----------------------------------------------------------------------------
\* In a frame without slots what the prologue pushed stays until it is popped.
LEMMA CalleeStep ==
  ASSUME IInv, ListInv, PositionInv, ValueInv, CalleeInv, [Next]_vars
  PROVE  CalleeInv'
<1> DEFINE n == Len(saved)
           R(m, j) == Holds(m, 8 * j, 8, saved[j])
<1>1. fn' = fn /\ NoAddressPushed' = NoAddressPushed
  BY SameFunction DEF NoAddressPushed, Calls
<1> SUFFICES ASSUME NoAddressPushed, fn.slots = <<>>
             PROVE  CalleeInv'
  BY <1>1 DEF CalleeInv
<1>2. Total = 0 /\ Padding(Total) = 0
  <2>1. Len(fn.slots) = 0
    OBVIOUS
  <2>2. IsSums(SlotEnd(fn.slots), [i \in 1..Len(fn.slots) |-> fn.slots[i].size])
    BY FunctionFacts, SlotEndSums DEF IInv, TypeOK
  <2>3. Total = 0
    BY <2>1, <2>2 DEF IsSums, Total
  <2> QED BY <2>3 DEF Padding
<1>3. /\ saved \in Seq(CalleeSaved) /\ n \in Nat /\ rets \in Nat /\ depth \in Int
      /\ MaxDepth \in Nat /\ value \in [AllRegs -> ValueType] /\ CalleeSaved \subseteq AllRegs
  BY FrameAssumption DEF IInv, TypeOK, AllRegs
<1>4. phase # "enter" => n = Cardinality(fn.saved) /\ 8 * n <= MaxDepth
  <2>1. phase # "enter" => n = Cardinality(fn.saved)
    BY DEF ListInv
  <2>2. Total + Padding(Total) + 8 * Cardinality(fn.saved) <= MaxDepth /\ Cardinality(fn.saved) \in Nat
    BY Room DEF IInv
  <2>3. 8 * Cardinality(fn.saved) <= MaxDepth
    BY <1>2, <2>2
  <2> QED BY <2>1, <2>3
<1>5. CASE Layout
  <2>1. phase' = "saving" /\ todo' = saved' /\ saved' \in Seq(CalleeSaved)
    BY <1>1, <1>5, OrdersSeq, FunctionFacts DEF Layout, IInv, TypeOK
  <2>2. 1..(Len(saved') - Len(todo')) = {}
    BY <2>1
  <2> QED BY <2>1, <2>2 DEF CalleeInv, InCall
<1>6. CASE SaveCallee
  <2> DEFINE k == n - Len(todo)
             r == Head(todo)
  <2>1. /\ phase = "saving" /\ phase' = "saving" /\ todo' = Tail(todo) /\ UNCHANGED <<saved, rets>>
        /\ live /\ todo # <<>>
    BY <1>6 DEF SaveCallee, IInv, PhaseInv
  <2>2. mem' = Fill(mem, depth + 1, depth + 8, value[r])
    BY <1>6, <2>1 DEF SaveCallee, PushInteger
  <2>3. /\ r = todo[1] /\ Len(todo) \in Nat \ {0} /\ Len(Tail(todo)) = Len(todo) - 1
        /\ Len(todo) <= n /\ r \in CalleeSaved
    BY <2>1, TodoFacts DEF IInv, TodoInv
  <2>4. todo[1] = saved[k + 1]
    <3>1. 1 \in 1..Len(todo)
      BY <2>3
    <3> QED BY <2>1, <3>1 DEF ListInv
  <2>5. value[r] = r
    BY <1>3, <2>1, <2>3 DEF ValueInv
  <2>6. k \in Nat /\ k + 1 <= n /\ depth = 8 * k /\ n - Len(Tail(todo)) = k + 1
    <3>1. depth = 8 * (n - Len(todo))
      BY <2>1, Levels
    <3> QED BY <1>3, <2>3, <3>1
  <2> HIDE DEF k, r
  <2>7. depth \in Nat /\ depth + 8 <= MaxDepth /\ depth + 8 = 8 * (k + 1)
    BY <1>3, <1>4, <2>1, <2>6
  <2>8. R(mem', k + 1)
    BY <2>2, <2>3, <2>4, <2>5, <2>7, FillHolds DEF IInv
  <2>9. ASSUME NEW j \in 1..k, rets = 0 PROVE R(mem', j)
    <3>1. R(mem, j)
      BY <2>1, <2>9 DEF CalleeInv, k
    <3>2. \A i \in 1..MaxDepth : i \in (8 * j - 8 + 1)..(8 * j) => mem'[i] = mem[i]
      <4> SUFFICES ASSUME NEW i \in 1..MaxDepth, i <= 8 * j PROVE mem'[i] = mem[i]
        BY <2>6
      <4>1. i \notin (depth + 1)..(depth + 8)
        BY <2>6
      <4>2. i \in DOMAIN mem
        BY DEF IInv, TypeOK
      <4> QED BY <2>2, <4>1, <4>2 DEF Fill
    <3> QED BY <3>1, <3>2, HoldsKept
  <2>10. \A j \in 1..(k + 1) : j \in 1..k \/ j = k + 1
    BY <2>6
  <2>11. rets = 0 => \A j \in 1..(k + 1) : R(mem', j)
    BY <2>8, <2>9, <2>10
  <2> QED BY <2>1, <2>6, <2>11 DEF CalleeInv, InCall
<1>7. \A k \in 1..MaxDepth :
        rets = 0 /\ phase # "enter" /\ ~SaveCallee /\ k <= 8 * n => mem'[k] = mem[k]
  <2> SUFFICES ASSUME NEW k \in 1..MaxDepth, rets = 0, phase # "enter", ~SaveCallee, k <= 8 * n
               PROVE  mem'[k] = mem[k]
    OBVIOUS
  <2>1. ~Layout
    BY DEF Layout
  <2>2. CASE Use
    <3>1. mem' = Store(mem, Locals) /\ Locals = {} /\ k \in DOMAIN mem
      BY <2>2 DEF Use, Locals, IInv, TypeOK
    <3> QED BY <3>1 DEF Store
  <2>3. CASE ~Use
    <3>1. k <= Total + 8 * Cardinality(fn.saved)
      <4>1. 8 * Cardinality(fn.saved) = 8 * n /\ 8 * n \in Nat
        BY <1>3, <1>4
      <4> HIDE DEF n
      <4> QED BY <1>2, <4>1
    <3> QED BY <1>2, <2>1, <2>3, <3>1, FrameKept
  <2> QED BY <2>2, <2>3
<1>8. ASSUME rets = 0, phase # "enter", ~SaveCallee,
             NEW j \in 1..n, NEW v, Holds(mem, 8 * j, 8, v)
      PROVE  Holds(mem', 8 * j, 8, v)
  <2>1. \A k \in 1..MaxDepth : k \in (8 * j - 8 + 1)..(8 * j) => k <= 8 * n
    BY <1>3
  <2>2. \A k \in 1..MaxDepth : k \in (8 * j - 8 + 1)..(8 * j) => mem'[k] = mem[k]
    BY <1>7, <1>8, <2>1
  <2> HIDE DEF n
  <2> QED BY <1>8, <2>2, HoldsKept
<1>9. CASE Reserve
  <2>1. phase = "saving" /\ phase' = "body" /\ todo = <<>> /\ UNCHANGED <<saved, rets, mem>>
    BY <1>9 DEF Reserve
  <2>2. n - Len(todo) = n
    BY <1>3, <2>1
  <2>3. rets = 0 => \A j \in 1..n : R(mem, j)
    BY <2>1, <2>2 DEF CalleeInv
  <2> QED BY <2>1, <2>3 DEF CalleeInv, InCall
<1>10. CASE \/ Use \/ StartCall \/ SaveCaller \/ StartArguments \/ PushArgument \/ Align \/ Call
            \/ Release \/ RestoreCaller \/ EndCall
  <2>1. /\ phase \in InCall \cup {"body"} /\ phase' \in InCall \cup {"body"} /\ UNCHANGED <<saved, rets>>
    BY <1>10 DEF Use, StartCall, SaveCaller, StartArguments, PushArgument, Align, Call, Release,
                 RestoreCaller, EndCall, At, InCall
  <2>2. rets = 0 => \A j \in 1..n : R(mem, j)
    BY <2>1 DEF CalleeInv
  <2>3. rets = 0 => \A j \in 1..n : R(mem', j)
    <3>1. phase # "enter" /\ ~SaveCallee
      BY <2>1 DEF InCall, SaveCallee
    <3> QED BY <1>8, <2>2, <3>1
  <2> QED BY <2>1, <2>3 DEF CalleeInv, InCall
<1>11. CASE StartReturn
  <2>1. /\ phase = "body" /\ phase' = "popping" /\ saved' = Reversed(saved) /\ todo' = saved'
        /\ UNCHANGED <<rets, mem>>
    BY <1>11 DEF StartReturn, At, processor
  <2>2. /\ Len(saved') = n /\ \A i \in 1..n : saved'[i] = saved[n + 1 - i]
    BY <1>3, <2>1, ReversedSeq
  <2>3. \A j \in 1..n : n + 1 - j \in 1..n /\ n + 1 - (n + 1 - j) = j
    BY <1>3
  <2>4. rets = 0 => \A j \in 1..n : R(mem, j)
    BY <2>1 DEF CalleeInv
  <2>5. \A j \in 1..n : saved'[n + 1 - j] = saved[j]
    <3> HIDE DEF n
    <3> QED BY <2>2, <2>3
  <2>6. 1..(n - n) = {}
    BY <1>3
  <2>7. Len(saved') - Len(todo') = n - n /\ Len(todo') = n
    BY <2>1, <2>2
  <2>8. rets' = 0 => \A j \in 1..Len(todo') : Holds(mem', 8 * j, 8, saved'[Len(saved') + 1 - j])
    BY <2>1, <2>2, <2>4, <2>5, <2>7
  <2>9. 1..(Len(saved') - Len(todo')) = {}
    BY <2>6, <2>7
  <2> QED BY <2>1, <2>8, <2>9 DEF CalleeInv, InCall
<1>12. CASE PopCallee
  <2> DEFINE m == Len(todo)
             r == Head(todo)
  <2>1. /\ phase = "popping" /\ phase' = phase /\ todo' = Tail(todo) /\ todo # <<>>
        /\ UNCHANGED <<live, saved, rets, mem>>
        /\ PopInteger(r)
    BY <1>12 DEF PopCallee
  <2>2. /\ r = todo[1] /\ m \in Nat \ {0} /\ Len(Tail(todo)) = m - 1 /\ m <= n /\ r \in CalleeSaved
    BY <2>1, TodoFacts DEF IInv, TodoInv
  <2>3. n - m + 1 = n + 1 - m /\ n - (m - 1) = n - m + 1 /\ m \in 1..m /\ 1 \in 1..m
    BY <1>3, <2>2
  <2>4. r = saved[n + 1 - m]
    <3>1. todo[1] = saved[n - m + 1]
      BY <2>1, <2>3 DEF ListInv
    <3> QED BY <2>2, <2>3, <3>1
  <2>5. rets = 0 =>
          /\ \A j \in 1..m : Holds(mem, 8 * j, 8, saved[n + 1 - j])
          /\ live => \A i \in 1..(n - m) : value[saved[i]] = saved[i]
    BY <2>1 DEF CalleeInv
  <2>6. rets = 0 /\ live => value' = [value EXCEPT ![r] = r]
    <3> SUFFICES ASSUME rets = 0, live PROVE value' = [value EXCEPT ![r] = r]
      OBVIOUS
    <3>1. depth = 8 * m
      <4>1. depth = Total + Padding(Total) + 8 * Len(todo)
        BY <2>1, Levels
      <4> QED BY <1>2, <2>2, <4>1
    <3>2. Holds(mem, depth, 8, r)
      BY <2>3, <2>4, <2>5, <3>1
    <3>3. Read(depth, 8) = r
      <4> HIDE DEF r
      <4> QED BY <1>3, <3>2, ReadHolds DEF IInv
    <3> QED BY <2>1, <3>3 DEF PopInteger
  <2>7. rets = 0 /\ live => \A i \in 1..(n - (m - 1)) : value'[saved[i]] = saved[i]
    <3> SUFFICES ASSUME rets = 0, live, NEW i \in 1..(n - (m - 1)) PROVE value'[saved[i]] = saved[i]
      OBVIOUS
    <3>1. i \in 1..n /\ (i = n + 1 - m \/ i \in 1..(n - m))
      BY <1>3, <2>2
    <3>2. saved[i] \in AllRegs
      BY <1>3, <3>1
    <3>3. CASE saved[i] = r
      BY <1>3, <2>6, <3>2, <3>3
    <3>4. CASE saved[i] # r
      <4>1. i \in 1..(n - m)
        BY <2>4, <3>1, <3>4
      <4>2. value[saved[i]] = saved[i]
        BY <2>5, <4>1
      <4> QED BY <1>3, <2>6, <3>2, <3>4, <4>2
    <3> QED BY <3>3, <3>4
  <2>8. \A j \in 1..(m - 1) : j \in 1..m
    BY <2>2
  <2>9. /\ rets' = 0 => \A j \in 1..Len(todo') : Holds(mem', 8 * j, 8, saved'[Len(saved') + 1 - j])
        /\ rets' = 0 /\ live' => \A i \in 1..(Len(saved') - Len(todo')) : value'[saved'[i]] = saved'[i]
    BY <2>1, <2>2, <2>5, <2>7, <2>8
  <2> QED BY <2>1, <2>9 DEF CalleeInv, InCall
<1>13. CASE Leave
  <2>1. /\ phase = "popping" /\ todo = <<>> /\ phase' = (IF live THEN "returned" ELSE "body")
        /\ rets' = rets + 1 /\ UNCHANGED <<saved, value>>
    BY <1>13 DEF Leave
  <2>2. n - Len(todo) = n /\ rets' # 0 /\ (rets' = 1 => rets = 0)
    BY <1>3, <2>1
  <2>3. rets' = 1 /\ live => \A i \in 1..n : value[saved[i]] = saved[i]
    BY <2>1, <2>2 DEF CalleeInv
  <2> QED BY <2>1, <2>2, <2>3 DEF CalleeInv
<1>14. CASE Returned \/ UNCHANGED vars
  <2>1. UNCHANGED <<phase, live, rets, saved, todo, mem, value>>
    BY <1>14 DEF Returned, vars
  <2> QED BY <1>1, <2>1 DEF CalleeInv
<1> QED BY <1>5, <1>6, <1>9, <1>10, <1>11, <1>12, <1>13, <1>14 DEF Next

-----------------------------------------------------------------------------
\* The invariant of the stack's contents.
Remembers == IInv /\ MInv

LEMMA KeptInit ==
  ASSUME Init
  PROVE  Remembers
<1>1. IInv
  BY InvInit
<1>2. ListInv /\ PositionInv
  BY DEF Init, ListInv, PositionInv
<1>3. ValueInv
  BY DEF Init, ValueInv, AllRegs, CallerSaved
<1>4. SavesInv
  BY DEF Init, SavesInv, InCall
<1>5. SlotsInv
  <2>1. ~Used
    BY DEF Init, Used
  <2> QED BY <2>1 DEF Init, SlotsInv
<1>6. CalleeInv
  BY DEF Init, CalleeInv, InCall
<1> QED BY <1>1, <1>2, <1>3, <1>4, <1>5, <1>6 DEF Remembers, MInv

THEOREM ContentsInvariance == Spec => []Remembers
<1>1. Init => Remembers
  BY KeptInit
<1>2. Remembers /\ [Next]_vars => Remembers'
  <2> SUFFICES ASSUME Remembers, [Next]_vars PROVE Remembers'
    OBVIOUS
  <2>1. IInv /\ ListInv /\ PositionInv /\ ValueInv /\ SavesInv /\ SlotsInv /\ CalleeInv
    BY DEF Remembers, MInv
  <2> QED BY <2>1, InvStep, ListStep, PositionStep, ValueStep, SavesStep, SlotsStep, CalleeStep
          DEF Remembers, MInv
<1> QED BY <1>1, <1>2, PTL DEF Spec

(***************************************************************************)
(* A register that was saved around a call has its value when the call is  *)
(* over, for every list of registers of both classes and of arguments      *)
(* (code_generator.cpp:549-566, 672-674, 700-754).                         *)
(***************************************************************************)
THEOREM CallsPreserveSaved == Spec => []SavedAcrossCall
<1>1. Remembers => SavedAcrossCall
  <2> SUFFICES ASSUME Remembers, phase = "restore", todo = <<>>, live, NoAddressPushed,
                      PositionExact \/ OnlyIntegers, NEW i \in DOMAIN Current.saves
               PROVE  value[Current.saves[i]] = Current.saves[i]
    BY DEF SavedAcrossCall
  <2>1. SavesInv /\ Current.kind = "call"
    BY DEF Remembers, MInv, IInv, PhaseInv, InCall
  <2>2. Current.saves \in Seq(IntRegs \cup FloatRegs)
    BY <2>1, CallFacts DEF Remembers, IInv
  <2>3. i \in (Len(todo) + 1)..Len(Current.saves)
    <3>1. Len(todo) = 0
      OBVIOUS
    <3> QED BY <2>2, <3>1
  <2> QED BY <2>1, <2>3 DEF SavesInv, InCall
<1> QED BY <1>1, ContentsInvariance, PTL

(***************************************************************************)
(* No call writes into a slot of the frame, whatever it saves and pushes   *)
(* (code_generator.cpp:111-126, 700-731).                                  *)
(***************************************************************************)
THEOREM SlotsKeepValues == Spec => []SlotsSurvive
<1>1. Remembers => SlotsSurvive
  <2> SUFFICES ASSUME Remembers, phase \in {"body", "restore"}, Used, NoAddressPushed, fn.saved = {},
                      rets = 0 \/ OnlyIntegers, NEW i \in DOMAIN fn.slots
               PROVE  Read(SlotEnd(fn.slots)[i], fn.slots[i].size) = fn.slots[i].var
    BY DEF SlotsSurvive
  <2>1. SlotHolds(mem, i) /\ TypeOK
    BY DEF Remembers, MInv, SlotsInv, IInv
  <2>2. SlotEnd(fn.slots)[i] \in Int /\ fn.slots[i].size \in Nat \ {0}
    BY <2>1, SlotFacts
  <2> QED BY <2>1, <2>2, ReadHolds DEF SlotHolds
<1> QED BY <1>1, ContentsInvariance, PTL

(***************************************************************************)
(* In a frame without slots the first return gives every register that was *)
(* saved back, whatever the body and its calls did to it, and only spill   *)
(* registers that were not saved are lost (code_generator.cpp:129-133,     *)
(* 686-688).                                                               *)
(***************************************************************************)
THEOREM FirstReturnRestores == Spec => []CalleeSavedWithoutSlots
<1>1. Remembers => CalleeSavedWithoutSlots
  <2> SUFFICES ASSUME Remembers, phase = "returned", NoAddressPushed, fn.slots = <<>>, rets = 1,
                      NEW r \in CalleeSaved, r \in fn.saved \/ r \notin fn.scratch
               PROVE  value[r] = r
    BY DEF CalleeSavedWithoutSlots
  <2>1. \A i \in 1..Len(saved) : value[saved[i]] = saved[i]
    BY DEF Remembers, MInv, CalleeInv
  <2>2. CASE r \in fn.saved
    <3>1. \E i \in 1..Len(saved) : saved[i] = r
      BY <2>2 DEF Remembers, MInv, ListInv
    <3> QED BY <2>1, <3>1
  <2>3. CASE r \notin fn.saved
    BY <2>3 DEF Remembers, MInv, ValueInv
  <2> QED BY <2>2, <2>3
<1> QED BY <1>1, ContentsInvariance, PTL
=============================================================================
