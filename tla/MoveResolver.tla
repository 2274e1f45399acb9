---------------------------- MODULE MoveResolver ----------------------------
(***************************************************************************)
(* MoveResolver::resolve of src/src/codegen/x86-64/move-resolver, and the  *)
(* processor that then runs what it returned.  CodeGenerator::call emits   *)
(* one instruction per argument as if they took effect one by one;         *)
(* resolve puts them in an order in which they take effect all at once.    *)
(*                                                                         *)
(* An instruction is a "mov" (Mov or Lea: into a parameter register, or of *)
(* a label into r15, from where the next one takes it), one to "stay"      *)
(* where it is (of another opcode, as the moves of floating point, or of   *)
(* the copy of a struct, `ignore'), a "push" of an argument that found no  *)
(* register, or one that prepares such a push and comes "first" with it    *)
(* (`beginning').                                                          *)
(***************************************************************************)
EXTENDS Naturals, Sequences, FiniteSets, Vectors

CONSTANTS
  ParamRegs,    \* rdi, rsi, rdx, rcx, r8, r9: a sequence
  OtherRegs,    \* the other registers an argument may be in
  Spill,        \* SPILL1, r15: labels and chunks of structs go through it
  Values,       \* operands that are not registers: immediates, addresses
  Cells,        \* what else is written: copies, stack arguments, xmm registers
  Slot,         \* the address that replaces a register of a broken loop
  AsGroup,      \* the group findLoop reads in an operand that is no register
  RegSize,      \* m_typeInfo.m_size of the registers
  StableLength, \* up to so many elements std::sort sorts by insertion: 16
  Calls         \* the instructions `call' may hand to resolve

ParamSet == {ParamRegs[i] : i \in DOMAIN ParamRegs}
Written == ParamSet \cup {Spill}
AllRegs == Written \cup OtherRegs
Sources == AllRegs \cup Values
Locations == AllRegs \cup Cells

\* The number of an instruction, its place in the call, tells equal ones apart.
InstructionType ==
  [kind : {"mov"}, n : Nat, dst : Written, src : Sources]
    \cup [kind : {"stay", "first"}, n : Nat, dst : Written \cup Cells, src : Sources]
    \cup [kind : {"push"}, n : Nat, dst : Cells, src : Sources]

\* Lines 580-643: cursor gives each register once, and what goes through r15
\* is the address of a label that the next instruction takes from there.
ASSUME CallsAssumption ==
  \A c \in Calls :
    /\ c \in Seq(InstructionType)
    /\ \A i \in DOMAIN c : c[i].n = i
    /\ \A i, j \in DOMAIN c :
         c[i].kind = "mov" /\ c[j].kind = "mov" /\ c[i].dst = c[j].dst => i = j \/ c[i].dst = Spill
    /\ \A i \in DOMAIN c :
         c[i].kind = "mov" /\ c[i].dst = Spill =>
           c[i].src \in Values /\ i + 1 \in DOMAIN c /\ c[i + 1].kind = "mov" /\ c[i + 1].src = Spill
    /\ \A i \in DOMAIN c :
         c[i].kind = "mov" /\ c[i].src = Spill =>
           i - 1 \in DOMAIN c /\ c[i - 1].kind = "mov" /\ c[i - 1].dst = Spill

ASSUME OperandsAssumption ==
  /\ Spill \notin ParamSet
  /\ Values \cap AllRegs = {} /\ Slot \notin AllRegs \cup Values
  /\ Cells \cap (AllRegs \cup Values \cup {Slot}) = {}
  /\ AsGroup \notin AllRegs
  /\ RegSize \in Nat /\ StableLength \in Nat

VARIABLES
  call,     \* the instructions handed over: the parameter `from'
  moves,    \* the vector from, once the others were taken out
  indexed,  \* the instructions taken out, with their positions
  chain,    \* the operands of the graph that buildGraph made so far
  visited,  \* the moves findForGraph has returned for it
  pushed,   \* the registers of the loops that were broken
  out,      \* what codegen.push and codegen.pop appended to the text
  result,   \* the vector result
  spills,   \* how much ctx.m_spills has grown
  phase,
  pc,       \* processor: the next instruction
  store,    \* processor: the value in each location
  stack     \* processor: what was pushed and not popped

resolver == <<call, moves, indexed, chain, visited, pushed, out, result, spills>>
processor == <<pc, store, stack>>
vars == <<call, moves, indexed, chain, visited, pushed, out, result, spills, phase, pc, store, stack>>

-----------------------------------------------------------------------------
Least(S) == CHOOSE i \in S : \A j \in S : i <= j
Greatest(S) == CHOOSE i \in S : \A j \in S : j <= i

CountOperand(o, s) ==
  Cardinality({i \in DOMAIN s : s[i].dst = o}) + Cardinality({i \in DOMAIN s : s[i].src = o})

\* A move that disturbs no other one, and that no other one disturbs.
Isolated(m, s) ==
  m.dst = m.src \/ (CountOperand(m.dst, s) = 1 /\ CountOperand(m.src, s) = 1)

\* Where an instruction that is taken out is to be put back, from zero.
Position_Push(i) == i - 1
Position(i) == IF call[i].kind \in {"push", "first"} THEN 0 ELSE i - 1

Group(o) == IF o \in AllRegs THEN o ELSE AsGroup

\* findLoop: the places of the chain whose group was met before.
Repeats == {k \in DOMAIN chain : \E j \in 1..(k - 1) : Group(chain[j]) = Group(chain[k])}

\* findForGraph: the moves not yet returned that read the end of the chain.
Readers == {i \in DOMAIN moves \ visited : moves[i].src = chain[Len(chain)]}

-----------------------------------------------------------------------------
Init ==
  /\ call \in Calls
  /\ moves = <<>> /\ indexed = <<>> /\ chain = <<>> /\ visited = {} /\ pushed = <<>>
  /\ out = <<>> /\ result = <<>>
  /\ spills = 0
  /\ phase = "separate"
  /\ pc = 1
  /\ store = [l \in Locations |-> l]
  /\ stack = <<>>

(***************************************************************************)
(* Lines 85-115.  The positions of the first erase_if are those of the     *)
(* parameter; those of the second are taken after the first has moved the  *)
(* moves together.  When nothing stays, `indexed' is returned unsorted.    *)
(***************************************************************************)
Separate ==
  /\ phase = "separate"
  /\ LET movs == {i \in DOMAIN call : call[i].kind = "mov"}
         alone == {i \in movs : Isolated(call[i], [j \in movs |-> call[j]])}
         first == [i \in DOMAIN call |-> [at |-> Position(i), instr |-> call[i]]]
         second == [i \in DOMAIN call |->
                      [at |-> Cardinality({j \in movs : j < i}), instr |-> call[i]]]
     IN  /\ moves' = Kept(call, movs \ alone)
         /\ indexed' = Kept(first, DOMAIN call \ movs) \o Kept(second, alone)
  /\ IF moves' = <<>>
     THEN /\ phase' = "run"
          /\ result' = [i \in DOMAIN indexed' |-> indexed'[i].instr]
     ELSE phase' = "graph" /\ UNCHANGED result
  /\ UNCHANGED <<call, chain, visited, pushed, out, spills, processor>>

(***************************************************************************)
(* buildGraph follows the moves from the source of the last one: each next *)
(* operand is the destination of the last move not used yet that reads the *)
(* previous one.  A cycle elsewhere in the list is not on the chain.       *)
(***************************************************************************)
BuildGraph ==
  /\ phase = "graph"
  /\ phase' = "follow"
  /\ chain' = <<moves[Len(moves)].src, moves[Len(moves)].dst>>
  /\ visited' = {}
  /\ UNCHANGED <<call, moves, indexed, pushed, out, result, spills, processor>>

Follow ==
  /\ phase = "follow" /\ Readers # {}
  /\ chain' = Append(chain, moves[Greatest(Readers)].dst)
  /\ visited' = visited \cup {Greatest(Readers)}
  /\ UNCHANGED <<call, moves, indexed, pushed, out, result, spills, phase, processor>>

\* Lines 124-127: the register is pushed and its readers read the slot.
BreakLoop ==
  /\ phase = "follow" /\ Readers = {} /\ Repeats # {}
  /\ phase' = "graph"
  /\ LET loop == chain[Least(Repeats)]
     IN  /\ pushed' = Append(pushed, loop)
         /\ out' = Append(out, [kind |-> "push", dst |-> Slot, src |-> loop])
         /\ moves' = [i \in DOMAIN moves |->
                        IF moves[i].src = loop THEN [moves[i] EXCEPT !.src = Slot] ELSE moves[i]]
  /\ spills' = spills + RegSize + 8
  /\ UNCHANGED <<call, indexed, chain, visited, result, processor>>

NoLoop ==
  /\ phase = "follow" /\ Readers = {} /\ Repeats = {}
  /\ phase' = "swap"
  /\ UNCHANGED <<resolver, processor>>

\* findForSwap: the moves after i that read the parameter register i overwrites.
ReadersAfter_Skip(i) ==
  {j \in DOMAIN moves : j > i + 1 /\ moves[i].dst \in ParamSet /\ moves[j].src = moves[i].dst}
ReadersAfter_Anywhere(i) ==
  {j \in DOMAIN moves : j # i /\ moves[i].dst \in ParamSet /\ moves[j].src = moves[i].dst}
ReadersAfter(i) ==
  {j \in DOMAIN moves : j > i /\ moves[i].dst \in ParamSet /\ moves[j].src = moves[i].dst}
Conflicts == {i \in DOMAIN moves : ReadersAfter(i) # {}}

\* Lines 130-143: the first such move changes places with its first reader.
Swap ==
  /\ phase = "swap" /\ Conflicts # {}
  /\ LET i == Least(Conflicts)
         j == Least(ReadersAfter(i))
     IN  moves' = [moves EXCEPT ![i] = moves[j], ![j] = moves[i]]
  /\ UNCHANGED <<call, indexed, chain, visited, pushed, out, result, spills, phase, processor>>

\* Lines 145-149.
Ordered ==
  /\ phase = "swap" /\ Conflicts = {}
  /\ result' = Kept(moves, {i \in DOMAIN moves : moves[i].dst # moves[i].src})
  /\ phase' = "place"
  /\ UNCHANGED <<call, moves, indexed, chain, visited, pushed, out, spills, processor>>

\* The length that indexed had when std::sort got it, and the elements that may
\* come next: insertion keeps the order of equal ones, a longer sort need not.
Entered == Len(call) - Len(moves)
NextIndexed ==
  {x \in DOMAIN indexed :
     /\ \A y \in DOMAIN indexed : indexed[x].at <= indexed[y].at
     /\ Entered <= StableLength => \A y \in 1..(x - 1) : indexed[y].at # indexed[x].at}

\* Lines 151-154: result.insert(result.begin() + idx, instr).
Place ==
  /\ phase = "place"
  /\ \E x \in NextIndexed :
       LET e == indexed[x]
       IN  /\ result' = SubSeq(result, 1, e.at) \o <<e.instr>> \o SubSeq(result, e.at + 1, Len(result))
           /\ indexed' = SubSeq(indexed, 1, x - 1) \o SubSeq(indexed, x + 1, Len(indexed))
  /\ UNCHANGED <<call, moves, chain, visited, pushed, out, spills, phase, processor>>

Placed ==
  /\ phase = "place" /\ indexed = <<>>
  /\ phase' = "restore"
  /\ UNCHANGED <<resolver, processor>>

\* Lines 156-160: the registers of the loops are popped, the last one first.
Restore_NoPop ==
  /\ phase = "restore" /\ pushed # <<>>
  /\ pushed' = SubSeq(pushed, 1, Len(pushed) - 1)
  /\ spills' = spills - RegSize - 8
  /\ UNCHANGED <<call, moves, indexed, chain, visited, out, result, phase, processor>>
Restore_Twice ==
  /\ phase = "restore" /\ pushed # <<>>
  /\ out' = Append(out, [kind |-> "pop", dst |-> pushed[Len(pushed)], src |-> Slot])
  /\ pushed' = SubSeq(pushed, 1, Len(pushed) - 1)
  /\ spills' = spills - RegSize - 16
  /\ UNCHANGED <<call, moves, indexed, chain, visited, result, phase, processor>>
Restore ==
  /\ phase = "restore" /\ pushed # <<>>
  /\ out' = Append(out, [kind |-> "pop", dst |-> pushed[Len(pushed)], src |-> Slot])
  /\ pushed' = SubSeq(pushed, 1, Len(pushed) - 1)
  /\ spills' = spills - RegSize - 8
  /\ UNCHANGED <<call, moves, indexed, chain, visited, result, phase, processor>>

Restored ==
  /\ phase = "restore" /\ pushed = <<>>
  /\ phase' = "run"
  /\ UNCHANGED <<resolver, processor>>

-----------------------------------------------------------------------------
(***************************************************************************)
(* The processor.  call() puts the result where the moves were, in front   *)
(* of what push and pop appended meanwhile (code_generator.cpp:644-649):   *)
(* whoever reads the slot of a loop reads it before the push has filled it.*)
(***************************************************************************)
Text == result \o out
Value(o) == IF o \in Locations THEN store[o] ELSE o

Execute ==
  /\ phase = "run" /\ pc <= Len(Text)
  /\ pc' = pc + 1
  /\ LET instr == Text[pc]
     IN  CASE instr.kind = "pop" ->
                /\ store' = [store EXCEPT ![instr.dst] = stack[Len(stack)]]
                /\ stack' = SubSeq(stack, 1, Len(stack) - 1)
           [] instr.kind = "push" ->
                /\ stack' = Append(stack, Value(instr.src))
                /\ UNCHANGED store
           [] OTHER ->
                /\ store' = [store EXCEPT ![instr.dst] = Value(instr.src)]
                /\ UNCHANGED stack
  /\ UNCHANGED <<resolver, phase>>

Finish ==
  /\ phase = "run" /\ pc > Len(Text)
  /\ phase' = "done"
  /\ UNCHANGED <<resolver, processor>>

Return == phase = "done" /\ UNCHANGED vars

Next ==
  \/ Separate \/ BuildGraph \/ Follow \/ BreakLoop \/ NoLoop
  \/ Swap \/ Ordered
  \/ Place \/ Placed \/ Restore \/ Restored
  \/ Execute \/ Finish \/ Return

Spec == Init /\ [][Next]_vars
FairSpec == Spec /\ WF_vars(Next)

-----------------------------------------------------------------------------
Phases == {"separate", "graph", "follow", "swap", "place", "restore", "run", "done"}
AnyInstruction ==
  InstructionType
    \cup [kind : {"mov"}, n : Nat, dst : Written, src : Sources \cup {Slot}]

\* Every variable has its type (move_resolver.cpp:84-90, 117-118).
TypeOK ==
  /\ call \in Calls
  /\ moves \in Seq(AnyInstruction) /\ result \in Seq(AnyInstruction)
  /\ indexed \in Seq([at : Nat, instr : AnyInstruction])
  /\ chain \in Seq(Sources \cup {Slot}) /\ visited \subseteq DOMAIN moves
  /\ pushed \in Seq(Written)
  /\ out \in Seq([kind : {"push", "pop"}, dst : Written \cup {Slot}, src : Written \cup {Slot}])
  /\ spills \in Nat
  /\ phase \in Phases
  /\ pc \in 1..(Len(Text) + 1)
  /\ store \in [Locations -> Locations \cup Values \cup {Slot}]
  /\ stack \in Seq(Locations \cup Values \cup {Slot})

Movs == {i \in DOMAIN call : call[i].kind = "mov" /\ call[i].dst # call[i].src}
Pushes == {i \in DOMAIN call : call[i].kind = "push"}

\* A cycle: moves each of whose destinations is read by another one of them.
Cyclic ==
  \E S \in (SUBSET Movs) \ {{}} : \A i \in S : \E j \in S : call[j].src = call[i].dst

\* The instructions that set a parameter register, and what they should put there.
Arguments == {i \in DOMAIN call : call[i].kind = "mov" /\ call[i].dst # Spill}
Argument(i) == IF call[i].src = Spill THEN call[i - 1].src ELSE call[i].src

\* No struct is so large that its copy takes rdi, rsi and rcx.
SmallCopies ==
  \A i \in DOMAIN call : call[i].kind \in {"stay", "first"} => call[i].dst \notin ParamSet

\* Nothing but labels goes through r15, and if another one comes after the label
\* that i passes, the register of i is not itself passed on.
KeepsLabel(i) ==
  call[i].src = Spill =>
    /\ \A j \in DOMAIN call : call[j].dst = Spill => call[j].kind = "mov"
    /\ (\E j \in DOMAIN call : j > i /\ call[j].dst = Spill) =>
         \A j \in DOMAIN call : call[j].kind = "mov" => call[j].src # call[i].dst

(***************************************************************************)
(* Arguments whose moves form no cycle arrive: run one after the other,    *)
(* the instructions leave in every general parameter register what its     *)
(* argument was before the call (move_resolver.cpp:84-162), for any order  *)
(* of arguments, as long as no copy takes the parameter registers and no   *)
(* label waits in r15 while something else goes through it.                *)
(***************************************************************************)
AcyclicIsParallel ==
  phase = "done" /\ ~Cyclic /\ SmallCopies =>
    \A i \in Arguments : KeepsLabel(i) => store[call[i].dst] = Argument(i)

(***************************************************************************)
(* Stack arguments are pushed from right to left, as the callee expects    *)
(* them, when register arguments are left to order and the sort is stable  *)
(* (move_resolver.cpp:93-95, 151-154); when none is left, they are pushed  *)
(* in the order of the call, from left to right (111-115).                 *)
(***************************************************************************)
StackArgsOrder ==
  phase \in {"restore", "run", "done"} =>
    \A k, l \in DOMAIN result :
      result[k].kind = "push" /\ result[l].kind = "push" /\ k < l =>
        IF moves = <<>> THEN result[k].n < result[l].n
        ELSE Entered <= StableLength => result[k].n > result[l].n

(***************************************************************************)
(* Breaking loops leaves the stack and ctx.m_spills as they were: only the *)
(* stack arguments are on it (move_resolver.cpp:124-126, 156-160).         *)
(***************************************************************************)
StackBalanced ==
  phase = "done" => spills = 0 /\ Len(stack) = Cardinality(Pushes)

(***************************************************************************)
(* Moves without a cycle are resolved: both loops of resolve end           *)
(* (move_resolver.cpp:119-143).                                            *)
(***************************************************************************)
AcyclicTerminates == ~Cyclic => <>(phase = "done")

(***************************************************************************)
(* README.md:5: the compiler "will spit out an executable", whatever the   *)
(* order in which a function passes its parameters on.                     *)
(***************************************************************************)
Terminates == <>(phase = "done")
=============================================================================
