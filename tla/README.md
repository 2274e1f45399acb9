# Verification of the Braw compiler

Braw is a compiler from a small language to x86-64 assembly. This directory
holds TLA+ models of its parts, the TLC instances that check them and the
proofs that TLAPS checks. `PROJECT.json` lists the runs, the lines of the source
each definition stands for, the mutants that show each property can fail, the
hazards, the findings and the theorems. Paths below are relative to `src/src/`.

## The system

One invocation of `brawc` reads one file, with its imports, and writes one
`.asm` per file; it may go on to run `as` and `gcc`. Nothing is kept between
invocations. Everything is sequential but for `--parallel`, where the calls of
`compile` run in TBB threads.

| Component | State | Operations | Interaction |
|---|---|---|---|
| driver, `main.cpp` | options, exit code, `objectFiles` | the stages in order, `compile` per file, link | calls all others; threads share `objectFiles` and a static counter of the code generator |
| lexer, `lexer/` | cursor | `tokenize` | gives tokens to the parser |
| parser, `parser/` | cursor, context, import list | a `parse` function per node | gives the AST; follows imports |
| semantic analyzer, `semantic-analyzer/`, `braw_context.cpp` | scopes, function and type tables, `m_loopOrSwitch` | `fillTypes`, `analyze` per node | annotates and rewrites the AST, fails with errors |
| macro evaluator, `macro/` | macro tables, bindings | `processAST` | rewrites the AST between `fillTypes` and `analyze` |
| SSA builder, `ssa/builder.cpp` | blocks, dominators, versions of names | `build`, `buildCFG`, `placePhiBlocks`, `rename` | AST to SSA; runs the optimizer to a fixpoint under `-O1` |
| SSA optimizer, `ssa/copy_propagator.cpp`, `cse.cpp`, `constant_folding.cpp` | the instruction list, tables of copies and expressions | one pass each | in place on SSA |
| IR builder, `ir/from_ssa/` | registers by name | `build` | SSA to two-address IR; drops the versions of names |
| liveness propagator, `codegen/x86-64/register-allocator/liveness_propagator.cpp` | blocks with ranges and connections | `buildGraph`, `fillRanges`, `fillHoles`, `propagate` | IR to ranges |
| register allocator, same directory | interference graph, stack, spills, result map | `build` | ranges to registers or memory |
| code generator, `codegen/x86-64/code_generator.cpp` | `m_spills`, `m_spillPosition`, saved registers, operand of each id | `generate`, `call`, `ret`, `push`, `pop`, one function per IR instruction | IR to assembly; calls allocator and move resolver |
| move resolver, `codegen/x86-64/move-resolver/` | the instruction vector of one call | `resolve` | reorders what `call` emitted |
| emitter and peephole, `codegen/x86-64/` | stream, instruction vector | `emit`, `run` | assembly text; rewrites under `-O1` |

### What is hard, and what makes each part correct

- **Allocator.** Nodes are removed in one order and coloured in the reverse
  one, with spilled, precoloured and inherited colours in between. Correct: no
  range is lost, a pushed node finds a register, ranges that are alive together
  differ, a range has one register in the whole function.
- **Liveness.** Three recursions over a graph with cycles, the last of which
  depends on what the others left. Correct: where a value is needed later,
  some range covers it; what has its address taken lies in memory.
- **Move resolver.** A parallel move is emitted as a sequence, and positions in
  a vector are kept while it is taken apart; what goes through a scratch register
  is in the same sequence. Correct: every argument arrives, nothing is lost, the loops end.
- **Frame.** The generator counts bytes statically for code that runs with
  branches and returns. Correct: its count is the real depth, calls are
  aligned, `ret` finds the return address, saved values and slots survive.
- **Instruction selection.** Every instruction of the intermediate code is
  emitted for operands in registers or in memory, with two scratch registers and
  with `rax` and `rdx` taken by divisions. Correct: wherever the operands live,
  the text does what the instruction says, disturbs nothing that is alive, and
  is something an assembler takes.
- **Peephole.** Erases from a vector while a cursor goes over it. Correct: the
  function has the same outcome, the cursor never reads what is not there.
- **Driver.** Errors leave at different places, and threads share a vector and
  a counter without a lock. Correct: what can be linked is, names are unique,
  the program ends.
- **SSA and IR.** Versions are dropped on the way out of SSA although copy
  propagation may have made two of them live at once. Correct: the optimized
  program computes what the given one does.
- **Analyzer.** Flags kept in a context while the tree is walked. Correct:
  exactly the programs with a wrong `break`, return or name are refused.

## The models

Each module states at its head what it models; each action cites its lines.
`MC_*` modules hold the small instances, `*_proofs` the theorems.

**RegisterAllocator** is `RegisterAllocator::build`. `EnterBlock` does what the
loop body does before colouring (assign parameters, make nodes, sort); `Push`
and `Spill` are the two outcomes of a turn of the simplify loop; `KeepTag` and
`TakeTag` those of the select loop; `FinishBlock` inserts into the result.
`std::sort` leaves nodes the comparator does not order in any order, so `rank` is
chosen. Input: the blocks that the propagator gives.

**LivenessPropagator** is `Propagator::buildGraph`. `TryRegister` is one call of
`tryRegister`, for one operand of one instruction: an instruction may name an id
twice, and its second occurrence is tried with the ranges the first one left.
The recursions keep the calls
still to make as sequences (`pending`, and `paths` for `fillHoles`), in the order
the code makes them. An instruction names ids with what it really does to
them; the code only sees whether an id is the first operand, which is why
`test` (the condition of a jump) counts as an assignment. The index of an address is
an operand of its own behind its base, because the loop of `tryRegister` returns at a
retained base and never comes to the index (`Passed`). The reference is
liveness by its definition, the least solution of the equations of data flow (`LiveIn`).

**MoveResolver** is `MoveResolver::resolve` for the instructions of one call, and then
the processor running the result with what the generator appended
(`Text`, `Execute`): registers, one stack slot for a broken loop, a stack. The instructions
are those of code_generator.cpp:580-643: a move into a parameter register; `lea r15,
[label]` and the move that takes the address from there, one such pair for every string or
retained variable, all through the same `r15`; the instructions of a copied structure and
of an xmm register, which resolve leaves where they are; and a push, alone or with the
`lea` that prepares it. `n`, the number of an instruction in the call, is a ghost: it
tells apart instructions that are equal. The other callers of `resolve` (copies of more
than 32 bytes, 912-916 and 977) are not covered.

**SSABuilder** is `Builder::buildCFG`: blocks and connections, the iteration over
the vectors of dominators, the runners that find the frontiers, phi placement and
the recursive walk of `rename`, with the calls of a recursion on `stack`.
Unordered containers of the code are choices of the model. An instruction is its
kind, the registers it assigns and its operands, memory (`mem`) among them.
**SSALowering** is the part of `Builder::build` that turns statements into such
instructions, so that the input of the instances is what the compiler makes of
source programs; it is written with RECURSIVE operators and only used by TLC.
Operations name the memory they read and registers that memory may change
(`dependent`, m_memoryDependant), because the optimizer decides by them.
References are the definitions of a textbook: dominance by paths (`Dominates`),
iterated frontiers, the blocks that begin with what a definition has left (`ReachedBy`).

**SSAOptimizer** continues where `buildCFG` ends, as `Builder::build` does at
`-O1`: copy propagation, common subexpressions, constant folding, and again until
a turn changes nothing. `TryCopy`, `ReplaceBlock`, `ReplaceNext` and
`ReplaceReturns` are `replace`, a block that may be visited twice being one call on
the stack; `Erase` and `Keep` what `propagate` does with its answer;
`EliminateInstruction`, `EliminateNext` and `EliminateReturns` the walk of `CSE::run`
with its two maps. `ReplaceCrashes` is the null pointer of copy_propagator.cpp:69,
`RenameCrashes` (SSABuilder) the one of builder.cpp:890.
**IRBuilder** is `IRBuilderSSA::build` as an operator from instructions to
intermediate code, and a meaning for it: a function runs along a path, one
decision for every test, values are numbers or terms, memory is known by its
history of writes and calls. `OptimizerKeepsOutcome` compares what the function
does before the passes (`built`) with what it does after them. `regular` is a
history variable: it turns FALSE with a step that is known to go wrong, and only
for functions that take such a step nothing is claimed.

**StackFrame** puts `m_spills` and `m_spillPosition` of the code generator beside
the depth, bytes and registers of the processor. A body is a sequence of
uses, calls and returns; `live` says whether the processor is on the path, so
code behind an early return is generated with the bookkeeping it left.
Push of an xmm register writes where `m_spillPosition` says, push of a general
one where `rsp` is, as in the code. `saved` are the callee-saved registers the allocator
gave out, which the prologue pushes; `scratch` those of the spill registers `r14` and `r15`
that the function or its callees write, whether or not they are saved. Bytes are tracked by the value they are
part of.

**Driver** is `main`: the stages of the front end with their error exits, the
`compile` lambda in one thread or one per range of `tbb::parallel_for` (how the
files are cut is chosen), the unguarded `push_back` as read and write of the
end (or a crash while both reallocate), the label counter as read and write,
the assembler and the linker.

**SemanticAnalyzer** is `fillTypes`, `analyze` and `getType` for every kind of
node, with the scopes, the function table and the flags in the context. The
recursion over the tree is a stack of tasks, each a handler or the rest of one,
so that a flag set in one node is seen by the next as in the code. **WellFormed**
is the reference: what a well-formed program is, node by node, from the scopes
that enclose it and without any state.

**IRCode** is the intermediate code of one function with the terms it computes.
A value is a term, the tuple of the operation and its operands, with its size;
memory holds bytes of terms, so a read of half a value, or of two, is seen.
**IRMachine** is the abstract specification: a machine that executes the
intermediate code one instruction at a time, with values for live registers and
places for those whose address is taken. It knows no homes, frame or scratch
registers. **Processor** is the part of x86-64 the generator uses: the effect of
each instruction on the bytes of registers and memory, and `Encodable`.

**InstructionSelection** is `CodeGenerator::generate`: `Build` gives the text of
a function for an assignment of homes (registers or slots) to its registers, one
operator per function of the generator (`MoveTo`, `Multiply`, `DivideInto`,
`CompareAndStore`, `Convert`, ...). The homes are every assignment in which
registers whose ranges meet differ: all the allocator gives, except where it
overlooks an overlap (see `MutualOverlapsDiffer`).
Then the text runs on the processor. `settled` is the state of `IRMachine` that
the processor had reached when it last ended an instruction of the code, and
`ImplementsIR` says that `settled` behaves as `IRMachine` does: a step of the
processor inside an instruction is a stutter, the last one is a step of the
intermediate code, with the values of all registers that are live there, the
memory outside the frame, and what a jump tested.

**Peephole** is `Peephole::run`, one action per turn of its loop, until a pass
changes nothing. The function runs before and after. `stale` are the opcodes that
erasures leave in the slots between the new and the old end of the vector, where
the cursor still goes.

The allocator's input is what the propagator gives, and the frame's slots and
saves are what the allocator gives; they are composed through these sets of
inputs, each larger than what the other part produces. A model that runs
propagator and allocator together is planned. SSABuilder and SSAOptimizer are one
specification (`SpecOptimized`), from the statements to the intermediate code. Instruction selection and the
peephole are composed in `MC_Peephole`, with the code generator's own loop.

## The runs

| Run | Shows | Bounds |
|---|---|---|
| `reg_alloc` | seven properties of colouring | 5 ids, 2 usable registers and 1 xmm, 2 blocks, every combination of four interval shapes: enough for spills, precoloured conflicts, inherited colours and holes |
| `liveness` | every value is covered where it is needed, and the blocks it passes through are filled | one id, or two in an address, 5824 functions of up to 18 instructions: if/else, rotated loop with two ifs, loop with a declaration in the body, loop with return, loop with two entries, indexed addresses. Two ids meet only in an address, in `Flag` each changes its own ranges |
| `liveness_pointed` (violated) | a variable whose address is taken may be put into a register | the same |
| `resolver` | five properties of reordering | 2716 calls: 3 parameter registers, arguments in 4 registers, constants and labels, up to 2 on the stack (one of them possibly in memory), a copied struct before or between them, an xmm register: every cycle up to length 3, chains, shared sources, up to three labels through `r15`. `StableLength` is 3 in place of 16, so that longer and shorter vectors occur |
| `resolver_ends` (violated) | `g(b, a, a)` swaps two moves forever | the same |
| `frame` | six properties of the frame | up to 2 slots of sizes 1, 4, 8, two callee-saved registers to save, functions that write the spill registers `r14` and `r15` and functions that do not, two calls with every kind of argument, an early return |
| `frame_preserve` (violated) | callee-saved registers are not preserved in a frame with slots | the same functions, those that write no spill register |
| `ssa_builder` | seven properties of SSA construction and of the optimizer | 345 functions of up to three locals, a pointer and a condition, compared along every path of up to four decisions. For construction one or two compound statements: if/else, while, do, for, break, continue, return, loops in branches, branches in loops, nested loops and branches, loops that are left where a block comes before its predecessors, retained variables, calls, stores. For the passes rows of two or three copies, sums, tests, negations, calls, loads and stores, in a row, in the arms of a condition, in a loop, with and without a variable whose address is taken |
| `ssa_ends` (violated) | the compiler hangs on some functions with loops | the same |
| `semantic` | what is accepted is well formed, what is well formed is accepted | 2506 programs of one or two functions: every expression and statement with every type of its operands, scopes that shadow, loops in loops, overloads, redefinitions, retained variables |
| `selection` | the code emitted implements the intermediate code, assembles, and is the same after the peephole | 30 functions of up to 11 instructions with every operation, homes among 4 registers (`rdx`, the scratch register `r14`, two others) and the frame, both outcomes of each test |
| `driver` | four properties of driving | 3 files, two of them with two constants, colliding output paths |

Every property of a passing run is broken by a mutant of the code listed in
`PROJECT.json`, under the run's own configuration.

Some properties carry conditions, because without them they are false of this
code; each condition is a finding or a hazard:

- `LiveCovered` asks that the blocks the id only passes through are filled
  (`HolesFilled`); that an instruction that begins a range with the id and reads it (an
  update, a test, `move x, x`) is the first thing in its block to name it
  or directly follows another that does (`AtOnce`); that the id is never an index behind a
  retained base (`AlwaysTried`, 161-162); and that only parameters are alive where the
  function begins (`Initialised`).
- `HolesAreFilled` says when they are filled: if no block assigns the id first
  (`fillHoles` skips such ranges, liveness_propagator.cpp:119) and every loop of the
  function has one entry (`Reducible`): `visited2` is shared by all paths, so a block that was
  reached on one path is not entered again on another, and in a loop entered at two
  blocks the second path may be the one that needed filling. Statements of the language make no
  such loops.
- `AcyclicIsParallel`, `AcyclicTerminates` exclude cycles of moves. `AcyclicIsParallel`
  is about general registers, because moves into xmm registers are not ordered at all, and
  asks that no structure is so large that its copy takes `rdi`, `rsi` and `rcx`
  (`SmallCopies`), and of an argument that is a label (`KeepsLabel`), because `findForSwap`
  orders only parameter registers (move_resolver.cpp:52) and `r15` is none: that nothing but
  labels goes through `r15` in this call (the copy of a structure and the `lea` of a stack
  argument in memory do), and, if another label comes after it, that no argument is taken
  from its register. In `f("a", "b", x)` with `x` in `rdi` the moves are `lea r15, l1;
  mov rdi, r15; lea r15, l2; mov rsi, r15; mov rdx, rdi`, without a cycle; the second and the
  last change places, and `rdi` gets the second label. TLC finds a call for each condition
  that is dropped.
- `StackArgsOrder` says that stack arguments are pushed from right to left if some register
  argument is not isolated (`moves` is not empty) and the vector of the others has up to 16
  elements (`StableLength`: `std::sort` sorts longer ones in an order that is not stable). If
  all register arguments are isolated, as constants are in `f(1, 2, ..., 8)`, lines
  111-115 return before anything is sorted, and it says that the arguments are then pushed from
  left to right, the wrong order. The `lea` of a stack argument in memory is put in reverse as well:
  its push comes first, and pushes what was in `r15` before.
- `AlignedAtCall` and its kin exclude a push of an argument that lives in memory
  (`NoAddressPushed`: it is not counted, code_generator.cpp:733);
  `SavedAcrossCall` and `SlotsSurvive` exclude the mixture of classes where
  `m_spillPosition` has drifted; `CalleeSavedWithoutSlots` is about the first
  return, and about registers that were saved or are no spill register the code writes: the
  generator uses `r15` and `r14` in the body (code_generator.cpp:42-43, 633, 757-787, 836), the
  allocator never gives `r15` out (register_allocator.cpp:19) and `r14` not always, and
  only what it gave out is pushed (129-133). A function without slots that passes a
  string returns with another value in `r15`.
- `DominatorsSound` asks for exact dominators, the outermost first, of blocks
  before any loop, and of those where every connection on the ways to them leads to a
  later block or back to one that dominates where it comes from, as that of do-while
  (`Orderly`). Elsewhere a block that comes before its predecessors is appended to a
  vector that has it already (ssa/builder.cpp:747); the next block counts it twice, lets in
  blocks that only some predecessors have and loses others. `EndsForPlainLoops` excludes nested
  loops and joins behind a loop.
- `DefinitionsMeetInPhis` asks that no block has lost a dominator (`DominatorsKept`; in
  `while(a){ do{}while(b); break; }` one has, a runner climbs past it and a phi is missing)
  and that the definitions of the register are counted or only one (784-803). Memory is there
  before its first write, which nothing counts: for memory it asks for more than one write (808), for an
  entry that nothing leads back to (765), and for exact dominators: in
  `while(c){ *p = x; } *p = x;` the head of the loop has a dominator too many, the runner from
  the body stops at once (769), and the runner from outside marks the entry only, which
  assigns every other register that the loop assigns, but not memory.
- `UsesReachingDefinition` is about registers whose definitions meet in phis (`MeetInPhis`) and that
  are `Tracked`: parameters and retained variables get a new version in every block
  (874-878), an instruction that assigns its own operand uses the new version (885), and a
  register assigned twice in a block loses only one name (970). Operands that are not assigned on every
  way are left out.
- `OptimizerKeepsOutcome` is about functions whose names are right (`RightNames`)
  and for which no pass takes one of the steps of the table below; a compiler
  that has crashed keeps nothing. `EndsForPlainLoops` says that the passes come to
  an end, or crash, for whatever loops construction comes to an end for.
- `MutualOverlapsDiffer` is about ranges each of which lists the other:
  `getOverlaps` of a range that contains another does not list it
  (register_allocator.cpp:189), and then the two may share a register. With
  `let x: long = 1l; let y: long* = &x; let z: long = x; *y = 5l; let r: long = z;
  return (int)r;` at `-O1`, `z` and the pointer both get `rdi`.
- `SequentialLinksAll` asks that output paths differ.
- `LinkedWereAssembled` is what is left with `--parallel`: files may be lost,
  because threads push into one vector without a lock and compile the first
  file only of the range they are given (main.cpp:158, 164).
- `WellFormedIsAccepted` excepts a `break` behind a nested loop and a second use
  of a retained variable's node (semantic_analyzer.cpp:74,
  analyze_variable_access.cpp:14).
- `PeepholeKeepsOutcome` is about texts in which no rule of `WrongRules` fired:
  the first two rules erase one instruction of their two (peephole.cpp:19-30),
  and the last one drops a move whose target the second reads (53-62).

`ImplementsIR` and `Assembles` are checked for all homes but those of
`KnownWrong`, for which the code emitted is wrong. Each of its conditions is
needed: without any one of them the run fails.

| Condition | What the code does |
|---|---|
| `MulIntoMemory` | a product in memory is computed from the source alone and never stored (code_generator.cpp:447-455) |
| `DivisionUsesRdx` | with target or divisor in `rdx`, the `pop` undoes the result, or `cdq` overwrites the divisor (458-507) |
| `FloatIntoMemory` | `addss` and its like cannot write to memory (422-438, 479-484) |
| `LogicInMemory` | `and`, `or` and `xor` take two operands in memory as they are (234-260) |
| `SpilledPointer` | a member through a spilled pointer is read from the slot, not from where it points (1071-1081) |
| `SpilledIndex` | the index and the value moved both use `r15` (1091, 409) |
| `SecondScratchTaken` | `r14` is a scratch register and one the allocator gives (43, register_allocator.cpp:19) |
| `SavedOverSlots` | saved registers are pushed over the slots (130-136) |

Of the optimizer, each line a small program that computes one thing with `-O 0` and
another with `-O 1`; without any of these conditions the run fails.

| Condition | What the code does |
|---|---|
| `RightNames` | a use may have the name of another definition, see `UsesReachingDefinition`; a phi gets as operand the latest name known anywhere, so the copy it needs is not seen to be needed (ssa/builder.cpp:947) |
| `Reassigned` | the copy `y = x` is replaced by `x` where `x` has been assigned again: as versions they differ, but all versions become one register (builder_ssa.cpp:295) |
| `Missed` | the version of the memory is compared for assignments only, not for a test, a call or the value of a write (copy_propagator.cpp:105-121), and a call leaves that version as it is |
| `RightErasure` | the assignment of a variable in memory is erased although it is read through its address (94-98); an immediate is not put into an address, but the assignment of the register there is erased (58) |
| `RightReuse` | expressions of a block are reused in blocks it does not dominate (cse.cpp:54, 74), dereferences across calls and across assignments of the variable in memory (99) |

**Fairness.** `Terminates` of the allocator, the resolver, the SSA builder and the
driver, `AcyclicTerminates` and `EndsForPlainLoops` are checked under
`WF_vars(Next)`: these are programs that run until they stop. Threads of the driver need no more than that, because no
action of a thread waits for another one and each thread has finitely many
steps.

**Deadlock** is checked in every run; a finished program stutters in an action
of its own (`Return`, `Done`, `Exit`, `Returned`, `Stopped`).

## What is proved

Every invariant of the allocator, the move resolver, the stack frame and the
driver, `TypeOK` and `LiveCovered` of the propagator, and `TypeOK`, `DominatorsSound`, `PhisExact` and
`UsesReachingDefinition` of the SSA builder, is a theorem `Spec => []P`, for every value of the constants that
satisfies the named assumptions of the module; TLC evaluates those on the
instances. Each proof module has an inductive invariant (`Invariance`), one step per
action and under it one per conjunct that the action can disturb; the temporal
step is PTL. The inductive invariants were checked with TLC as well.

| Module | Theorems |
|---|---|
| `RegisterAllocator_proofs` | `TypeCorrect`, `MutualOverlapsSafe`, `PushedAlwaysColoured`, `NoRangeLost`, `OneRegisterAcrossBlocks`, `QuietBlocksSafe` |
| `LivenessPropagator_proofs` | `TypeCorrect`, `LiveAreCovered` |
| `MoveResolver_proofs` | `TypeCorrect`, `AcyclicMovesDeliver`, `StackArgumentsOrdered`, `StackIsBalanced` |
| `StackFrame_proofs` | `TypeCorrect`, `CallsAreAligned`, `ReturnsFindFrame`; `CallsPreserveSaved`, `SlotsKeepValues`, `FirstReturnRestores` |
| `Driver_proofs` | `TypeCorrect`, `NamesAreUnique`, `OnlyAssembledAreLinked`, `AllAreLinkedInOrder` |
| `SSABuilder_proofs` | `PhisAreExact`, `DominatorsAreSound` |
| `SSARenaming_proofs` | `NamesAreReaching`, `TypeCorrect` |

`VectorLemmas` holds what they share: sums of the beginnings of a sequence, what
`Vectors` says of the elements at some positions of a vector, that a vector of
beginnings cuts the numbers into stretches (`StretchFacts`), that a set that grows step by
step in a set of n elements is closed after n steps and is the least such set (`GrownFacts`),
and `LeastNatural`, every set of naturals has a least element. The induction
theorems of the library take an operator as a parameter, which no backend
instantiates; a least counterexample takes their place wherever a proof needs
induction over a length or a depth.

**Allocator.** `PushedGetsRegister` needs to know about
nodes still on the stack that when they were pushed fewer neighbours were left
than there are registers, and that the neighbours then are all that can be in the
graph when they come back: `StackInv`. `GraphInv` says which connections nodes
in the graph may have and that distinct mutual neighbours that were coloured
freely differ; `BlockInv` is the partition; `ResultInv` ties tags to the result of
earlier blocks. The step that uses them is a pigeonhole argument
(`LowDegreeHasFree`): a set of neighbours smaller than the set of registers leaves
one free. `QuietBlocksRespectPrecoloured` has an invariant of its own, `QuietInv`:
in a block where every node starts with a low degree none is spilled, so the
stack keeps the order of the sort, and when it is unwound the precoloured nodes are
all in the graph before the first free one is given a register.

**Liveness propagator.** `LiveCovered`, for every function, whatever its branches, loops and
returns. `Partition` says that the blocks cut the code into stretches, jumps lead to beginnings, and
`Successors` are the control flow between blocks. `NamedInv`
says that every occurrence tried so far lies in a range of its block, and that what lies between two
occurrences is covered if the second does not begin a range; where it does begin one and also reads
the id, `AtOnce` leaves nothing in between. It needs `TryInv` (the last range of an id ends where the
id was seen last) while operands are tried, and then every later phase must keep it: blocks that are
filled get whole ranges, and extension only makes ranges longer (`LongerStep`).
`ConnectInv` and `ConnectedInv` say that the blocks the
recursion has passed are closed under connections: it reaches every block there is a way to.
`PropagateInv` says that where the last recursion has passed, an id with ranges on both
sides of an edge reaches it from both (`Met`). What is left is
about the control flow. `Reached` and `LiveIn` are least solutions, and of a least solution
`GrownFacts` says that it is one, and that a set closed under its steps contains it: the
instructions of visited blocks are such a set, so every instruction that is reached is in
one (`TakenFacts`), which is the induction over paths. Inside a block a value is handed
from instruction to instruction as long as none names it (`Forward`, `Backward`). Then the block of
the instruction names the id before it, behind it, on both sides or not at all
(`CoveredToEnd`, `CoveredFromEntry`, `BetweenCovered`, `HolesFilled`). Assumed of a function: it begins with a label, and
jumps lead to labels (`FunctionsAssumption`). The proof found every condition but the first of
`LiveCovered` in its present form.

**Move resolver.** The hard part is that positions are counted in one vector
and used in another. `PlaceInv` says that an entry is never put behind the end of
the result: as many instructions as its position says are in the result already
or are put there before it. `PartsInv` and `OriginInv` say that nothing is lost or
doubled on the way, by the numbers of the instructions. `AcyclicIsParallel`
follows from `OrderInv` (no move in front of one that reads the parameter register it writes,
once `Conflicts` is empty), `AloneInv` (what was taken out as isolated touches no other
move, so it may be put back anywhere), `LabelInv` and `RunInv`. `LabelInv` is about `r15`, which
nothing orders: of two moves that a label may go through and of which one writes `r15`, the one that
came first in the call still does, because no swap moves a register that holds a label
past another label (`KeepsLabel`), so when the move comes to run `r15` still holds its label.
`RunInv` says of each instruction what it has written, and of those still to run what their source, or
`r15` for them, holds. `PushInv` follows the pushes through the vectors, for `StackArgsOrder`: in the
order of the call while they are entries with position 0, and reversed in the result as each is put in
front of the one before, if the sort is stable.
`ChainInv` and `LoopInv` show that a loop is broken only where the moves form a
cycle: the chain that `findForGraph` follows is a chain of moves of the call. That a
chain that returns to its beginning contains a cycle is the case for a least
counterexample. `HeightInv` counts the stack for `StackBalanced`, whatever loops
there are. Assumed (`CallsAssumption`, code_generator.cpp:580-643): two moves that write the same
register write `r15` (`cursor` gives each parameter register once); what is moved into
`r15` is the address of a label, and the next instruction is the move that takes it from there;
and registers, values, places on the stack and the slot of a loop are different
things (`OperandsAssumption`).

**Stack frame.** `CountInv` says what `m_spills` is in each phase, as sums over
what was saved and pushed, and `DepthInv` that `rsp` agrees wherever the
processor is on the path. Behind an early return the generator counts on for code
that is not reached, which is why both are needed and differ. For the contents
of the stack, `PositionInv` gives the drift of `m_spillPosition`, `SlotsInv` what
the slots hold, `SavesInv` what lies where a register was saved, `CalleeInv` what
the prologue pushed and the first return pops, and `ValueInv` what registers hold: a
callee-saved one that is neither saved nor written as a spill register, what it held. Assumed: a body ends with a
return (ssa/builder.cpp:121-122, `FrameAssumption`); the registers saved around calls are not
among the callee-saved ones (`RegisterAssumption`); and the memory of
the model reaches below the deepest frame (`DepthAssumption`: `MaxDepth` bounds the
model, not the code).

**Driver.** That constants have names of their own without threads (`SequentialNames`) is proved
only; a run sees it in `SequentialLinksAll`, since a file with a name defined twice is not assembled.
`CounterInv` (without threads the counter is ahead of every label)
needs `OrderInv`, a task starts when those before it have ended. `LinkedWereAssembled` holds with
threads, although they overwrite each other's elements and the size: `DiskInv`
says that whatever is in the vector, or about to be pushed, names a file on the disk
that was assembled, so no interleaving can make it name another.

**SSA builder.** `PhisExact`, for every function, every register and every order in
which the unordered containers give up registers and frontiers. `CutInv` says that
the blocks are stretches of the code that leave nothing out. A phi moves all of them,
and goes behind the first instruction of its block; it would come into the next block
if that instruction were the only one. `JoinsAreLong` says that it never is: only blocks
with several predecessors are in a frontier (`FrontierInv`), such a block begins with a
label (`ConnectInv`, because a block that begins otherwise is only fallen into, by one call
of the recursion past its connection), and a label is not the last instruction
of its block, or it would not have been cut so (`LabelGoesOn`). With that, `PlacedFacts`
shows that a phi changes neither the partition nor which blocks assign a register, nor how
often. `PlaceInv` (`Sound`) is the argument of the worklist: what has a phi is in the iterated
frontier, and the frontier of every block that assigns the register or has its phi has been
looked at or will be. When the worklist is empty the phis are closed under frontiers,
and the iterated frontier is the least such set: `GrownFacts` shows that for the iteration
of `PhisExact`, which stops after as many steps as there are blocks, by counting. Assumed
of a function: it begins with a label, ends with a return, and every jump has its label
(`FunctionsAssumption`, ssa/builder.cpp:119-122). `PhisExact` needs nothing of the dominators:
the frontiers are whatever the runners leave, since behind loops the
vectors of dominators are not exact.

**Dominators.** `DominatorsSound` has an invariant of its own, `DInv`, on top of that of phi
placement. `GraphInv` says that the recursion that connects blocks leaves a graph in which
predecessors are the reverse of connections and the visited blocks are those there is a way to
(`Linked`). Dominance is by ways: a block dominates those that no way from the entry reaches without
it. Of the reference that is all the proof uses, in the form of closed sets: a set that
holds the entry and is closed under connections without d holds all that d does not
dominate (`Transfer`, `Chain`), so that a block other than its dominator is dominated exactly if all of
its predecessors are. `NewDominatorsFacts` says what a turn of the iteration makes: what the list of
one predecessor keeps of the blocks that are counted as often as there are predecessors, and then the
block. `ExactInv` is about the turns so far. Where blocks come in order, a list that was
renewed is exact and its numbers rise, and predecessors still to come
have all blocks, from which nothing is lost (`OrderedDoms`, `NewInOrder`, `NewExact`), so one turn is enough.
Before loops the order may be any, and lists are exact only when a turn
changes nothing: the block with the fewest blocks upstream whose list is not exact would have
predecessors whose lists are (`BeforeFacts`, `SettledExact`). That an iteration that changes something
always comes to an end is not claimed; that is `Terminates`.

**Renaming.** `UsesReachingDefinition`, for every function: `rename` walks connections depth first, not
the tree of dominators, so a block where ways meet gets its names from the way that came
first, and a register loses one name when a call returns, however many the block has made. It says that the operand
still has the version of the one definition that reaches it, wherever the conditions hold that
definitions meet in phis. `Laid` keeps what the walk may rely on: an instruction names no register twice, a phi
comes before whatever uses anything, and a block has a phi for each register it should. `FitInv` is the heart:
for each tracked register there are heights, as many as there are calls, how many names it had when each call
began. A call has added one exactly if its block has defined the register by now, which is when its set
of assigned registers has it and the return takes one back; the latest name at a height is that of a definition
that some call below has settled, and the block of the call is one that this definition has reached
(`ReachedBy`: on the way so far no block defined the register again). Where the height is zero, there is
a way to the block that defines the register nowhere. `FitInto`, `FitBack` and `FitInstruction` carry this
through the three kinds of steps. `UsesInv` says that what has been renamed means what the latest name meant
then; `SettledKept`, that versions of settled definitions do not change any more, keeps it. When the walk is
over it has been to every block there is a way to (`AllReady`: visited blocks are closed under connections),
so every operand names some definition that reaches it. That there is only one is `OneReaches`: where two
would, one of them would reach the block past a phi (`ReachedDominated`: what reaches a block without
a phi dominates it, and of two that dominate a block one dominates the other), which
needs exact dominators and so `DInv`. Assumed beyond the above: labels, jumps and returns assign nothing, no
instruction assigns a register twice, what is retained is finite (`FunctionsAssumption`,
ssa/instruction.hpp:32-85). `TypeOK` is then read off from all of these invariants and a small one
(`TypeInv`) for what they leave out.

Changes that the proofs asked for. In the propagator: operands are tried one by one, where an
instruction was taken as a set of ids and roles and was wrong about `move x, x`; `AtOnce` speaks of
every instruction that both marks and reads; `Initialised` and `AlwaysTried` are conditions of the
property, where the functions of the run were filtered; the fixed points are recursive functions.
In the others: `SlotsSurvive` is claimed once the body has
assigned its variables (`Used`), where it spoke of any operation behind the first and was
wrong for a body that begins with a call; the vectors of the resolver are given by `Kept`,
which says of any set of positions what `erase_if` leaves, where a `SelectSeq` stood of which
the provers know nothing, and so are the blocks' beginnings and the assigning
blocks of the SSA builder (`Ascending`); `Iterate` is a recursive function instead of a fold;
`TypeOK` of the resolver says what its entries are, and its instructions carry their numbers; the dominators that a turn keeps are given by
`Met` and `Kept`, where a sequence was flattened and filtered; `rename` adds to its maps in closed form, a name for each
occurrence, where it folded over instructions and registers; what a definition reaches is a least set of blocks
(`Through`), where pairs of block and definition were iterated; operations have a finite type; and `PhisExact` speaks of the moment when
renaming begins, because afterwards nothing it names changes but the names. `DominatorsSound` said that no block
loses a dominator where loops do not nest. The attempt to prove it gave `while(a){ do{}while(b); break; }`,
where one does; `UsesReachingDefinition` was wrong there as well, and wrong about memory written in a loop and behind it; what
it said of phis is `DefinitionsMeetInPhis` now. They have their present
conditions since, and the run has the functions that show that they are needed.

Only model-checked, and why:

- Liveness (`Terminates`, `AcyclicTerminates`, `EndsForPlainLoops`): out of the prover's
  reach, as is every property under fairness.
- `ImplementsIR`, an action property over the text and the processor: the
  machines of both sides are folds over sequences of instructions.
- The four properties of `semantic`, and `OptimizerKeepsOutcome`: the references
  (`WellFormed`, `IRBuilder`) are recursive over trees and paths, and modules with RECURSIVE
  operators are out of the prover's reach.
- `HolesAreFilled`: an argument about the order in which a depth-first search with one shared set of
  visited blocks tries the paths of a reducible graph, while earlier searches have changed the ranges
  it reads. Beyond the run it was tried outside TLC on all reducible graphs of up to five
  blocks, without a counterexample.
- `DefinitionsMeetInPhis`, which speaks of dominators that are kept though they may not be exact, and
  of what runners do with them; `TypeOK` of the peephole.
- `Assembles`, `PeepholeKeepsOutcome`, `ReadsInBounds`: text is made by folds and
  flattened sequences, of which the provers know nothing but the definition.

## Findings

Four are runs that end in a violation (above). Others are documented as hazards,
or limit the conditions of properties: a function with seven `int` parameters
makes `m_registers.at` throw (code_generator.cpp:117); one register per class is
kept back where the comment says two (register_allocator.cpp:18) and the code
generator uses two (code_generator.cpp:43); a second return pops the
callee-saved registers in the wrong order (686); `r15` and `r14` are written as spill registers
without being saved (633, 757-787); a label may be overtaken by another one in `r15`
(move_resolver.cpp:52), stack arguments are pushed from left to right where all register
arguments are isolated (111-115), and one that lives in memory before its `lea` (94); alignment opens a gap between
stack arguments and return address (655); the rounding `n + n % 16` (126); a structure
whose size leaves 3, 5, 6 or 7 makes the copy loop run for ever, because the
rounded chunk is subtracted from an unsigned rest (929-952); the eight
conditions of `KnownWrong`; `--parallel` loses files (main.cpp:164); the
statement `t = *p` stores the pointer (ssa/builder.cpp:320); `-O1` makes a copy
of a structure an alias (ssa/copy_propagator.cpp:24) and goes wrong in the five
ways of the second table; a copy of a retained variable is replaced by the variable
also behind a recursive call that changes it; the operator `||` makes the compiler
crash at every level (builder.cpp:383, 890), and so does a folded number that is
the operand of an operation on memory (copy_propagator.cpp:69); two ranges of which one
contains the other may share a register (register_allocator.cpp:189); the index of an
address behind a retained base gets no range at all, so nothing keeps its register
(liveness_propagator.cpp:161-162); `fillHoles` fills only some of the blocks of a loop with two
entries (114-149); a block that comes before its predecessors loses a dominator, and with it a phi
is lost (ssa/builder.cpp:747, `while(a){ do{}while(b); break; }`); memory written in a loop and
behind it has no phi where the loop begins (ssa/builder.cpp:747, 769, `while(c){ *p = x; } *p = x;`).

## What is not modelled, and the plan

1. The rest of the lowering: casts, members and structures, string literals;
   the other operators that are folded; calls that run the same function again
   and so change its retained variables; `IRMachine` as the meaning of what comes
   out of `IRBuilder`, so that the whole way from statements to the processor is
   one chain.
2. Propagator and allocator composed, for the property that two values alive
   together never share a register, under the conditions found so far; its
   homes as the input of `InstructionSelection`.
3. Macro evaluator: order of expansion, nodes shared between expansions.
4. The rest of instruction selection: unsigned types and `double`, arrays,
   retained variables, copies of more than 32 bytes, which need loops in the
   text; functions with more than one argument in memory. Until then operands of
   an instruction have the types it says, where the code writes them into
   operands that instructions share (415).
5. The other callers of `resolve`, and the order of moves between xmm registers.

Theorems to come: `HolesAreFilled`; `TypeOK` of the peephole's cursor; `ReadsInBounds`;
`DefinitionsMeetInPhis`.

Lexer, parser, emitter and printers are pure translations between texts and
trees with no state worth a model; the standard library and the tests are
programs, not parts of the compiler.
