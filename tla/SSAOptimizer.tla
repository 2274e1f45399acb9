---------------------------- MODULE SSAOptimizer ----------------------------
(***************************************************************************)
(* What Builder::build does with a function at optimization level 1: copy  *)
(* propagation, elimination of common subexpressions and constant folding, *)
(* one after the other until a turn changes nothing.                       *)
(*                                                                         *)
(* replace and CSE::run are walks of the blocks that call themselves;      *)
(* their calls are on the stack.  Expressions are told apart by what their *)
(* hash is made of.                                                        *)
(***************************************************************************)
EXTENDS SSABuilder

IR == INSTANCE IRBuilder

LOCAL INSTANCE SequencesExt
LOCAL INSTANCE FiniteSetsExt
LOCAL INSTANCE TLC

VARIABLES
  cursor,            \* the instruction propagate has come to
  visits,            \* "visited" in replace
  replaced, doErase, \* what the calls of replace found
  change,            \* whether this turn has changed something
  expressions,       \* the first register for an expression
  versioned,         \* originalToVersioned
  built, regular     \* the function before, and whether the passes are right for it

copying == <<cursor, visits, replaced, doErase>>
eliminating == <<expressions, versioned>>
original == <<built, regular>>
optimizing == <<copying, change, eliminating, original>>

\* What the passes leave alone.
Fixed == UNCHANGED <<fn, conns, preds, at, dominance, placing, phis, renaming, built>>

-----------------------------------------------------------------------------
\* An assignment has its operands and then the memory it names; a folded one none.
MemoryOf(ins) == IF ins.kind = "assign" /\ ins.uses # <<>> THEN <<ins.uses[Len(ins.uses)]>> ELSE <<>>
Operands(ins) == IF MemoryOf(ins) = <<>> THEN ins.uses ELSE Front(ins.uses)
Names(ins, n) == n \in ToSet(Operands(ins))

\* CopyPropagator::propagate, lines 19-26.
IsCopy(i) ==
  /\ code[i].kind = "assign" /\ code[i].op = "load"
  /\ code[i].to[1].id \notin fn.retains
  /\ \A n \in ToSet(Operands(code[i])) : n.id \notin fn.dependent
Copies == {i \in DOMAIN code : i >= cursor /\ IsCopy(i)}

\* The copy in hand: what is to be replaced, with what, and the memory at that place.
Repl == code[cursor].to[1]
With == Operands(code[cursor])
MemoryVersion == MemoryOf(code[cursor])

\* Of the uses only assignments are asked for the memory they depend on.
Compares(ins) == ins.kind = "assign" /\ ins.dependent

\* Where a step of the passes is known to go wrong (see the README); regular says that
\* none was taken.  First: what runs after an instruction, when another does not run again.
NextOf(i) ==
  CASE code[i].kind = "return" -> {}
    [] code[i].kind = "jump" -> {JumpTarget(code[i].label)}
    [] code[i].kind = "jumpif" -> {JumpTarget(code[i].label), i + 1}
    [] OTHER -> {i + 1}
Beyond(i, stop) ==
  LET Step(S) == UNION {{j} \cup IF j = stop THEN {} ELSE NextOf(j) : j \in S}
  IN  FoldLeft(LAMBDA S, k : Step(S), NextOf(i), code)
Overtaken(i, use, changes) == \E d \in (changes \cap Beyond(i, i)) \ {i} : use \in Beyond(d, i)

Kinds(kinds) == {i \in DOMAIN code : code[i].kind \in kinds}
Assignments(r) == {i \in Kinds({"assign", "call", "allocate"}) : Defines(i, r)}
PointedAt == {code[i].uses[1].id : i \in {j \in Kinds({"assign"}) : code[j].op = "point"}}

\* All versions of a register are one register again after the passes: its copy is not
\* it any more once it is assigned.
Reassigned(i, use) == \E n \in ToSet(Operands(code[i])) : Overtaken(i, use, Assignments(n.id))
\* The memory's version tells assignments alone that a variable in memory has changed,
\* and a call leaves it as it is.
Missed(i, use) ==
  /\ code[i].to[1].id \in PointedAt
  /\ Overtaken(i, use, Kinds({"call"}) \cup IF Compares(code[use]) THEN {} ELSE Kinds({"write"}))
RightCopy(i) ==
  \A use \in DOMAIN code :
    Names(code[use], code[i].to[1]) /\ code[use].kind # "phi" /\ code[use].op # "point" =>
      ~Reassigned(i, use) /\ ~Missed(i, use)

\* A variable in memory is read there also where no instruction names it, and an address
\* keeps a register whose number is known.
RightErasure ==
  /\ Repl.id \notin PointedAt
  /\ \A use \in DOMAIN code : code[use].op = "ref" => ~Names(code[use], Repl)

\* An expression of a block that does not come first, or of memory that a call or a
\* variable has changed.
RightReuse(i, first) ==
  LET j == CHOOSE k \in DOMAIN code : code[k].to = <<first>>
      variables == UNION {Assignments(q) : q \in PointedAt}
  IN  /\ Dominates(BlockForInstruction(j), BlockForInstruction(i))
      /\ code[i].op = "deref" \/ code[i].dependent => ~Overtaken(j, i, Kinds({"call"}) \cup variables)

TryCopy ==
  /\ pc = "propagate"
  /\ \E i \in Copies, b \in Blocks :
       /\ \A j \in Copies : i <= j
       /\ b = BlockForInstruction(i)
       /\ cursor' = i
       /\ visits' = [c \in Blocks |-> IF c = b THEN 1 ELSE 0]
       /\ stack' = <<[Call(b) EXCEPT !.next = 0, !.instruction = i + 1]>>
       /\ regular' = (regular /\ RightCopy(i))
  /\ replaced' = FALSE /\ doErase' = TRUE
  /\ pc' = "replace"
  /\ UNCHANGED <<code, blocks, visited, change, eliminating>>
  /\ Fixed

\* A use that depends on memory waits for the memory the copy was made with.
Waits(ins) == Compares(ins) /\ MemoryOf(ins) # MemoryVersion

\* tryReplace: in an address only a register takes the place of another.
Replaceable(ins) == ~Waits(ins) /\ (ins.op = "ref" => With # <<>>)
Replacement(n) == IF n = Repl THEN With ELSE <<n>>
Numbers(n) == IF n = Repl THEN code[cursor].imm ELSE <<>>
Replace(ins) ==
  [ins EXCEPT !.uses = FlattenSeq([k \in DOMAIN Operands(ins) |-> Replacement(ins.uses[k])]) \o MemoryOf(ins),
              !.imm = @ \o FlattenSeq([k \in DOMAIN Operands(ins) |-> Numbers(ins.uses[k])])]

\* Mutant: a phi does not keep the copy it names.
Needs_NoPhi(ins) == Names(ins, Repl) /\ ins.op = "point"
\* Lines 90-135 for one instruction.  A phi and the address of a register keep it.
Needs(ins) == Names(ins, Repl) /\ (ins.kind = "phi" \/ ins.op = "point")
Uses(ins) == Names(ins, Repl) /\ ~Needs(ins)
Takes(ins) == Uses(ins) /\ Replaceable(ins)

\* A number that was folded has no memory to compare with: a null pointer.
Crashes(ins) == Uses(ins) /\ Compares(ins) /\ MemoryVersion = <<>>

ReplaceBlock ==
  /\ pc = "replace" /\ stack # <<>> /\ Top.next = 0
  /\ LET range == Top.instruction..blocks[Top.block].last
     IN  /\ \A i \in range : ~Crashes(code[i])
         /\ code' = [i \in DOMAIN code |-> IF i \in range /\ Takes(code[i]) THEN Replace(code[i]) ELSE code[i]]
         /\ replaced' = (replaced \/ \E i \in range : Takes(code[i]))
         /\ doErase' = (doErase /\ \A i \in range : ~Needs(code[i]) /\ ~(Uses(code[i]) /\ Waits(code[i])))
  /\ stack' = [stack EXCEPT ![Len(stack)].next = 1]
  /\ UNCHANGED <<pc, blocks, visited, cursor, visits, change, eliminating, regular>>
  /\ Fixed

ReplaceCrashes ==
  /\ pc = "replace" /\ stack # <<>> /\ Top.next = 0
  /\ \E i \in Top.instruction..blocks[Top.block].last : Crashes(code[i])
  /\ pc' = "crashed"
  /\ UNCHANGED <<code, blocks, visited, stack, copying, change, eliminating, regular>>
  /\ Fixed

\* A block is visited twice at most.
ReplaceNext ==
  /\ pc = "replace" /\ stack # <<>> /\ Top.next \in DOMAIN conns[Top.block]
  /\ LET s == conns[Top.block][Top.next]
         resumed == [stack EXCEPT ![Len(stack)].next = @ + 1]
     IN  IF visits[s] > 1 THEN stack' = resumed /\ UNCHANGED visits
         ELSE /\ visits' = [visits EXCEPT ![s] = @ + 1]
              /\ stack' = Append(resumed, [Call(s) EXCEPT !.next = 0, !.instruction = blocks[s].first])
  /\ UNCHANGED <<pc, code, blocks, visited, cursor, replaced, doErase, change, eliminating, regular>>
  /\ Fixed

ReplaceReturns ==
  /\ pc = "replace" /\ stack # <<>> /\ Top.next > Len(conns[Top.block])
  /\ stack' = Front(stack)
  /\ UNCHANGED <<pc, code, blocks, visited, copying, change, eliminating, regular>>
  /\ Fixed

\* Lines 31-46: the copy is erased and propagate begins anew.
Shift(i) == IF i > cursor THEN i - 1 ELSE i
Erase ==
  /\ pc = "replace" /\ stack = <<>> /\ replaced /\ doErase
  /\ code' = RemoveAt(code, cursor)
  /\ blocks' = [b \in Blocks |-> [first |-> Shift(blocks[b].first), last |-> Shift(blocks[b].last)]]
  /\ change' = TRUE /\ cursor' = 1
  /\ regular' = (regular /\ RightErasure)
  /\ pc' = "propagate"
  /\ UNCHANGED <<visited, stack, visits, replaced, doErase, eliminating>>
  /\ Fixed

Keep ==
  /\ pc = "replace" /\ stack = <<>> /\ ~(replaced /\ doErase)
  /\ cursor' = cursor + 1
  /\ pc' = "propagate"
  /\ UNCHANGED <<code, blocks, visited, stack, visits, replaced, doErase, change, eliminating, regular>>
  /\ Fixed

-----------------------------------------------------------------------------
\* CSE::run: expressions and versions are those of all blocks visited before.
StartCSE ==
  /\ pc = "propagate" /\ Copies = {}
  /\ pc' = "cse"
  /\ stack' = <<[Call(1) EXCEPT !.instruction = blocks[1].first]>> /\ visited' = {1}
  /\ expressions' = <<>> /\ versioned' = [r \in Registers |-> <<>>]
  /\ UNCHANGED <<code, blocks, copying, change, regular>>
  /\ Fixed

\* m_dominated.
DominatedBy(b) == SelectSeq([c \in Blocks |-> c], LAMBDA c : b \in ToSet(dominators[c]))

Common == IR!Commutative \cup {"lnot", "point", "deref", "pderef"}
Hash(ins) ==
  IF ins.op \in IR!Commutative
  THEN <<ins.op, ToSet(Operands(ins)), ToSet(ins.imm), MemoryOf(ins)>>
  ELSE <<ins.op, Operands(ins), ins.imm, MemoryOf(ins)>>
Considered(ins) ==
  /\ ins.kind = "assign" /\ \E n \in ToSet(MemoryOf(ins)) : ~n.phi
  /\ ins.op # "ref" => \A n \in ToSet(Operands(ins)) : ~n.phi
UpToDate(n) == versioned'[n.id] = <<n>>

\* Lines 24-71 for one instruction.
Eliminate(i) ==
  LET ins == code[i]
      hash == Hash(ins)
      first == expressions[hash]
      loaded == [ins EXCEPT !.op = "load", !.uses = <<first>> \o MemoryOf(ins), !.imm = <<>>, !.dependent = FALSE]
  IN  IF ~Considered(ins) THEN UNCHANGED <<code, change, eliminating, regular>>
      ELSE /\ versioned' = [versioned EXCEPT ![ins.to[1].id] = <<ins.to[1]>>]
           /\ IF ins.op \in Common /\ hash \notin DOMAIN expressions
              THEN expressions' = (hash :> ins.to[1]) @@ expressions
              ELSE UNCHANGED expressions
           /\ IF ins.op \in Common /\ hash \in DOMAIN expressions /\ UpToDate(first)
              THEN code' = [code EXCEPT ![i] = loaded] /\ change' = TRUE /\ regular' = (regular /\ RightReuse(i, first))
              ELSE UNCHANGED <<code, change, regular>>

EliminateInstruction ==
  /\ pc = "cse" /\ stack # <<>> /\ Top.instruction <= blocks[Top.block].last
  /\ Eliminate(Top.instruction)
  /\ stack' = [stack EXCEPT ![Len(stack)].instruction = @ + 1]
  /\ UNCHANGED <<pc, blocks, visited, copying>>
  /\ Fixed

EliminateNext ==
  /\ pc = "cse" /\ stack # <<>> /\ Top.instruction > blocks[Top.block].last
  /\ Top.next \in DOMAIN DominatedBy(Top.block)
  /\ LET d == DominatedBy(Top.block)[Top.next]
         resumed == [stack EXCEPT ![Len(stack)].next = @ + 1]
     IN  /\ visited' = visited \cup {d}
         /\ stack' = IF d \in visited THEN resumed ELSE Append(resumed, [Call(d) EXCEPT !.instruction = blocks[d].first])
  /\ UNCHANGED <<pc, code, blocks, copying, change, eliminating, regular>>
  /\ Fixed

EliminateReturns ==
  /\ pc = "cse" /\ stack # <<>> /\ Top.instruction > blocks[Top.block].last
  /\ Top.next > Len(DominatedBy(Top.block))
  /\ stack' = Front(stack)
  /\ UNCHANGED <<pc, code, blocks, visited, copying, change, eliminating, regular>>
  /\ Fixed

-----------------------------------------------------------------------------
\* ConstantFolding::run; the result names no memory.
Foldable(ins) == ins.kind = "assign" /\ Operands(ins) = <<>> /\ ins.op \in {"add", "lnot"}
Fold(ins) == [ins EXCEPT !.op = "load", !.uses = <<>>, !.imm = <<IR!Compute(ins.op, @)>>, !.dependent = FALSE]

\* One turn of the loop of build, lines 128-134, ends here.
FoldConstants ==
  /\ pc = "cse" /\ stack = <<>>
  /\ code' = [i \in DOMAIN code |-> IF Foldable(code[i]) THEN Fold(code[i]) ELSE code[i]]
  /\ pc' = IF change \/ \E i \in DOMAIN code : Foldable(code[i]) THEN "propagate" ELSE "optimized"
  /\ change' = FALSE /\ cursor' = 1
  /\ UNCHANGED <<blocks, visited, stack, visits, replaced, doErase, eliminating, regular>>
  /\ Fixed

-----------------------------------------------------------------------------
\* Every name is that of the definition that reaches it, and a phi has all that reach it.
PhisComplete(r) ==
  LET reached == [d \in Leaving(r) |-> ReachedBy(d, r)]
  IN  \A b \in Reachable : \A i \in InstructionsOf(b) :
        code[i].kind = "phi" /\ Defines(i, r) =>
          \A d \in DOMAIN reached : b \in reached[d] => \E n \in ToSet(code[i].uses) : n.version = VersionAt(d, r)
RightNames ==
  /\ NamesReach(Mem)
  /\ \A r \in Registers : Assignments(r) # {} => NamesReach(r) /\ PhisComplete(r)

StartOptimizing ==
  /\ pc = "done"
  /\ pc' = "propagate" /\ cursor' = 1 /\ change' = FALSE
  /\ built' = code /\ regular' = RightNames
  /\ UNCHANGED <<fn, code, graph, visited, stack, at, dominance, placing, phis, renaming>>
  /\ UNCHANGED <<visits, replaced, doErase, eliminating>>

Stopped == pc \in {"optimized", "crashed"} /\ UNCHANGED <<vars, optimizing>>

Start ==
  /\ Init
  /\ cursor = 1 /\ visits = <<>> /\ replaced = FALSE /\ doErase = TRUE /\ change = FALSE
  /\ expressions = <<>> /\ versioned = <<>> /\ built = <<>> /\ regular = TRUE

Optimize ==
  \/ StartOptimizing \/ TryCopy \/ ReplaceBlock \/ ReplaceCrashes \/ ReplaceNext \/ ReplaceReturns \/ Erase \/ Keep
  \/ StartCSE \/ EliminateInstruction \/ EliminateNext \/ EliminateReturns \/ FoldConstants

Compile == Next /\ UNCHANGED optimizing

NextOptimized == Compile \/ Optimize \/ Stopped
SpecOptimized == Start /\ [][NextOptimized]_<<vars, optimizing>> /\ WF_<<vars, optimizing>>(NextOptimized)

-----------------------------------------------------------------------------
Paths == [1..4 -> BOOLEAN]

\* The function that the passes leave does what the function did before, along every
\* path: it tests the same conditions, writes the same, gives calls the same and leaves
\* the same in its result and the retained variables.  Names that are wrong and the
\* steps named above are left out, each a case where the compiled program goes wrong.
OptimizerKeepsOutcome ==
  pc = "optimized" /\ regular =>
    LET kept == fn.retains \cup {fn.optReturn}
    IN  \A path \in Paths : IR!Outcome(code, path, kept) = IR!Outcome(built, path, kept)

\* buildCFG and the loop of the passes end when loops do not nest and a block with
\* several predecessors lies in a loop or before all loops: the vectors of dominators
\* come to rest although they may grow again, the runners reach the dominator of the
\* block or the entry, and a turn of the passes at last finds nothing to change.
EndsForPlainLoops ==
  <>(pc \in {"optimized", "crashed"} \/ (pc = "frontiers" /\ (JoinBehindLoop \/ LoopsNest)))
=============================================================================
