---------------------------- MODULE SSABuilder ----------------------------
(***************************************************************************)
(* Builder::buildCFG (builder.cpp): the instructions of a function are cut *)
(* into blocks and connected, dominators and dominance frontiers are       *)
(* computed, phis are inserted, and every register gets versions in one    *)
(* walk along the connections.                                             *)
(*                                                                         *)
(* An instruction keeps the registers it assigns and the operands it uses, *)
(* in order, and the immediates apart from them; "mem" (Mem) is the        *)
(* register that stands for memory, the last operand of an assignment.     *)
(* Types are left out, and so is the place of a phi's moves (m_placeOpAt): *)
(* target and operands of a phi have the same original id, hence the IR    *)
(* builder erases them.  Instructions and blocks are counted from 1.       *)
(***************************************************************************)
EXTENDS Integers, Sequences, FiniteSets, Vectors

Seqs == INSTANCE SequencesExt

CONSTANTS
  Registers,  \* original ids (m_originalId), Mem among them
  Mem,
  Functions   \* the functions that may be built

ASSUME MemAssumption == Mem \in Registers

\* m_id: the original id, the number behind ":" and the suffix "_phi".
Name == [id : Registers, version : Nat, phi : BOOLEAN]
Plain(r) == [id |-> r, version |-> 0, phi |-> FALSE]

\* call: its parameters are replaced before its result is assigned.
Kind == {"label", "assign", "call", "write", "allocate", "jumpif", "jump", "return", "phi"}
Jumps == {"jumpif", "jump"}
\* Operation::Type; instructions other than assignments have none.
OperationType ==
  {"", "add", "subtract", "multiply", "divide", "point", "deref", "pderef", "upsize", "downsize", "ceq", "cneq",
   "cge", "cle", "cgt", "clt", "mod", "and", "or", "xor", "lnot", "load", "ref"}
\* The operation of some assignments reads memory (dependent).
Instruction ==
  [kind : Kind, to : Seq(Name), uses : Seq(Name), label : Nat,
   op : OperationType, imm : Seq(Int), dependent : BOOLEAN]

\* What build(FunctionDefinitionNode) hands over: a label first and a return last, no phis
\* yet, nothing named by labels, jumps and returns but what is checked (instruction.hpp:32-77).
ASSUME FunctionsAssumption ==
  \A f \in Functions :
    /\ f.args \in Seq(Registers) /\ f.retains \subseteq Registers /\ IsFiniteSet(f.retains) /\ f.dependent \subseteq Registers /\ f.optReturn \in Registers
    /\ f.code \in Seq(Instruction) /\ f.code # <<>>
    /\ f.code[1].kind = "label" /\ f.code[Len(f.code)].kind = "return"
    /\ \A i \in DOMAIN f.code :
         /\ f.code[i].kind \in Jumps =>
              \E j \in DOMAIN f.code : f.code[j].kind = "label" /\ f.code[j].label = f.code[i].label
         /\ f.code[i].kind # "phi"
         /\ f.code[i].kind \in {"label", "jump", "jumpif", "return"} => f.code[i].to = <<>>
         /\ f.code[i].kind \in {"label", "jump", "return"} => f.code[i].uses = <<>>
         /\ \A k \in DOMAIN f.code[i].to : f.code[i].to[k].version = 0
         /\ \A j, k \in DOMAIN f.code[i].to : f.code[i].to[j].id = f.code[i].to[k].id => j = k

VARIABLES
  fn,
  code,        \* m_instructions
  pc,
  blocks,      \* m_instructionRange of every block
  conns,       \* m_connections
  preds,       \* m_predecessors
  visited,
  stack,       \* the calls of buildGraphRecursive and of rename
  at,          \* the block a loop over the blocks has come to
  dominators,  \* m_dominators
  changed,
  edge, runner, \* the next predecessor of that block, and "runner"
  frontiers,   \* m_dominanceFrontiers
  todo,        \* registers whose phis are still to place
  register,    \* the register phis are being placed for
  work,        \* "blocks" in placePhiBlocks
  seen,        \* "visited" in placePhiBlocks
  joins,       \* frontiers of the block in hand still to look at
  phis,        \* the keys of m_phiForVariable
  counters, names, last  \* counters, nameStack, nameForOperand of rename

graph == <<blocks, conns, preds>>
walking == <<edge, runner>>
renaming == <<counters, names, last>>
placing == <<todo, register, work, seen, joins>>
dominance == <<dominators, changed, walking, frontiers>>
vars == <<fn, code, pc, graph, visited, stack, at, dominance, placing, phis, renaming>>

-----------------------------------------------------------------------------
Blocks == DOMAIN blocks
InstructionsOf(b) == blocks[b].first .. blocks[b].last
Top == stack[Len(stack)]

\* Lines 981-982: the first of some labels, and what follows a jump, begins a block.
IsLabel(i) == code[i].kind = "label"
IsJump(i) == code[i].kind \in Jumps
Begins(i) ==
  /\ IsLabel(i) \/ (i > 1 /\ IsJump(i - 1))
  /\ ~(IsLabel(i) /\ i > 1 /\ IsLabel(i - 1))
Starts == Ascending({i \in DOMAIN code : Begins(i)})

BlockForInstruction(i) == CHOOSE b \in Blocks : i \in InstructionsOf(b)
JumpTarget(label) ==
  CHOOSE i \in DOMAIN code :
    /\ IsLabel(i) /\ code[i].label = label
    /\ \A j \in 1..(i - 1) : ~(IsLabel(j) /\ code[j].label = label)

\* Lines 1001-1022: a return anywhere in the block leaves the function.
Successors(b) ==
  LET final == blocks[b].last
      jumped == IF IsJump(final) THEN <<BlockForInstruction(JumpTarget(code[final].label))>> ELSE <<>>
      fallen == IF code[final].kind # "jump" /\ final < Len(code) THEN <<BlockForInstruction(final + 1)>> ELSE <<>>
  IN  IF \E i \in InstructionsOf(b) : code[i].kind = "return" THEN <<>> ELSE jumped \o fallen

-----------------------------------------------------------------------------
Init ==
  /\ fn \in Functions
  /\ code = fn.code /\ pc = "blocks"
  /\ blocks = <<>> /\ conns = <<>> /\ preds = <<>>
  /\ visited = {} /\ stack = <<>> /\ at = 1
  /\ dominators = <<>> /\ changed = FALSE /\ frontiers = <<>>
  /\ edge = 1 /\ runner = 0
  /\ todo = {} /\ register = Mem /\ work = <<>> /\ seen = {} /\ joins = {}
  /\ phis = <<>>
  /\ counters = [r \in Registers |-> 0]
  /\ names = [r \in Registers |-> <<>>]
  /\ last = [r \in Registers |-> <<>>]

\* The call for block b of buildGraphRecursive or rename: the connection it has come
\* to; in rename also the next instruction and the call's own two collections.
Call(b) == [block |-> b, next |-> 1, instruction |-> 0, assigned |-> {}, missing |-> {}]

GetBlocks ==
  /\ pc = "blocks"
  /\ LET s == Starts
     IN  /\ blocks' = [b \in DOMAIN s |-> [first |-> s[b], last |-> IF b = Len(s) THEN Len(code) ELSE s[b + 1] - 1]]
         /\ conns' = [b \in DOMAIN s |-> <<>>] /\ preds' = [b \in DOMAIN s |-> <<>>]
         /\ phis' = [b \in DOMAIN s |-> {}] /\ frontiers' = [b \in DOMAIN s |-> {}]
  /\ visited' = {1} /\ stack' = <<Call(1)>>
  /\ pc' = "connect"
  /\ UNCHANGED <<fn, code, at, dominators, changed, walking, placing, renaming>>

\* One connection of buildGraphRecursive, and the call for the block it leads to.
Connect ==
  /\ pc = "connect" /\ stack # <<>>
  /\ LET b == Top.block
         s == Successors(b)[Top.next]
         resumed == [stack EXCEPT ![Len(stack)].next = @ + 1]
     IN  /\ Top.next <= Len(Successors(b))
         /\ conns' = [conns EXCEPT ![b] = Append(@, s)]
         /\ preds' = [preds EXCEPT ![s] = Append(@, b)]
         /\ visited' = visited \cup {s}
         /\ stack' = IF s \in visited THEN resumed ELSE Append(resumed, Call(s))
  /\ UNCHANGED <<fn, code, pc, blocks, at, dominance, placing, phis, renaming>>

Connected ==
  /\ pc = "connect" /\ stack # <<>>
  /\ Top.next > Len(Successors(Top.block))
  /\ stack' = Seqs!Front(stack)
  /\ UNCHANGED <<fn, code, pc, graph, visited, at, dominance, placing, phis, renaming>>

\* Mutant: every vector starts empty.
StartDominators_Empty ==
  /\ pc = "connect" /\ stack = <<>>
  /\ dominators' = [b \in Blocks |-> IF b = 1 THEN <<1>> ELSE <<>>]
  /\ pc' = "dominate" /\ at' = 2 /\ changed' = FALSE
  /\ UNCHANGED <<fn, code, graph, visited, stack, walking, frontiers, placing, phis, renaming>>

\* Lines 720-722: every block starts with all blocks, in order, the first with itself.
StartDominators ==
  /\ pc = "connect" /\ stack = <<>>
  /\ dominators' = [b \in Blocks |-> IF b = 1 THEN <<1>> ELSE [c \in Blocks |-> c]]
  /\ pc' = "dominate" /\ at' = 2 /\ changed' = FALSE
  /\ UNCHANGED <<fn, code, graph, visited, stack, walking, frontiers, placing, phis, renaming>>

-----------------------------------------------------------------------------
\* Lines 732-747: what all predecessors have, in the order it is met, then the block.
Occurrences(s, x) == Cardinality({i \in DOMAIN s : s[i] = x})
Met(b) ==
  LET of[k \in 0..Len(preds[b])] == IF k = 0 THEN <<>> ELSE of[k - 1] \o dominators[preds[b][k]]
  IN  of[Len(preds[b])]
NewDominators(b) ==
  LET met == Met(b)
      First(i) == \A j \in 1..(i - 1) : met[j] # met[i]
  IN  Append(Kept(met, {i \in DOMAIN met : First(i) /\ Occurrences(met, met[i]) = Len(preds[b])}), b)

Dominate ==
  /\ pc = "dominate" /\ at <= Len(blocks)
  /\ dominators' = [dominators EXCEPT ![at] = NewDominators(at)]
  /\ changed' = (changed \/ dominators[at] # NewDominators(at))
  /\ at' = at + 1
  /\ UNCHANGED <<fn, code, pc, graph, visited, stack, walking, frontiers, placing, phis, renaming>>

DominateAgain ==
  /\ pc = "dominate" /\ at > Len(blocks) /\ changed
  /\ at' = 2 /\ changed' = FALSE
  /\ UNCHANGED <<fn, code, pc, graph, visited, stack, dominators, walking, frontiers, placing, phis, renaming>>

StartFrontiers ==
  /\ pc = "dominate" /\ at > Len(blocks) /\ ~changed
  /\ pc' = "frontiers" /\ at' = 1
  /\ UNCHANGED <<fn, code, graph, visited, stack, dominance, placing, phis, renaming>>

\* Mutant: the first one that is not the block.
ImmediateDominator_First(b) ==
  LET others == SelectSeq(dominators[b], LAMBDA d : d # b)
  IN  IF others = <<>> THEN 0 ELSE others[1]

\* getImmediateDomiator: the last one that is not the block; 0 is nullptr.
ImmediateDominator(b) ==
  LET others == SelectSeq(dominators[b], LAMBDA d : d # b)
  IN  IF others = <<>> THEN 0 ELSE others[Len(others)]

\* Lines 764-779, runner by runner: from every predecessor of a block that has
\* several, up to the immediate dominator of the block.  0 is no runner.
NextFrontier ==
  /\ pc = "frontiers" /\ at <= Len(blocks) /\ runner = 0
  /\ Len(preds[at]) < 2 \/ edge > Len(preds[at])
  /\ at' = at + 1 /\ edge' = 1
  /\ UNCHANGED <<fn, code, pc, graph, visited, stack, dominators, changed, runner, frontiers, placing, phis, renaming>>

\* Mutant: the runner is stopped by nothing but the entry.
Unless_Never(b) == b

\* Where a runner goes: nowhere from the dominator of the block in hand.
Unless(b) == IF b = ImmediateDominator(at) THEN 0 ELSE b

StartRunner ==
  /\ pc = "frontiers" /\ at <= Len(blocks) /\ runner = 0
  /\ Len(preds[at]) >= 2 /\ edge <= Len(preds[at])
  /\ runner' = Unless(preds[at][edge]) /\ edge' = edge + 1
  /\ UNCHANGED <<fn, code, pc, graph, visited, stack, at, dominators, changed, frontiers, placing, phis, renaming>>

Run ==
  /\ pc = "frontiers" /\ runner # 0
  /\ frontiers' = [frontiers EXCEPT ![runner] = @ \cup {at}]
  /\ runner' = Unless(ImmediateDominator(runner))
  /\ UNCHANGED <<fn, code, pc, graph, visited, stack, at, dominators, changed, edge, placing, phis, renaming>>

-----------------------------------------------------------------------------
\* Lines 782-805: blocksThatAssignVariable, a block once for every assignment in it.
\* Of a write only the memory counts, of an allocation nothing does.
Counted(i) ==
  CASE code[i].kind \in {"assign", "call"} -> {n.id : n \in Seqs!ToSet(code[i].to)}
    [] code[i].kind = "write" -> {Mem}
    [] OTHER -> {}
BlocksThatAssign(r) ==
  LET places == Ascending({i \in DOMAIN code : r \in Counted(i)})
  IN  [k \in DOMAIN places |-> BlockForInstruction(places[k])]

StartPhis ==
  /\ pc = "frontiers" /\ at > Len(blocks)
  /\ todo' = {r \in Registers : Len(BlocksThatAssign(r)) > 1}
  /\ pc' = "phis"
  /\ UNCHANGED <<fn, code, graph, visited, stack, at, dominance, register, work, seen, joins, phis, renaming>>

\* An unordered_map decides which register comes next.
NextRegister ==
  /\ pc = "phis" /\ work = <<>> /\ joins = {}
  /\ \E r \in todo :
       /\ todo' = todo \ {r} /\ register' = r
       /\ work' = BlocksThatAssign(r) /\ seen' = {}
  /\ UNCHANGED <<fn, code, pc, graph, visited, stack, at, dominance, joins, phis, renaming>>

NextBlock ==
  /\ pc = "phis" /\ work # <<>> /\ joins = {}
  /\ work' = Seqs!Front(work)
  /\ joins' = frontiers[work[Len(work)]]
  /\ UNCHANGED <<fn, code, pc, graph, visited, stack, at, dominance, todo, register, seen, phis, renaming>>

\* Mutants: the block of the phi is moved like all the others as well; where a block
\* begins stays.
Moved_Twice(b, s) ==
  LET place == blocks[s].first + 1
      after(i) == IF i > place THEN i + 1 ELSE i
  IN  [first |-> after(blocks[b].first), last |-> after(blocks[b].last) + IF b = s THEN 1 ELSE 0]
\* Lines 1072-1088: the phi goes behind the first instruction of its block and
\* every range behind that place moves.
Moved(b, s) ==
  LET place == blocks[s].first + 1
      after(i) == IF i > place THEN i + 1 ELSE i
  IN  IF b = s THEN [blocks[s] EXCEPT !.last = @ + 1]
      ELSE [first |-> after(blocks[b].first), last |-> after(blocks[b].last)]
Phi(r) ==
  [kind |-> "phi", to |-> <<Plain(r)>>, uses |-> <<>>, label |-> 0, op |-> "", imm |-> <<>>, dependent |-> FALSE]

\* Mutant: a block that got a phi is not looked at in its turn.
PlacePhi_Once ==
  /\ pc = "phis"
  /\ \E s \in joins :
       /\ joins' = joins \ {s}
       /\ IF register \in phis[s] THEN UNCHANGED <<code, blocks, phis, seen>>
          ELSE /\ phis' = [phis EXCEPT ![s] = @ \cup {register}]
               /\ code' = Seqs!InsertAt(code, blocks[s].first + 1, Phi(register))
               /\ blocks' = [b \in Blocks |-> Moved(b, s)]
               /\ seen' = seen \cup {s}
       /\ work' = work
  /\ UNCHANGED <<fn, pc, conns, preds, visited, stack, at, dominance, todo, register, renaming>>

\* An unordered_set decides which frontier comes next.
PlacePhi ==
  /\ pc = "phis"
  /\ \E s \in joins :
       /\ joins' = joins \ {s}
       /\ IF register \in phis[s] THEN UNCHANGED <<code, blocks, phis, seen, work>>
          ELSE /\ phis' = [phis EXCEPT ![s] = @ \cup {register}]
               /\ code' = Seqs!InsertAt(code, blocks[s].first + 1, Phi(register))
               /\ blocks' = [b \in Blocks |-> Moved(b, s)]
               /\ seen' = seen \cup {s}
               /\ work' = IF s \in seen THEN work ELSE Append(work, s)
  /\ UNCHANGED <<fn, pc, conns, preds, visited, stack, at, dominance, todo, register, renaming>>

-----------------------------------------------------------------------------
\* What rename keeps of names: its three maps.
Maps == [counters |-> counters, names |-> names, last |-> last]
Becomes(m) == counters' = m.counters /\ names' = m.names /\ last' = m.last

\* assigned, lines 856-869, of one register after the other.
Assigned(m, rs) ==
  LET new(r) == Occurrences(rs, r)
      name(r, k) == [id |-> r, version |-> m.counters[r] + k, phi |-> FALSE]
  IN  [counters |-> [r \in Registers |-> m.counters[r] + new(r)],
       names |-> [r \in Registers |-> m.names[r] \o [k \in 1..new(r) |-> name(r, k)]],
       last |-> [r \in Registers |-> IF new(r) = 0 THEN m.last[r] ELSE <<name(r, new(r))>>]]

\* replace, lines 830-847.  Without a name, at() throws or back() reads an empty vector.
NameOf(m, r) == IF m.names[r] = <<>> THEN Plain(r) ELSE m.names[r][Len(m.names[r])]
Replaced(m, rs) ==
  [m EXCEPT !.last = [r \in Registers |-> IF r \in Seqs!ToSet(rs) THEN <<NameOf(m, r)>> ELSE m.last[r]]]
Ids(ns) == [k \in DOMAIN ns |-> ns[k].id]

\* m_memoryDependant of an operation: one of its operands is.
Dependent(ins) ==
  /\ ins.kind = "assign" /\ ins.op # "ref"
  /\ \E k \in DOMAIN ins.uses : ins.uses[k].id \in fn.dependent

\* Lines 880-940: the registers an instruction assigns get their names before its
\* operands are replaced, except those of a call.  Only nameStack hears of "_phi".
MapsForOperands(i) == IF code[i].kind = "call" THEN Maps ELSE Assigned(Maps, Ids(code[i].to))
MapsAfter(i) ==
  LET before == MapsForOperands(i)
      replaced == Replaced(before, Ids(code[i].uses))
      suffixed(r) == [before.names[r] EXCEPT ![Len(before.names[r])].phi = TRUE]
  IN  CASE code[i].kind = "phi" -> [before EXCEPT !.names[code[i].to[1].id] = suffixed(code[i].to[1].id)]
        [] code[i].kind = "call" -> Assigned(replaced, Ids(code[i].to))
        [] OTHER -> replaced
Renamed(i) ==
  LET ins == code[i]
      assigns == Assigned(Maps, Ids(ins.to))
      newTo == [k \in DOMAIN ins.to |-> assigns.last[ins.to[k].id][1]]
      newUses == [k \in DOMAIN ins.uses |-> NameOf(MapsForOperands(i), ins.uses[k].id)]
  IN  IF ins.kind = "phi" THEN [ins EXCEPT !.to = newTo]
      ELSE [ins EXCEPT !.to = newTo, !.uses = newUses, !.dependent = Dependent(ins)]

\* Lines 871-880: parameters and retained variables get a new name in every block.
EntryAssigns == (IF counters[Mem] = 0 THEN <<Mem>> ELSE <<>>) \o fn.args \o Seqs!SetToSeq(fn.retains)

\* Lines 943-967: the phis of the blocks that b leads to get the latest name known
\* anywhere, once for every connection.  Those whose register has none yet are missing, and
\* get it when the call returns, as often as b has connections.
OperandsNow(b) ==
  [q \in Blocks \X Registers |-> IF last[q[2]] = <<>> THEN 0 ELSE Occurrences(conns[b], q[1])]
Missing(b) == {q \in Seqs!ToSet(conns[b]) \X Registers : q[2] \in phis[q[1]] /\ last[q[2]] = <<>>}
OperandsLate(b, missing) ==
  [q \in Blocks \X Registers |-> IF q \in missing THEN Len(conns[b]) * Occurrences(conns[b], q[1]) ELSE 0]
WithOperands(times) ==
  LET phi(i) == <<BlockForInstruction(i), code[i].to[1].id>>
      operands(q) == [k \in 1..times[q] |-> last[q[2]][1]]
  IN  [i \in DOMAIN code |-> IF code[i].kind = "phi" THEN [code[i] EXCEPT !.uses = @ \o operands(phi(i))] ELSE code[i]]

\* rename is called for b.
Enter(b, resumed) ==
  /\ Becomes(Assigned(Maps, EntryAssigns))
  /\ visited' = visited \cup {b}
  /\ stack' = Append(resumed, [Call(b) EXCEPT !.next = 0, !.instruction = blocks[b].first, !.assigned = Seqs!ToSet(EntryAssigns)])

StartRename ==
  /\ pc = "phis" /\ todo = {} /\ work = <<>> /\ joins = {}
  /\ pc' = "rename" /\ visited' = {} /\ stack' = <<>>
  /\ UNCHANGED <<fn, code, graph, at, dominance, placing, phis, renaming>>

RenameFirst ==
  /\ pc = "rename" /\ stack = <<>> /\ visited = {}
  /\ Enter(1, <<>>)
  /\ UNCHANGED <<fn, code, pc, graph, at, dominance, placing, phis>>

\* Line 890 takes the memory of every operation, but the one that build makes for the
\* second operand of "||" has none: a null pointer.
NamesMemory(i) == code[i].kind = "assign" => code[i].uses # <<>> /\ code[i].uses[Len(code[i].uses)].id = Mem

RenameCrashes ==
  /\ pc = "rename" /\ stack # <<>> /\ Top.next = 0
  /\ Top.instruction <= blocks[Top.block].last /\ ~NamesMemory(Top.instruction)
  /\ pc' = "crashed"
  /\ UNCHANGED <<fn, code, graph, visited, stack, at, dominance, placing, phis, renaming>>

RenameInstruction ==
  /\ pc = "rename" /\ stack # <<>> /\ Top.next = 0
  /\ Top.instruction <= blocks[Top.block].last /\ NamesMemory(Top.instruction)
  /\ code' = [code EXCEPT ![Top.instruction] = Renamed(Top.instruction)]
  /\ Becomes(MapsAfter(Top.instruction))
  /\ stack' = [stack EXCEPT ![Len(stack)].instruction = @ + 1,
                            ![Len(stack)].assigned = @ \cup Seqs!ToSet(Ids(code[Top.instruction].to))]
  /\ UNCHANGED <<fn, pc, graph, visited, at, dominance, placing, phis>>

RenameOperands ==
  /\ pc = "rename" /\ stack # <<>> /\ Top.next = 0
  /\ Top.instruction > blocks[Top.block].last
  /\ code' = WithOperands(OperandsNow(Top.block))
  /\ stack' = [stack EXCEPT ![Len(stack)].next = 1, ![Len(stack)].missing = Missing(Top.block)]
  /\ UNCHANGED <<fn, pc, graph, visited, at, dominance, placing, phis, renaming>>

RenameNext ==
  /\ pc = "rename" /\ stack # <<>> /\ Top.next \in DOMAIN conns[Top.block]
  /\ LET s == conns[Top.block][Top.next]
         resumed == [stack EXCEPT ![Len(stack)].next = @ + 1]
     IN  IF s \in visited THEN stack' = resumed /\ UNCHANGED <<renaming, visited>>
         ELSE Enter(s, resumed)
  /\ UNCHANGED <<fn, code, pc, graph, at, dominance, placing, phis>>

\* Mutant: names are not taken back when a call returns.
RenameReturns_Keeps ==
  /\ pc = "rename" /\ stack # <<>> /\ Top.next > Len(conns[Top.block])
  /\ code' = WithOperands(OperandsLate(Top.block, Top.missing))
  /\ stack' = Seqs!Front(stack)
  /\ UNCHANGED <<fn, pc, graph, visited, at, dominance, placing, phis, renaming>>

\* Lines 960-972: each register loses one name however often it was assigned.
RenameReturns ==
  /\ pc = "rename" /\ stack # <<>> /\ Top.next > Len(conns[Top.block])
  /\ code' = WithOperands(OperandsLate(Top.block, Top.missing))
  /\ names' = [r \in Registers |-> IF r \in Top.assigned THEN Seqs!Front(names[r]) ELSE names[r]]
  /\ stack' = Seqs!Front(stack)
  /\ UNCHANGED <<fn, pc, graph, visited, at, dominance, placing, phis, counters, last>>

Built ==
  /\ pc = "rename" /\ stack = <<>> /\ visited # {}
  /\ pc' = "done"
  /\ UNCHANGED <<fn, code, graph, visited, stack, at, dominance, placing, phis, renaming>>

Next ==
  \/ GetBlocks \/ Connect \/ Connected
  \/ StartDominators \/ Dominate \/ DominateAgain
  \/ StartFrontiers \/ NextFrontier \/ StartRunner \/ Run
  \/ StartPhis \/ NextRegister \/ NextBlock \/ PlacePhi
  \/ StartRename \/ RenameFirst \/ RenameInstruction \/ RenameOperands \/ RenameNext \/ RenameReturns \/ RenameCrashes
  \/ Built

Spec == Init /\ [][Next]_vars /\ WF_vars(Next)

-----------------------------------------------------------------------------
Phase(p) == CASE p = "blocks" -> 1 [] p = "connect" -> 2 [] p = "dominate" -> 3 [] p = "frontiers" -> 4
              [] p = "phis" -> 5 [] p = "rename" -> 6 [] OTHER -> 7
After(p) == Phase(pc) > Phase(p)

\* Types of what the phases produce.
TypeOK ==
  /\ code \in Seq(Instruction)
  /\ \A b \in Blocks : blocks[b] \in [first : DOMAIN code, last : DOMAIN code]
  /\ After("blocks") => conns \in [Blocks -> Seq(Blocks)] /\ preds \in [Blocks -> Seq(Blocks)]
  /\ After("connect") => dominators \in [Blocks -> Seq(Blocks)]
  /\ After("blocks") => frontiers \in [Blocks -> SUBSET Blocks] /\ phis \in [Blocks -> SUBSET Registers]
  /\ visited \subseteq Blocks /\ \A k \in DOMAIN stack : stack[k].block \in Blocks
  /\ at \in 1..(Len(blocks) + 1) \cup {2} /\ changed \in BOOLEAN
  /\ todo \subseteq Registers /\ register \in Registers
  /\ work \in Seq(Blocks) /\ seen \subseteq Blocks /\ joins \subseteq Blocks
  /\ counters \in [Registers -> Nat] /\ names \in [Registers -> Seq(Name)]
  /\ \A r \in Registers : Len(last[r]) <= 1 /\ last[r] \in Seq(Name)

\* As many times as there are blocks: enough to follow every simple path.
Iterate(Step(_), start) ==
  LET after[n \in 0..Len(blocks)] == IF n = 0 THEN start ELSE LET before == after[n - 1] IN Step(before)
  IN  after[Len(blocks)]

\* Blocks that some lead to when one block may not be passed (0: any may).
LeadTo(starts, d) ==
  LET next == [b \in Blocks |-> Seqs!ToSet(conns[b]) \ {d}]
      Step(S) == S \cup UNION {next[b] : b \in S}
  IN  Iterate(Step, starts \ {d})
Reachable == LeadTo({1}, 0)
Dominated(d) == Blocks \ LeadTo({1}, d)
Dominates(d, b) == b \in Dominated(d)
Onward(b, d) == LeadTo(Seqs!ToSet(conns[b]), d)

\* Blocks in a loop, blocks that run before any, and loops inside a loop: a block
\* comes again without the one that is the head of the outer loop.
Looping == {b \in Reachable : b \in Onward(b, 0)}
BeforeLoops == LET loops == Looping IN (Reachable \ loops) \ UNION {Onward(d, 0) : d \in loops}
LoopsNest ==
  LET loops == Looping
  IN  \E h, b \in loops : h # b /\ h \in Onward(b, 0) /\ b \in Onward(b, h) /\ Dominates(h, b)

\* Whether every connection between blocks on the ways to b leads to a later block, or
\* back to one that dominates where it comes from, as that of do-while.
Orderly(b, reachable, below) ==
  LET upstream == {u \in reachable : b \in LeadTo({u}, 0)}
  IN  \A u \in upstream : \A c \in Seqs!ToSet(conns[u]) \cap upstream : u < c \/ u \in below[c]

\* Exact, outermost first: the last but one is the immediate dominator that
\* getImmediateDomiator looks for.
Exact(b, below) ==
  LET ds == dominators[b]
  IN  /\ Seqs!ToSet(ds) = {d \in Blocks : b \in below[d]}
      /\ \A i, j \in DOMAIN ds : i < j => ds[i] # ds[j] /\ ds[j] \in below[ds[i]]

\* The vectors of dominators are exact before any loop, and where blocks that dominate come
\* before those they dominate, loops or not (ssa/builder.cpp:720-753).  Elsewhere they may not
\* be: a block that has not been looked at has all blocks for dominators; one that comes before
\* its predecessors so appends itself to a vector that has it already (line 747), is counted
\* twice by the next one, lets in blocks that only some predecessors have, and loses others.
DominatorsSound ==
  pc = "frontiers" =>
    LET reachable == Reachable
        before == BeforeLoops
        below == [d \in Blocks |-> Dominated(d)]
    IN  \A b \in reachable : b \in before \/ Orderly(b, reachable, below) => Exact(b, below)

\* Whatever the order of the unordered containers, a register assigned more than
\* once has its phis in the iterated frontier of the blocks that assign it.
PhisExact ==
  pc = "rename" /\ visited = {} =>
    \A r \in Registers :
      LET FrontierOf(S) == UNION {frontiers[b] : b \in S}
          Step(S) == S \cup FrontierOf(S)
          iterated == Iterate(Step, FrontierOf(Seqs!ToSet(BlocksThatAssign(r))))
      IN  {s \in Blocks : r \in phis[s]} = IF Len(BlocksThatAssign(r)) > 1 THEN iterated ELSE {}

-----------------------------------------------------------------------------
\* Where names mean definitions.  A definition is an instruction; 0 is the memory
\* a function is entered with, which has version 1.
Defines(i, r) == \E k \in DOMAIN code[i].to : code[i].to[k].id = r
DefinitionsIn(b, r) == {i \in InstructionsOf(b) : Defines(i, r)}
Latest(S) == {i \in S : \A j \in S : j <= i}
VersionAt(d, r) ==
  IF d = 0 THEN 1
  ELSE LET k == CHOOSE k \in DOMAIN code[d].to : code[d].to[k].id = r IN code[d].to[k].version

\* Some blocks and those they lead to on ways that assign r nowhere.
Through(starts, r) ==
  LET next == [b \in Blocks |-> IF DefinitionsIn(b, r) = {} THEN Seqs!ToSet(conns[b]) ELSE {}]
      Step(S) == S \cup UNION {next[b] : b \in S}
  IN  Iterate(Step, starts)

\* Blocks that r may be without a definition in when they begin, and those that may begin
\* with what a definition has left.
Undefined(r) == IF r = Mem THEN {} ELSE Through({1}, r)
ReachedBy(d, r) == Through(IF d = 0 THEN {1} ELSE Seqs!ToSet(conns[BlockForInstruction(d)]), r)
Leaving(r) == (IF r = Mem THEN {0} ELSE {}) \cup UNION {Latest(DefinitionsIn(b, r)) : b \in Reachable}

\* Where definitions of r meet there is a phi: a block is entered from one that a definition
\* dominates only if the definition dominates the block as well, or the block has a phi.
MeetInPhis(r) ==
  LET below == [d \in Blocks |-> Dominated(d)]
      defining == {d \in Blocks : DefinitionsIn(d, r) # {}}
  IN  \A b \in Reachable \ Undefined(r) : \A p \in Seqs!ToSet(preds[b]) : \A d \in defining :
        p \in below[d] => (b # d /\ b \in below[d]) \/ r \in phis[b]

\* No block has lost a dominator: a runner would climb past it.
DominatorsKept == \A d \in Blocks : \A b \in Dominated(d) \cap Reachable : d \in Seqs!ToSet(dominators[b])
DominatorsExact == LET below == [d \in Blocks |-> Dominated(d)] IN \A b \in Reachable : Exact(b, below)

\* Phis are missing where a definition is not counted and there are others; for memory that is
\* written once, and, as it is there before the first write, where the entry is entered
\* again or dominators are made up: a runner from outside a loop marks the entry then,
\* which assigns every other register that the loop assigns, but not memory.
Counts(r) ==
  LET definitions == {i \in DOMAIN code : Defines(i, r) /\ code[i].kind # "phi"}
      counted == \A i \in definitions : r \in Counted(i)
  IN  IF r = Mem THEN counted /\ Len(BlocksThatAssign(Mem)) # 1 /\ preds[1] = <<>> /\ DominatorsExact
      ELSE (counted \/ Cardinality(definitions) = 1) /\ DominatorsKept

\* Phi placement serves its purpose, though the vectors of dominators may be wrong.
DefinitionsMeetInPhis ==
  pc = "rename" /\ visited = {} => \A r \in Registers : Counts(r) => MeetInPhis(r)

\* Names are lost or wrong (see the README) for parameters and retained variables,
\* which are renamed in every block; where an instruction assigns its own operand; and
\* where a block assigns a register twice.
Tracked(r) ==
  /\ r \notin Seqs!ToSet(fn.args) \cup fn.retains
  /\ \A i \in DOMAIN code : Defines(i, r) /\ code[i].kind \notin {"call", "phi"} => \A k \in DOMAIN code[i].uses : code[i].uses[k].id # r
  /\ \A b \in Reachable : Cardinality(DefinitionsIn(b, r)) <= 1

\* Every operand r that is assigned first on every way has the version of the one definition
\* that reaches it.
NamesReach(r) ==
  LET leaving == Leaving(r)
      reached == [d \in leaving |-> ReachedBy(d, r)]
      undefined == Undefined(r)
  IN  \A b \in Reachable : \A i \in InstructionsOf(b) : \A k \in DOMAIN code[i].uses :
        LET before == {j \in DefinitionsIn(b, r) : j < i}
            defs == IF before # {} THEN Latest(before) ELSE {d \in leaving : b \in reached[d]}
        IN  code[i].uses[k].id = r /\ code[i].kind # "phi" /\ (before = {} => b \notin undefined) =>
              \E d \in defs : defs = {d} /\ VersionAt(d, r) = code[i].uses[k].version

\* Whichever path was taken, though rename walks the connections and not the
\* dominator tree.
UsesReachingDefinition ==
  pc = "done" => \A r \in Registers : Tracked(r) /\ MeetInPhis(r) => NamesReach(r)

\* buildCFG ends for every function.  Where a dominator was made up the chain of
\* immediate dominators can be a ring, and a runner that misses the dominator of its
\* block stays on it.
Terminates == <>(pc \in {"done", "crashed"})

\* A block with several predecessors that comes behind a loop.
JoinBehindLoop == \E b \in Reachable : Len(preds[b]) > 1 /\ b \notin Looping \cup BeforeLoops
=============================================================================
