------------------------- MODULE LivenessPropagator -------------------------
(***************************************************************************)
(* Propagator::buildGraph (liveness_propagator.cpp): the function is split *)
(* into blocks, every block gets the ranges of instructions in which an id *)
(* occurs, blocks an id only passes through are filled, and ranges that    *)
(* meet at an edge are extended to it.  The register allocator colours     *)
(* what comes out.                                                         *)
(*                                                                         *)
(* An instruction is its place in the control flow and the ids it names,   *)
(* each with a role: what the instruction really does with it.  The code   *)
(* knows only whether it is the first operand.  Instructions, blocks and   *)
(* ranges are counted from 1.                                              *)
(***************************************************************************)
EXTENDS Vectors

Seqs == INSTANCE SequencesExt

CONSTANTS
  Ids,        \* the virtual registers
  Functions   \* the functions that may be analysed

\* set: move x, _.  update: add x, _.  test: jmpf x, _ and cmp x, _, _.
\* result: call x and cmp _, _, x.  pointed: the operand of point and dereference.
\* index: the index of an address, behind its base.  read: any other operand.
Role == {"set", "update", "test", "result", "read", "pointed", "index"}
Reads == {"update", "test", "read", "pointed", "index"}
Writes == {"set", "update", "result"}
Kind == {"label", "jump", "branch", "return", "other"}
Instruction == [kind : Kind, to : Nat, operands : Seq([id : Ids, role : Role])]
FunctionType == [code : Seq(Instruction), params : Seq(Ids), retains : SUBSET Ids]

\* Functions begin with their label; jumps lead to labels (getJumpTarget).
ASSUME FunctionsAssumption ==
  \A f \in Functions :
    /\ f.params \in Seq(Ids) /\ f.retains \subseteq Ids
    /\ f.code \in Seq(Instruction)
    /\ f.code # <<>> /\ f.code[1].kind = "label"
    /\ \A i \in DOMAIN f.code :
         f.code[i].kind \in {"jump", "branch"} =>
           f.code[i].to \in DOMAIN f.code /\ f.code[f.code[i].to].kind = "label"

VARIABLES
  fn,        \* the function
  pc,
  blocks,    \* m_instructionRange of every block
  at,        \* the instruction fillRanges has come to, and its operand
  operand,
  ranges,    \* m_rangeVector of every block (m_ranges is the same by id)
  conns,     \* m_connections of every block
  pending,   \* the calls of the recursion still to make, next one first
  visited,
  paths,     \* the calls of fillHoles still to make, each with its path
  visited2

vars == <<fn, pc, blocks, at, operand, ranges, conns, pending, visited, paths, visited2>>

-----------------------------------------------------------------------------
code == fn.code
IsJump(i) == code[i].kind \in {"jump", "branch"}

\* Lines 32-40: a label and what follows a jump begin a block.
Begins(i) == code[i].kind = "label" \/ (i > 1 /\ IsJump(i - 1))
Cut ==
  LET starts == Ascending({i \in DOMAIN code : Begins(i)})
  IN  [b \in DOMAIN starts |->
         [first |-> starts[b], last |-> IF b = Len(starts) THEN Len(code) ELSE starts[b + 1] - 1]]

Blocks == DOMAIN blocks
First(b) == blocks[b].first
Final(b) == blocks[b].last
BlockForInstruction(i) == CHOOSE b \in Blocks : First(b) <= i /\ i <= Final(b)

IdsOf(rs) == {rs[k].id : k \in DOMAIN rs}
Back(rs, id) == CHOOSE k \in DOMAIN rs : rs[k].id = id /\ \A l \in DOMAIN rs : rs[l].id = id => l <= k

\* tryRegister, lines 152-191.
Marked == {"set", "update", "test"}
Touch(rs, id, marked, i) ==
  IF id \notin IdsOf(rs) \/ marked
  THEN Append(rs, [id |-> id, first |-> i, last |-> i, assigned |-> marked,
                   pointed |-> id \in IdsOf(rs) /\ rs[Back(rs, id)].pointed])
  ELSE [rs EXCEPT ![Back(rs, id)].last = i]

\* Lines 208-215: so far as other blocks have ranges, they are marked too.
Flag(R, id) ==
  [c \in DOMAIN R |-> [k \in DOMAIN R[c] |-> [R[c][k] EXCEPT !.pointed = @ \/ R[c][k].id = id]]]

\* What an instruction names, in order; the parameters come before the first one.
OperandsAt(i) ==
  (IF i = 1 THEN [k \in DOMAIN fn.params |-> [id |-> fn.params[k], role |-> "read"]] ELSE <<>>)
    \o code[i].operands

\* Lines 161-162: an id that is retained has no range, and an index behind it neither.
Passed(ops, k) ==
  ops[k].id \in fn.retains \/ (k > 1 /\ ops[k].role = "index" /\ ops[k - 1].id \in fn.retains)

\* Lines 63-81.
Returns(b) == \E i \in First(b)..Final(b) : code[i].kind = "return"
Successors(b) ==
  LET last == Final(b)
      jumped == IF IsJump(last) THEN <<BlockForInstruction(code[last].to)>> ELSE <<>>
      fallen == IF code[last].kind # "jump" /\ last < Len(code) THEN <<b + 1>> ELSE <<>>
  IN  IF Returns(b) THEN <<>> ELSE jumped \o fallen

-----------------------------------------------------------------------------
Init ==
  /\ fn \in Functions
  /\ pc = "ranges" /\ blocks = Cut
  /\ at = 1 /\ operand = 1
  /\ ranges = [b \in Blocks |-> <<>>]
  /\ conns = [b \in Blocks |-> <<>>]
  /\ pending = <<>> /\ visited = {}
  /\ paths = <<>> /\ visited2 = {}

\* fillRanges tries the operands of all instructions in turn.
TryRegister ==
  /\ pc = "ranges" /\ at \in DOMAIN code
  /\ LET ops == OperandsAt(at)
         b == BlockForInstruction(at)
         o == ops[operand]
         T == [ranges EXCEPT ![b] = Touch(@, o.id, o.role \in Marked, at)]
     IN  /\ operand \in DOMAIN ops
         /\ ranges' = IF Passed(ops, operand) THEN ranges
                      ELSE IF o.role = "pointed" THEN Flag(T, o.id) ELSE T
  /\ operand' = operand + 1
  /\ UNCHANGED <<fn, pc, blocks, at, conns, pending, visited, paths, visited2>>

NextInstruction ==
  /\ pc = "ranges" /\ at \in DOMAIN code
  /\ operand \notin DOMAIN OperandsAt(at)
  /\ at' = at + 1 /\ operand' = 1
  /\ UNCHANGED <<fn, pc, blocks, ranges, conns, pending, visited, paths, visited2>>

\* The three recursions over the blocks start at the first one.
Begin(to) ==
  /\ pc' = to
  /\ pending' = <<1>> /\ visited' = {}
  /\ UNCHANGED <<fn, blocks, at, operand, ranges, conns, paths, visited2>>

StartConnect == pc = "ranges" /\ at \notin DOMAIN code /\ Begin("connect")
StartVisit == pc = "connect" /\ pending = <<>> /\ Begin("visit")
StartPropagate == pc = "visit" /\ pending = <<>> /\ Begin("propagate")

\* A call for a block that was visited returns at once.
Skip ==
  /\ pc \in {"connect", "visit", "propagate"} /\ pending # <<>>
  /\ Head(pending) \in visited
  /\ pending' = Tail(pending)
  /\ UNCHANGED <<fn, pc, blocks, at, operand, ranges, conns, visited, paths, visited2>>

\* A call for another one makes the calls for its successors in turn.
Enter(b, next) ==
  /\ pending # <<>> /\ Head(pending) = b
  /\ b \notin visited
  /\ visited' = visited \cup {b}
  /\ pending' = next \o Tail(pending)

Connect ==
  /\ pc = "connect"
  /\ \E b \in Blocks :
       /\ Enter(b, Successors(b))
       /\ conns' = [conns EXCEPT ![b] = Successors(b)]
  /\ UNCHANGED <<fn, pc, blocks, at, operand, ranges, paths, visited2>>

\* Lines 103-109: fillHoles(root, root, ...) is called, then the successors.
Visit ==
  /\ pc = "visit"
  /\ \E b \in Blocks :
       /\ Enter(b, conns[b])
       /\ paths' = <<<<b>>>> /\ visited2' = {}
  /\ pc' = "fill"
  /\ UNCHANGED <<fn, blocks, at, operand, ranges, conns>>

-----------------------------------------------------------------------------
\* Lines 117-136: the blocks between the ends of the path get a copy.
Interior(path) == {path[k] : k \in 2..(Len(path) - 1)}
Missing(b, id) == id \notin IdsOf(ranges[b])
Wanted(r, to) == ~r.assigned /\ r.id \in IdsOf(ranges[to])
Copies(b, path) ==
  LET source == ranges[path[1]]
      from == Kept(source, {k \in DOMAIN source : Wanted(source[k], path[Len(path)]) /\ Missing(b, source[k].id)})
  IN  [k \in DOMAIN from |-> [from[k] EXCEPT !.first = First(b), !.last = Final(b)]]

FillHoles_VisitedFirst ==
  /\ pc = "fill" /\ paths # <<>>
  /\ LET path == Head(paths)
         current == path[Len(path)]
     IN  /\ ranges' = [b \in Blocks |-> IF b \in Interior(path) /\ current \notin visited2
                                        THEN ranges[b] \o Copies(b, path) ELSE ranges[b]]
         /\ visited2' = visited2 \cup {current}
         /\ paths' = IF current \in visited2 THEN Tail(paths)
                     ELSE [k \in DOMAIN conns[current] |-> Append(path, conns[current][k])] \o Tail(paths)
  /\ UNCHANGED <<fn, pc, blocks, at, operand, conns, pending, visited>>

FillHoles ==
  /\ pc = "fill" /\ paths # <<>>
  /\ LET path == Head(paths)
         current == path[Len(path)]
     IN  /\ ranges' = [b \in Blocks |-> IF b \in Interior(path) THEN ranges[b] \o Copies(b, path) ELSE ranges[b]]
         /\ visited2' = visited2 \cup {current}
         /\ paths' = IF current \in visited2 THEN Tail(paths)
                     ELSE [k \in DOMAIN conns[current] |-> Append(path, conns[current][k])] \o Tail(paths)
  /\ UNCHANGED <<fn, pc, blocks, at, operand, conns, pending, visited>>

EndFill ==
  /\ pc = "fill" /\ paths = <<>>
  /\ pc' = "visit"
  /\ UNCHANGED <<fn, blocks, at, operand, ranges, conns, pending, visited, paths, visited2>>

\* Lines 89-97: an id with ranges on both sides of an edge lives on it.
Shared(b, c) == IdsOf(ranges[b]) \cap IdsOf(ranges[c])
Extended_NotBack(b) ==
  LET out == UNION {Shared(b, c) : c \in Seqs!ToSet(conns[b])}
      End(r, c) == IF c = b /\ r.id \in out THEN Final(b) ELSE r.last
  IN  [c \in Blocks |-> [k \in DOMAIN ranges[c] |-> [ranges[c][k] EXCEPT !.last = End(ranges[c][k], c)]]]
Extended_Swapped(b) ==
  [c \in Blocks |-> [k \in DOMAIN ranges[c] |->
     IF c \in Seqs!ToSet(conns[b]) /\ ranges[c][k].id \in Shared(b, c)
     THEN [ranges[c][k] EXCEPT !.first = Final(b)] ELSE ranges[c][k]]]
Extended(b) ==
  LET out == UNION {Shared(b, c) : c \in Seqs!ToSet(conns[b])}
      Meets(c, k) == c \in Seqs!ToSet(conns[b]) /\ ranges[c][k].id \in Shared(b, c) /\ k = Back(ranges[c], ranges[c][k].id)
      Start(c, k) == IF Meets(c, k) THEN First(c) ELSE ranges[c][k].first
      End(c, k) == IF c = b /\ ranges[c][k].id \in out THEN Final(b) ELSE ranges[c][k].last
  IN  [c \in Blocks |-> [k \in DOMAIN ranges[c] |->
         [ranges[c][k] EXCEPT !.first = Start(c, k), !.last = End(c, k)]]]

Propagate ==
  /\ pc = "propagate"
  /\ \E b \in Blocks :
       /\ Enter(b, conns[b])
       /\ ranges' = Extended(b)
  /\ UNCHANGED <<fn, pc, blocks, at, operand, conns, paths, visited2>>

Finish ==
  /\ pc = "propagate" /\ pending = <<>>
  /\ pc' = "done"
  /\ UNCHANGED <<fn, blocks, at, operand, ranges, conns, pending, visited, paths, visited2>>

Done == pc = "done" /\ UNCHANGED vars

Next ==
  \/ TryRegister \/ NextInstruction \/ StartConnect \/ Connect \/ StartVisit \/ Visit \/ FillHoles \/ EndFill
  \/ StartPropagate \/ Propagate \/ Skip \/ Finish \/ Done

Spec == Init /\ [][Next]_vars

-----------------------------------------------------------------------------
\* The control flow of the function, and where an id is alive, by definition.
Follows(i) ==
  CASE code[i].kind = "return" -> {}
    [] code[i].kind = "jump" -> {code[i].to}
    [] code[i].kind = "branch" -> {code[i].to, i + 1} \cap DOMAIN code
    [] OTHER -> {i + 1} \cap DOMAIN code

Does(i, id, roles) ==
  \E k \in DOMAIN code[i].operands : code[i].operands[k].id = id /\ code[i].operands[k].role \in roles
Occurs(i, id) == Does(i, id, Role) \/ (i = 1 /\ id \in Seqs!ToSet(fn.params))

\* What the successors F lead to from S; a step for every instruction is enough.
Closure(S, F) ==
  LET Step(T) == T \cup UNION {F[i] : i \in T}
      closed[k \in 0..Len(code)] == IF k = 0 THEN S ELSE Step(closed[k - 1])
  IN  closed[Len(code)]

Reached == Closure({1}, [i \in DOMAIN code |-> Follows(i)])
LiveIn(id) ==
  Closure({i \in DOMAIN code : Does(i, id, Reads)},
          [i \in DOMAIN code |-> {j \in DOMAIN code : ~Does(j, id, Writes) /\ i \in Follows(j)}])
LiveAt(id) ==
  LET live == LiveIn(id) IN live \cup {i \in DOMAIN code : Follows(i) \cap live # {}}

OccursIn(b, id) == \E i \in First(b)..Final(b) : Occurs(i, id)
Through(b, id, live) == First(b)..Final(b) \subseteq live /\ ~OccursIn(b, id)
Tracked == Ids \ fn.retains
Covers(b, id, i) == \E k \in DOMAIN ranges[b] :
  ranges[b][k].id = id /\ ranges[b][k].first <= i /\ i <= ranges[b][k].last

-----------------------------------------------------------------------------
RangeType == [id : Ids, first : Nat, last : Nat, assigned : BOOLEAN, pointed : BOOLEAN]

\* Types; and every range lies within its block.
TypeOK ==
  /\ fn \in Functions
  /\ pc \in {"ranges", "connect", "visit", "fill", "propagate", "done"}
  /\ blocks \in Seq([first : Nat, last : Nat])
  /\ at \in 1..(Len(code) + 1)
  /\ operand \in 1..(IF at \in DOMAIN code THEN Len(OperandsAt(at)) + 1 ELSE 1)
  /\ ranges \in [Blocks -> Seq(RangeType)]
  /\ \A b \in Blocks : \A k \in DOMAIN ranges[b] :
       First(b) <= ranges[b][k].first /\ ranges[b][k].first <= ranges[b][k].last /\ ranges[b][k].last <= Final(b)
  /\ conns \in [Blocks -> Seq(Blocks)]
  /\ pending \in Seq(Blocks) /\ visited \subseteq Blocks
  /\ paths \in Seq(Seq(Blocks)) /\ visited2 \subseteq Blocks

\* An instruction that begins a range with the id and reads it (an update, a test, or
\* move x, x) comes first in its block or directly after another instruction that
\* names the id: else the value in between is not covered.
AtOnce(id) ==
  \A i \in DOMAIN code : Does(i, id, Marked) /\ Does(i, id, Reads) =>
    LET before == First(BlockForInstruction(i))..(i - 1)
    IN  (\E j \in before : Occurs(j, id)) => Occurs(i - 1, id) /\ i - 1 \in before

\* The id is no index behind a retained base, where tryRegister does not come to it.
AlwaysTried(id) ==
  \A i \in DOMAIN code : \A k \in DOMAIN OperandsAt(i) :
    OperandsAt(i)[k].id = id => ~Passed(OperandsAt(i), k)

\* Only a parameter is alive where the function begins.
Initialised(id) == 1 \in LiveIn(id) => id \in Seqs!ToSet(fn.params)

\* Every block that the id only passes through has a range for it.
HolesFilled(id) ==
  LET live == LiveIn(id)
      reached == Reached
  IN  \A b \in Blocks : First(b) \in reached /\ Through(b, id, live) => id \in IdsOf(ranges[b])

(***************************************************************************)
(* A value is covered by ranges of its id from where it is computed to     *)
(* where it is read last, on every path and around every loop, when the    *)
(* blocks that do not name it are filled (liveness_propagator.cpp:84-191). *)
(***************************************************************************)
LiveCovered ==
  pc = "done" =>
    \A id \in Tracked : AtOnce(id) /\ AlwaysTried(id) /\ Initialised(id) /\ HolesFilled(id) =>
      \A i \in LiveAt(id) \cap Reached : Covers(BlockForInstruction(i), id, i)

\* Every loop is entered at one block: the edges that do not lead back to a block
\* on every path to where they come from make no circle.
Reducible ==
  LET Onward(S, d) == Closure(S \ {d}, [b \in Blocks |-> Seqs!ToSet(conns[b]) \ {d}])
      reached == Onward({1}, 0)
      forward == [b \in Blocks |-> {c \in Seqs!ToSet(conns[b]) : b \in Onward({1}, c)}]
  IN  \A b \in reached : b \notin Closure(forward[b], forward)

\* No block assigns the id before it uses it.
NoneAssignedFirst(id) ==
  \A b \in Blocks : \A k \in DOMAIN ranges[b] :
    ranges[b][k].id = id /\ ranges[b][k].assigned => \E l \in 1..(k - 1) : ranges[b][l].id = id

(***************************************************************************)
(* The blocks that an id only passes through are filled when no block      *)
(* assigns it first and every loop has one entry                           *)
(* (liveness_propagator.cpp:103-149).                                      *)
(***************************************************************************)
HolesAreFilled ==
  pc = "done" /\ Reducible =>
    \A id \in Tracked : NoneAssignedFirst(id) /\ Initialised(id) => HolesFilled(id)

(***************************************************************************)
(* An id whose address is taken is marked in the block where it comes      *)
(* first, from which the code generator reads whether it must lie in       *)
(* memory (liveness_propagator.cpp:208-215, code_generator.cpp:98-112).    *)
(***************************************************************************)
PointedIn(id) == \E i \in DOMAIN code : Does(i, id, {"pointed"})
FirstRange(id) ==
  LET b == CHOOSE c \in Blocks : id \in IdsOf(ranges[c]) /\ \A d \in 1..(c - 1) : id \notin IdsOf(ranges[d])
  IN  ranges[b][CHOOSE k \in DOMAIN ranges[b] : ranges[b][k].id = id /\ \A l \in 1..(k - 1) : ranges[b][l].id # id]
PointedInMemory ==
  pc = "done" => \A id \in Tracked : PointedIn(id) => FirstRange(id).pointed
=============================================================================
