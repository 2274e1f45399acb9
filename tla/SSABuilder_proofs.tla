-------------------------- MODULE SSABuilder_proofs --------------------------
(***************************************************************************)
(* Phi placement, proved for every function and every order of the         *)
(* unordered containers: when renaming begins, the phis of a register that *)
(* is assigned more than once are in the blocks of the iterated dominance  *)
(* frontier, and nowhere else, though every phi moves the blocks behind it.*)
(*                                                                         *)
(* Dominators, proved for every function: where the iteration can be       *)
(* trusted, before any loop and where blocks come in order, it finds them. *)
(***************************************************************************)
EXTENDS SSABuilder, VectorLemmas

-----------------------------------------------------------------------------
FrontierOf(S) == UNION {frontiers[b] : b \in S}
Assigning(r) == Seqs!ToSet(BlocksThatAssign(r))
Iterated(r) == Grown(Len(blocks), frontiers, FrontierOf(Assigning(r)))
PhisOf(r) == {s \in Blocks : r \in phis[s]}
Many(r) == Len(BlocksThatAssign(r)) > 1

\* PhisExact by the names that the proofs use.
LEMMA ExactForm ==
  PhisExact <=>
    (pc = "rename" /\ visited = {} =>
       \A r \in Registers : PhisOf(r) = IF Many(r) THEN Iterated(r) ELSE {})
BY DEF PhisExact, PhisOf, Many, Iterated, Iterate, FrontierOf, Assigning, Grown, Grows

-----------------------------------------------------------------------------
Cut == {"connect", "dominate", "frontiers", "phis"}

\* What the code has in it once phis are placed.
Written == Instruction \cup {Phi(r) : r \in Registers}

Stretch == [first : Nat, last : Nat]

\* The blocks are stretches of the code, one behind the other, and leave nothing out.
Partition ==
  /\ blocks \in Seq(Stretch)
  /\ \A b \in Blocks :
       /\ 1 <= blocks[b].first /\ blocks[b].first <= blocks[b].last
       /\ blocks[b].last <= Len(code)
  /\ \A b, c \in Blocks : b < c => blocks[b].last < blocks[c].first
  /\ \A i \in DOMAIN code : \E b \in Blocks : i \in InstructionsOf(b)

CutAtStarts == \A b \in Blocks : \A i \in InstructionsOf(b) : Begins(i) <=> i = blocks[b].first

\* Blocks that have several predecessors, the only ones that are in a frontier; there
\* is a place behind the first instruction of such a block.
Joining == {b \in Blocks : Len(preds[b]) >= 2}
JoinsAreLong == \A b \in Joining : blocks[b].first < blocks[b].last

CodeInv ==
  /\ fn \in Functions /\ register \in Registers
  /\ pc \in {"blocks", "connect"} => code = fn.code
  /\ pc \in Cut => code \in Seq(Written)
  /\ pc \in {"blocks", "connect", "dominate"} => runner = 0
  /\ pc \in {"blocks", "connect", "dominate", "frontiers"} => todo = {} /\ work = <<>> /\ joins = {}
  /\ pc \in {"connect", "dominate", "frontiers"} => phis = [b \in Blocks |-> {}]

CutInv ==
  pc \in Cut => Partition /\ preds \in [Blocks -> Seq(Blocks)] /\ JoinsAreLong

Connecting ==
  [block : Blocks, next : Nat \ {0}, instruction : {0}, assigned : {{}}, missing : {{}}]

\* A block that does not begin with a label has at most one predecessor, the block
\* before it, whose call is past the connection that goes there.
OnlyFallenInto(s) ==
  /\ Len(preds[s]) = 1 /\ s - 1 \in visited
  /\ \A k \in DOMAIN stack : stack[k].block = s - 1 => stack[k].next > Len(Successors(s - 1))

ConnectInv ==
  pc = "connect" =>
    /\ CutAtStarts
    /\ stack \in Seq(Connecting) /\ visited \subseteq Blocks
    /\ \A k \in DOMAIN stack : stack[k].block \in visited
    /\ \A k, l \in DOMAIN stack : stack[k].block = stack[l].block => k = l
    /\ \A s \in Blocks : IsLabel(blocks[s].first) \/ preds[s] = <<>> \/ OnlyFallenInto(s)

FrontierInv ==
  /\ pc \in Cut => frontiers \in [Blocks -> SUBSET Joining]
  /\ pc = "frontiers" => at \in Nat \ {0} /\ (runner # 0 => at \in Joining)

\* A block whose frontier is still to be looked at.
Pending(r, b) == r = register /\ b \in Seqs!ToSet(work)
PendingJoins(r) == IF r = register THEN joins ELSE {}

\* The phis of a register that is no longer to be done are in its iterated frontier,
\* and the frontier of every block that assigns it or has its phi has been looked at
\* or will be.
Sound(r) ==
  IF r \in todo \/ ~Many(r) THEN PhisOf(r) = {}
  ELSE /\ PhisOf(r) \subseteq Iterated(r)
       /\ \A b \in Assigning(r) \cup PhisOf(r) :
            Pending(r, b) \/ frontiers[b] \subseteq PhisOf(r) \cup PendingJoins(r)

PlaceInv ==
  pc = "phis" =>
    /\ phis \in [Blocks -> SUBSET Registers]
    /\ todo \subseteq {r \in Registers : Many(r)}
    /\ work \in Seq(Blocks) /\ joins \subseteq Joining
    /\ work # <<>> \/ joins # {} =>
         /\ Many(register) /\ register \notin todo
         /\ Seqs!ToSet(work) \subseteq Assigning(register) \cup PhisOf(register)
         /\ joins \subseteq Iterated(register)
         /\ seen \subseteq PhisOf(register)
    /\ \A r \in Registers : Sound(r)

RenameInv == pc = "rename" /\ visited = {} => stack = <<>>

IInv == CodeInv /\ CutInv /\ ConnectInv /\ FrontierInv /\ PlaceInv /\ RenameInv /\ PhisExact

-----------------------------------------------------------------------------
\* The block of an instruction.
LEMMA BlockFacts ==
  ASSUME Partition, code \in Seq(Written)
  PROVE  /\ Len(blocks) \in Nat /\ Blocks = 1..Len(blocks) /\ Len(code) \in Nat
         /\ DOMAIN code = 1..Len(code)
         /\ \A b \in Blocks : blocks[b].first \in DOMAIN code /\ blocks[b].last \in DOMAIN code
         /\ \A b \in Blocks : InstructionsOf(b) \subseteq DOMAIN code
         /\ \A b \in Blocks : \A i \in InstructionsOf(b) : BlockForInstruction(i) = b
         /\ \A i \in DOMAIN code : BlockForInstruction(i) \in Blocks /\ i \in InstructionsOf(BlockForInstruction(i))
<1>1. /\ Len(blocks) \in Nat /\ Blocks = 1..Len(blocks) /\ Len(code) \in Nat
      /\ DOMAIN code = 1..Len(code)
  BY DEF Partition, Blocks
<1>2. \A b \in Blocks : blocks[b].first \in Nat /\ blocks[b].last \in Nat
  <2>1. blocks \in Seq(Stretch)
    BY DEF Partition
  <2>2. \A b \in DOMAIN blocks : blocks[b] \in Stretch
    BY <2>1
  <2> QED BY <2>2 DEF Blocks, Stretch
<1>3. \A b \in Blocks : blocks[b].first \in DOMAIN code /\ blocks[b].last \in DOMAIN code
  BY <1>1, <1>2 DEF Partition
<1>4. \A b \in Blocks : InstructionsOf(b) \subseteq DOMAIN code
  BY <1>1, <1>3 DEF InstructionsOf
<1>5. \A b, c \in Blocks : \A i \in DOMAIN code :
        i \in InstructionsOf(b) /\ i \in InstructionsOf(c) => b = c
  <2> SUFFICES ASSUME NEW b \in Blocks, NEW c \in Blocks, NEW i \in DOMAIN code,
                      i \in InstructionsOf(b), i \in InstructionsOf(c), b < c
               PROVE  FALSE
    BY <1>1
  <2>1. blocks[b].last < blocks[c].first
    BY DEF Partition
  <2>2. i \in Nat /\ i <= blocks[b].last /\ blocks[c].first <= i
    BY <1>1 DEF InstructionsOf
  <2> QED BY <1>2, <2>1, <2>2
<1>6. \A b \in Blocks : \A i \in InstructionsOf(b) : BlockForInstruction(i) = b
  BY <1>4, <1>5 DEF BlockForInstruction
<1>7. \A i \in DOMAIN code : BlockForInstruction(i) \in Blocks /\ i \in InstructionsOf(BlockForInstruction(i))
  BY DEF BlockForInstruction, Partition
<1> QED BY <1>1, <1>3, <1>4, <1>6, <1>7

\* The block behind a block begins where that one ends.
LEMMA FollowingBlock ==
  ASSUME Partition, code \in Seq(Written), NEW b \in Blocks, blocks[b].last < Len(code)
  PROVE  /\ b + 1 \in Blocks /\ blocks[b + 1].first = blocks[b].last + 1
         /\ BlockForInstruction(blocks[b].last + 1) = b + 1
<1> DEFINE i == blocks[b].last + 1
           c == BlockForInstruction(i)
<1>1. /\ Len(blocks) \in Nat /\ Blocks = 1..Len(blocks) /\ Len(code) \in Nat
      /\ DOMAIN code = 1..Len(code)
      /\ \A d \in Blocks : blocks[d].first \in DOMAIN code /\ blocks[d].last \in DOMAIN code
  BY BlockFacts
<1>2. i \in DOMAIN code
  BY <1>1
<1>3. c \in Blocks /\ i \in InstructionsOf(c)
  BY <1>2, BlockFacts
<1>4. blocks[c].first <= i /\ i <= blocks[c].last
  BY <1>2, <1>3 DEF InstructionsOf
<1> HIDE DEF c
<1>5. b \in Nat /\ c \in Nat
  BY <1>1, <1>3
<1>6. \A d, e \in Blocks : d < e => blocks[d].last < blocks[e].first
  BY DEF Partition
<1>7. \A d \in Blocks : blocks[d].first <= blocks[d].last
  BY DEF Partition
<1>8. b < c
  <2>1. c # b
    BY <1>1, <1>4
  <2>2. ~(c < b)
    <3> SUFFICES ASSUME c < b PROVE FALSE
      OBVIOUS
    <3>1. blocks[c].last < blocks[b].first /\ blocks[b].first <= blocks[b].last
      BY <1>3, <1>6, <1>7
    <3> QED BY <1>1, <1>3, <1>4, <3>1
  <2> QED BY <1>5, <2>1, <2>2
<1>9. b + 1 \in Blocks
  BY <1>1, <1>3, <1>5, <1>8
<1>10. ~(b + 1 < c)
  <2> SUFFICES ASSUME b + 1 < c PROVE FALSE
    OBVIOUS
  <2>1. b < b + 1
    BY <1>5
  <2>2. blocks[b].last < blocks[b + 1].first /\ blocks[b + 1].first <= blocks[b + 1].last
        /\ blocks[b + 1].last < blocks[c].first
    BY <1>3, <1>6, <1>7, <1>9, <2>1
  <2>3. /\ blocks[b].last \in Nat /\ blocks[b + 1].first \in Nat
        /\ blocks[b + 1].last \in Nat /\ blocks[c].first \in Nat
    BY <1>1, <1>3, <1>9
  <2>4. PICK x \in Nat : x = blocks[b].last
    BY <2>3
  <2>5. PICK y \in Nat : y = blocks[b + 1].first
    BY <2>3
  <2>6. PICK z \in Nat : z = blocks[b + 1].last
    BY <2>3
  <2>7. PICK t \in Nat : t = blocks[c].first
    BY <2>3
  <2>8. x < y /\ y <= z /\ z < t
    BY <2>2, <2>4, <2>5, <2>6, <2>7
  <2>9. t <= x + 1
    BY <1>4, <2>4, <2>7
  <2> QED BY <2>8, <2>9
<1>11. c = b + 1
  BY <1>5, <1>8, <1>10
<1>12. blocks[c].first = i
  <2>1. blocks[b].last < blocks[c].first
    BY <1>3, <1>6, <1>8
  <2> QED BY <1>1, <1>3, <1>4, <2>1
<1> QED BY <1>3, <1>11, <1>12 DEF c

LEMMA FunctionFacts ==
  ASSUME fn \in Functions, code = fn.code
  PROVE  /\ code \in Seq(Written) /\ Len(code) \in Nat /\ DOMAIN code = 1..Len(code)
         /\ Len(code) >= 1 /\ IsLabel(1) /\ code[Len(code)].kind = "return"
         /\ \A i \in DOMAIN code : IsJump(i) => \E j \in DOMAIN code : IsLabel(j) /\ code[j].label = code[i].label
<1>1. /\ code \in Seq(Instruction) /\ code # <<>>
      /\ code[1].kind = "label" /\ code[Len(code)].kind = "return"
      /\ \A i \in DOMAIN code : code[i].kind \in Jumps =>
           \E j \in DOMAIN code : code[j].kind = "label" /\ code[j].label = code[i].label
  BY FunctionsAssumption
<1>2. code \in Seq(Written)
  <2>1. Instruction \subseteq Written
    BY DEF Written
  <2> HIDE DEF Instruction, Written
  <2> QED BY <1>1, <2>1, SeqSubset
<1>3. Len(code) \in Nat /\ DOMAIN code = 1..Len(code) /\ Len(code) >= 1
  BY <1>1
<1> QED BY <1>1, <1>2, <1>3 DEF IsLabel, IsJump

\* A jump leads to a label.
LEMMA TargetFacts ==
  ASSUME fn \in Functions, code = fn.code, NEW i \in DOMAIN code, IsJump(i)
  PROVE  JumpTarget(code[i].label) \in DOMAIN code /\ IsLabel(JumpTarget(code[i].label))
<1> DEFINE S == {j \in DOMAIN code : IsLabel(j) /\ code[j].label = code[i].label}
<1>1. S \in SUBSET Nat /\ S # {} /\ DOMAIN code = 1..Len(code) /\ Len(code) \in Nat
  BY FunctionFacts
<1>2. PICK j \in S : \A k \in S : j <= k
  <2> HIDE DEF S
  <2> QED BY <1>1, LeastNatural
<1>3. \A k \in 1..(j - 1) : ~(IsLabel(k) /\ code[k].label = code[i].label)
  <2> SUFFICES ASSUME NEW k \in 1..(j - 1), k \in S PROVE FALSE
    BY <1>1
  <2>1. ~(j <= k)
    BY <1>1
  <2> QED BY <1>2, <2>1
<1>4. j \in DOMAIN code /\ IsLabel(j) /\ code[j].label = code[i].label
  OBVIOUS
<1> HIDE DEF S
<1> QED BY <1>3, <1>4 DEF JumpTarget

\* Whoever jumps into a block jumps to a row of labels it begins with.
LEMMA LabelHeads ==
  ASSUME Partition, CutAtStarts, code \in Seq(Written),
         NEW b \in Blocks, NEW i \in InstructionsOf(b), IsLabel(i)
  PROVE  IsLabel(blocks[b].first)
<1>1. /\ Len(code) \in Nat /\ DOMAIN code = 1..Len(code) /\ InstructionsOf(b) \subseteq DOMAIN code
      /\ blocks[b].first \in DOMAIN code /\ blocks[b].last \in DOMAIN code
  BY BlockFacts
<1> DEFINE S == {j \in InstructionsOf(b) : j <= i /\ \A k \in j..i : IsLabel(k)}
<1>2. S \in SUBSET Nat /\ i \in S
  <2>1. i \in Nat /\ InstructionsOf(b) \subseteq Nat
    BY <1>1
  <2>2. \A k \in i..i : k = i
    BY <2>1
  <2> QED BY <2>1, <2>2
<1>3. PICK j \in S : \A k \in S : j <= k
  <2> HIDE DEF S
  <2> QED BY <1>2, LeastNatural
<1>4. j \in InstructionsOf(b) /\ IsLabel(j) /\ j <= i /\ j \in Nat /\ i \in Nat
  BY <1>1
<1> SUFFICES ASSUME j # blocks[b].first PROVE FALSE
  BY <1>4
<1>5. j - 1 \in InstructionsOf(b) /\ j > 1
  BY <1>1, <1>4 DEF InstructionsOf
<1>6. ~Begins(j)
  BY <1>4 DEF CutAtStarts
<1>7. IsLabel(j - 1)
  BY <1>4, <1>5, <1>6 DEF Begins
<1>8. \A k \in (j - 1)..i : IsLabel(k)
  <2> SUFFICES ASSUME NEW k \in (j - 1)..i PROVE IsLabel(k)
    OBVIOUS
  <2>1. k = j - 1 \/ k \in j..i
    BY <1>4
  <2>2. \A l \in j..i : IsLabel(l)
    OBVIOUS
  <2> QED BY <1>7, <2>1, <2>2
<1>9. j - 1 \in S
  BY <1>4, <1>5, <1>8
<1>10. ~(j <= j - 1)
  BY <1>4
<1> HIDE DEF S
<1> QED BY <1>3, <1>9, <1>10

\* A block that begins with a label goes on behind it.
LEMMA LabelGoesOn ==
  ASSUME fn \in Functions, code = fn.code, Partition, CutAtStarts,
         NEW b \in Blocks, IsLabel(blocks[b].first)
  PROVE  blocks[b].first < blocks[b].last
<1> DEFINE i == blocks[b].first
<1>1. /\ code \in Seq(Written) /\ Len(code) \in Nat /\ DOMAIN code = 1..Len(code)
      /\ code[Len(code)].kind = "return"
  BY FunctionFacts
<1>2. i \in DOMAIN code /\ blocks[b].last \in DOMAIN code /\ i <= blocks[b].last
  BY <1>1, BlockFacts DEF Partition
<1> SUFFICES ASSUME blocks[b].last = i PROVE FALSE
  BY <1>1, <1>2
<1>3. i < Len(code)
  <2>1. i # Len(code)
    BY <1>1 DEF IsLabel
  <2> QED BY <1>1, <1>2, <2>1
<1>4. b + 1 \in Blocks /\ blocks[b + 1].first = i + 1
  BY <1>1, <1>3, FollowingBlock
<1>5. i + 1 \in InstructionsOf(b + 1)
  BY <1>1, <1>2, <1>4, BlockFacts DEF InstructionsOf, Partition
<1>6. Begins(i + 1)
  BY <1>4, <1>5 DEF CutAtStarts
<1>7. (i + 1) - 1 = i /\ i + 1 > 1
  BY <1>1, <1>2
<1>8. ~IsJump(i)
  BY DEF IsLabel, IsJump, Jumps
<1> HIDE DEF i
<1> QED BY <1>6, <1>7, <1>8 DEF Begins, i

\* A connection leads to a label, or to the block behind and is then the last one.
LEMMA SuccessorFacts ==
  ASSUME fn \in Functions, code = fn.code, Partition, CutAtStarts, NEW b \in Blocks
  PROVE  /\ Successors(b) \in Seq(Blocks) /\ Len(Successors(b)) \in Nat
         /\ \A k \in 1..Len(Successors(b)) :
              LET s == Successors(b)[k]
              IN  /\ s \in Blocks
                  /\ IsLabel(blocks[s].first) \/ (s = b + 1 /\ k = Len(Successors(b)))
<1> DEFINE final == blocks[b].last
           target == BlockForInstruction(JumpTarget(code[final].label))
           jumped == IF IsJump(final) THEN <<target>> ELSE <<>>
           falls == code[final].kind # "jump" /\ final < Len(code)
           fallen == IF falls THEN <<BlockForInstruction(final + 1)>> ELSE <<>>
<1>1. code \in Seq(Written) /\ Len(code) \in Nat /\ DOMAIN code = 1..Len(code) /\ final \in DOMAIN code
  BY FunctionFacts, BlockFacts
<1>2. IsJump(final) => target \in Blocks /\ IsLabel(blocks[target].first)
  <2> SUFFICES ASSUME IsJump(final) PROVE target \in Blocks /\ IsLabel(blocks[target].first)
    OBVIOUS
  <2>1. JumpTarget(code[final].label) \in DOMAIN code /\ IsLabel(JumpTarget(code[final].label))
    BY <1>1, TargetFacts
  <2>2. target \in Blocks /\ JumpTarget(code[final].label) \in InstructionsOf(target)
    BY <1>1, <2>1, BlockFacts
  <2> HIDE DEF target, final
  <2> QED BY <1>1, <2>1, <2>2, LabelHeads
<1>3. falls => b + 1 \in Blocks /\ BlockForInstruction(final + 1) = b + 1
  BY <1>1, FollowingBlock
<1>4. Successors(b) = IF \E i \in InstructionsOf(b) : code[i].kind = "return" THEN <<>> ELSE jumped \o fallen
  BY DEF Successors
<1> HIDE DEF target, falls, final
<1>5. /\ jumped \in Seq(Blocks) /\ fallen \in Seq(Blocks)
      /\ Len(jumped) = 0 \/ (Len(jumped) = 1 /\ jumped[1] = target /\ IsJump(final))
      /\ Len(fallen) = 0 \/ (Len(fallen) = 1 /\ fallen[1] = b + 1 /\ falls)
  BY <1>2, <1>3
<1> HIDE DEF jumped, fallen
<1>6. /\ jumped \o fallen \in Seq(Blocks) /\ Len(jumped \o fallen) = Len(jumped) + Len(fallen)
      /\ \A k \in 1..(Len(jumped) + Len(fallen)) :
           (jumped \o fallen)[k] = IF k <= Len(jumped) THEN jumped[k] ELSE fallen[k - Len(jumped)]
  BY <1>5, ConcatFacts
<1>7. ASSUME NEW k \in 1..(Len(jumped) + Len(fallen))
      PROVE  LET s == (jumped \o fallen)[k]
             IN  /\ s \in Blocks
                 /\ IsLabel(blocks[s].first) \/ (s = b + 1 /\ k = Len(jumped) + Len(fallen))
  <2>1. PICK m \in {0, 1} : m = Len(jumped)
    BY <1>5
  <2>2. PICK n \in {0, 1} : n = Len(fallen)
    BY <1>5
  <2>3. k \in 1..(m + n)
    BY <2>1, <2>2
  <2>4. CASE k <= m
    <3>1. m = 1 /\ k = 1
      BY <2>3, <2>4
    <3>2. jumped[1] = target /\ IsJump(final)
      BY <1>5, <2>1, <3>1
    <3>3. (jumped \o fallen)[k] = target
      BY <1>6, <2>1, <3>1, <3>2
    <3> QED BY <1>2, <3>2, <3>3
  <2>5. CASE ~(k <= m)
    <3>1. n = 1 /\ k - m = 1 /\ k = m + n
      BY <2>3, <2>5
    <3>2. fallen[1] = b + 1 /\ falls
      BY <1>5, <2>2, <3>1
    <3>3. (jumped \o fallen)[k] = b + 1
      BY <1>6, <2>1, <2>5, <3>1, <3>2
    <3> QED BY <1>3, <2>1, <2>2, <3>1, <3>2, <3>3
  <2> QED BY <2>4, <2>5
<1>8. CASE \E i \in InstructionsOf(b) : code[i].kind = "return"
  <2>1. Successors(b) = <<>>
    BY <1>4, <1>8
  <2> QED BY <2>1
<1>9. CASE ~ \E i \in InstructionsOf(b) : code[i].kind = "return"
  <2>1. Successors(b) = jumped \o fallen
    BY <1>4, <1>9
  <2>2. Len(jumped \o fallen) \in Nat
    BY <1>6
  <2> QED BY <1>6, <1>7, <2>1, <2>2
<1> QED BY <1>8, <1>9

-----------------------------------------------------------------------------
LEMMA InitInv == Init => IInv
<1> SUFFICES ASSUME Init PROVE IInv
  OBVIOUS
<1>1. CodeInv
  BY MemAssumption DEF Init, CodeInv, Cut
<1>2. pc = "blocks"
  BY DEF Init
<1> QED BY <1>1, <1>2 DEF IInv, CutInv, ConnectInv, FrontierInv, PlaceInv, RenameInv, PhisExact, Cut

\* The blocks that getBlocks cuts.
LEMMA StartsCut ==
  ASSUME fn \in Functions, code = fn.code, code' = code,
         blocks' = [b \in DOMAIN Starts |->
                     [first |-> Starts[b],
                      last |-> IF b = Len(Starts) THEN Len(code) ELSE Starts[b + 1] - 1]]
  PROVE  Partition' /\ CutAtStarts' /\ 1 \in Blocks' /\ Blocks' = DOMAIN Starts
<1> DEFINE S == {i \in DOMAIN code : Begins(i)}
           n == Len(code)
           v == Stretches(n, S)
<1>1. n \in Nat /\ n >= 1 /\ DOMAIN code = 1..n /\ IsLabel(1)
  BY FunctionFacts
<1>2. S \in SUBSET (1..n) /\ 1 \in S /\ \A i \in 1..n : i \in S <=> Begins(i)
  <2>1. Begins(1)
    BY <1>1 DEF Begins
  <2> QED BY <1>1, <2>1
<1>3. blocks' = v /\ DOMAIN v = DOMAIN Starts
  BY DEF Stretches, Starts
<1> HIDE DEF S, v, n
<1>4. /\ v \in Seq([first : Nat, last : Nat])
      /\ 1 \in DOMAIN v
      /\ \A b \in DOMAIN v : 1 <= v[b].first /\ v[b].first <= v[b].last /\ v[b].last <= n
      /\ \A b, d \in DOMAIN v : b < d => v[b].last < v[d].first
      /\ \A i \in 1..n : \E b \in DOMAIN v : i \in v[b].first..v[b].last
      /\ \A b \in DOMAIN v : \A i \in v[b].first..v[b].last : i \in S <=> i = v[b].first
  BY <1>1, <1>2, StretchFacts DEF v
<1>5. Blocks' = DOMAIN v /\ DOMAIN code' = 1..n /\ Len(code') = n
  BY <1>1, <1>3 DEF Blocks, n
<1>6. \A b : InstructionsOf(b)' = v[b].first..v[b].last
  BY <1>3 DEF InstructionsOf
<1>7. \A i : Begins(i)' <=> Begins(i)
  BY DEF Begins, IsLabel, IsJump
<1>8. Partition'
  BY <1>3, <1>4, <1>5, <1>6 DEF Partition, Stretch
<1>9. CutAtStarts'
  <2> SUFFICES ASSUME NEW b \in DOMAIN v, NEW i \in v[b].first..v[b].last
               PROVE  Begins(i)' <=> i = v[b].first
    BY <1>3, <1>5, <1>6 DEF CutAtStarts
  <2>1. i \in S <=> i = v[b].first
    BY <1>4
  <2>2. i \in 1..n
    <3>1. v \in Seq(Stretch)
      BY <1>4 DEF Stretch
    <3>2. v[b] \in Stretch
      BY <3>1
    <3>3. v[b].first \in Nat /\ v[b].last \in Nat
      BY <3>2 DEF Stretch
    <3>4. 1 <= v[b].first /\ v[b].last <= n
      BY <1>4
    <3>5. PICK x \in Nat : x = v[b].first
      BY <3>3
    <3>6. PICK y \in Nat : y = v[b].last
      BY <3>3
    <3>7. i \in x..y /\ 1 <= x /\ y <= n
      BY <3>4, <3>5, <3>6
    <3> QED BY <1>1, <3>7
  <2> QED BY <1>2, <1>7, <2>1, <2>2
<1> QED BY <1>3, <1>4, <1>5, <1>8, <1>9

\* What depends on the code and its blocks only.
LEMMA CodeStable ==
  ASSUME code' = code, blocks' = blocks
  PROVE  /\ Blocks' = Blocks /\ (Partition => Partition') /\ (CutAtStarts => CutAtStarts')
         /\ \A i : IsLabel(i)' <=> IsLabel(i)
         /\ \A b : Successors(b)' = Successors(b)
         /\ \A r : BlocksThatAssign(r)' = BlocksThatAssign(r)
<1>1. Blocks' = Blocks
  BY DEF Blocks
<1>2. Partition => Partition'
  BY DEF Partition, Blocks, InstructionsOf
<1>3. CutAtStarts => CutAtStarts'
  BY DEF CutAtStarts, Blocks, InstructionsOf, Begins, IsLabel, IsJump
<1>4. \A i : IsLabel(i)' <=> IsLabel(i)
  BY DEF IsLabel
<1>5. \A b : Successors(b)' = Successors(b)
  BY DEF Successors, Blocks, InstructionsOf, BlockForInstruction, JumpTarget, IsJump, IsLabel
<1>6. \A r : BlocksThatAssign(r)' = BlocksThatAssign(r)
  BY DEF BlocksThatAssign, Counted, BlockForInstruction, Blocks, InstructionsOf, Ascending
<1> QED BY <1>1, <1>2, <1>3, <1>4, <1>5, <1>6

LEMMA GetBlocksInv ==
  ASSUME IInv, GetBlocks
  PROVE  IInv'
<1>1. fn \in Functions /\ code = fn.code /\ code' = code /\ fn' = fn /\ pc' = "connect" /\ pc = "blocks"
  BY DEF IInv, CodeInv, GetBlocks
<1>2. Partition' /\ CutAtStarts' /\ 1 \in Blocks' /\ Blocks' = DOMAIN Starts
  BY <1>1, StartsCut DEF GetBlocks
<1>3. /\ preds' = [b \in Blocks' |-> <<>>] /\ phis' = [b \in Blocks' |-> {}]
      /\ frontiers' = [b \in Blocks' |-> {}]
  BY <1>2 DEF GetBlocks
<1>4. CodeInv'
  <2>1. code' \in Seq(Written)
    BY <1>1, FunctionFacts
  <2>2. UNCHANGED <<register, runner, todo, work, joins>>
    BY DEF GetBlocks, walking, placing
  <2> QED BY <1>1, <1>3, <2>1, <2>2 DEF IInv, CodeInv, Cut
<1>5. CutInv'
  <2>1. preds' \in [Blocks' -> Seq(Blocks')]
    BY <1>3
  <2>2. Joining' = {}
    BY <1>3 DEF Joining
  <2> QED BY <1>2, <2>1, <2>2 DEF CutInv, JoinsAreLong
<1>6. ConnectInv'
  <2>1. visited' = {1} /\ stack' = <<Call(1)>>
    BY DEF GetBlocks
  <2>2. Call(1) \in Connecting' /\ Call(1).block = 1
    BY <1>2 DEF Connecting, Call
  <2>3. stack' \in Seq(Connecting') /\ DOMAIN stack' = {1} /\ stack'[1].block = 1
    <3> HIDE DEF Connecting
    <3> QED BY <2>1, <2>2
  <2>4. \A s \in Blocks' : preds'[s] = <<>>
    BY <1>3
  <2> QED BY <1>2, <2>1, <2>3, <2>4 DEF ConnectInv
<1>7. FrontierInv'
  BY <1>1, <1>3 DEF FrontierInv
<1> QED BY <1>1, <1>4, <1>5, <1>6, <1>7 DEF IInv, PlaceInv, RenameInv, PhisExact

LEMMA FrontFacts ==
  ASSUME NEW T, NEW s \in Seq(T), s # <<>>
  PROVE  /\ Len(s) \in Nat /\ Len(s) >= 1 /\ DOMAIN s = 1..Len(s) /\ s[Len(s)] \in T
         /\ Seqs!Front(s) \in Seq(T) /\ Len(Seqs!Front(s)) = Len(s) - 1
         /\ DOMAIN Seqs!Front(s) = 1..(Len(s) - 1)
         /\ \A k \in 1..(Len(s) - 1) : Seqs!Front(s)[k] = s[k]
<1>1. Len(s) \in Nat /\ Len(s) >= 1 /\ DOMAIN s = 1..Len(s) /\ s[Len(s)] \in T
  OBVIOUS
<1>2. Seqs!Front(s) = SubSeq(s, 1, Len(s) - 1)
  BY DEF Seqs!Front
<1>3. /\ SubSeq(s, 1, Len(s) - 1) \in Seq(T) /\ Len(SubSeq(s, 1, Len(s) - 1)) = Len(s) - 1
      /\ \A k \in 1..(Len(s) - 1) : SubSeq(s, 1, Len(s) - 1)[k] = s[k]
  BY <1>1
<1>4. DOMAIN SubSeq(s, 1, Len(s) - 1) = 1..(Len(s) - 1)
  BY <1>1, <1>3
<1> QED BY <1>1, <1>2, <1>3, <1>4

\* The call on top is not past its connections before the step.
LEMMA ConnectStep ==
  ASSUME IInv, Connect
  PROVE  ConnectInv' /\ CutInv'
<1> DEFINE n == Len(stack)
           b == Top.block
           s == Successors(b)[Top.next]
           past == [Top EXCEPT !.next = @ + 1]
           resumed == [stack EXCEPT ![n] = past]
<1>1. /\ fn \in Functions /\ code = fn.code /\ Partition /\ CutAtStarts /\ code \in Seq(Written)
      /\ preds \in [Blocks -> Seq(Blocks)] /\ stack \in Seq(Connecting) /\ visited \subseteq Blocks
      /\ \A k \in DOMAIN stack : stack[k].block \in visited
      /\ \A k, l \in DOMAIN stack : stack[k].block = stack[l].block => k = l
      /\ \A c \in Blocks : IsLabel(blocks[c].first) \/ preds[c] = <<>> \/ OnlyFallenInto(c)
  BY DEF Connect, IInv, CodeInv, CutInv, ConnectInv, Cut
<1>2. /\ pc = "connect" /\ pc' = "connect" /\ stack # <<>> /\ Top.next <= Len(Successors(b))
      /\ code' = code /\ blocks' = blocks /\ fn' = fn
      /\ preds' = [preds EXCEPT ![s] = Append(@, b)] /\ visited' = visited \cup {s}
      /\ stack' = IF s \in visited THEN [stack EXCEPT ![Len(stack)].next = @ + 1]
                  ELSE Append([stack EXCEPT ![Len(stack)].next = @ + 1], Call(s))
  BY DEF Connect
<1>3. n \in Nat /\ n >= 1 /\ DOMAIN stack = 1..n /\ Top \in Connecting
  <2> HIDE DEF Connecting
  <2> QED BY <1>1, <1>2, FrontFacts DEF Top
<1>4. b \in Blocks /\ Top.next \in Nat \ {0} /\ past \in Connecting
      /\ past.block = b /\ past.next = Top.next + 1
  BY <1>3 DEF Connecting
<1>5. /\ Successors(b) \in Seq(Blocks) /\ Len(Successors(b)) \in Nat
      /\ s \in Blocks
      /\ IsLabel(blocks[s].first) \/ (s = b + 1 /\ Top.next = Len(Successors(b)))
  <2>1. Len(Successors(b)) \in Nat
    BY <1>1, <1>4, SuccessorFacts
  <2>2. Top.next \in 1..Len(Successors(b))
    BY <1>2, <1>4, <2>1
  <2> QED BY <1>1, <1>4, <2>2, SuccessorFacts
<1>6. [stack EXCEPT ![Len(stack)].next = @ + 1] = resumed
  BY DEF Top
<1>7. /\ resumed \in Seq(Connecting) /\ Len(resumed) = n
      /\ \A k \in 1..n : resumed[k] = IF k = n THEN past ELSE stack[k]
  <2> HIDE DEF Connecting, past
  <2> QED BY <1>1, <1>3, <1>4, ResumedFacts
<1>8. Call(s) \in Connecting /\ Call(s).block = s /\ Call(s).next = 1
  BY <1>5 DEF Call, Connecting
<1> HIDE DEF resumed, past, b, s
<1>9. /\ stack' \in Seq(Connecting)
      /\ \A k \in DOMAIN stack' :
           \/ k \in 1..(n - 1) /\ stack'[k] = stack[k]
           \/ k = n /\ stack'[k] = past
           \/ k = n + 1 /\ s \notin visited /\ stack'[k] = Call(s)
  <2> HIDE DEF Connecting, n
  <2>1. CASE s \in visited
    <3>1. stack' = resumed /\ DOMAIN resumed = 1..n
      BY <1>2, <1>6, <1>7, <2>1
    <3>2. \A k \in 1..n : k = n \/ k \in 1..(n - 1)
      BY <1>3
    <3> QED BY <1>7, <3>1, <3>2
  <2>2. CASE s \notin visited
    <3>1. stack' = Append(resumed, Call(s))
      BY <1>2, <1>6, <2>2
    <3>2. /\ stack' \in Seq(Connecting) /\ DOMAIN stack' = 1..(n + 1)
          /\ \A k \in 1..(n + 1) : stack'[k] = IF k = n + 1 THEN Call(s) ELSE resumed[k]
      BY <1>7, <1>8, <3>1, AppendFacts
    <3>3. \A k \in 1..(n + 1) : k = n + 1 \/ (k # n + 1 /\ k = n) \/ (k # n + 1 /\ k # n /\ k \in 1..(n - 1) /\ k \in 1..n)
      BY <1>3
    <3>4. n \in 1..n
      BY <1>3
    <3> QED BY <1>7, <2>2, <3>2, <3>3, <3>4
  <2> QED BY <2>1, <2>2
<1>10. n \in 1..n /\ stack[n] = Top /\ Top.block = b /\ \A k \in 1..(n - 1) : k \in 1..n /\ k # n
  <2>1. stack[n] = Top /\ Top.block = b
    BY DEF Top, b
  <2> HIDE DEF n
  <2> QED BY <1>3, <2>1
<1> HIDE DEF n
<1>11. b \in visited
  BY <1>1, <1>3, <1>10
<1>12. \A k \in DOMAIN stack' : stack'[k].block \in visited'
  BY <1>1, <1>2, <1>3, <1>4, <1>8, <1>9, <1>10, <1>11
<1>13. \A k, l \in DOMAIN stack' : stack'[k].block = stack'[l].block => k = l
  <2>1. \A k \in 1..(n - 1) : stack[k].block # b /\ stack[k].block \in visited
    BY <1>1, <1>3, <1>10
  <2>2. ASSUME NEW k \in DOMAIN stack'
        PROVE  \/ k \in 1..(n - 1) /\ stack'[k].block = stack[k].block
               \/ k = n /\ stack'[k].block = b
               \/ k = n + 1 /\ stack'[k].block = s /\ s \notin visited
    BY <1>4, <1>8, <1>9
  <2> SUFFICES ASSUME NEW k \in DOMAIN stack', NEW l \in DOMAIN stack', stack'[k].block = stack'[l].block
               PROVE  k = l
    OBVIOUS
  <2>3. CASE k \in 1..(n - 1) /\ l \in 1..(n - 1)
    <3>1. stack[k].block = stack[l].block
      BY <1>3, <2>2, <2>3
    <3> QED BY <1>1, <1>3, <1>10, <2>3, <3>1
  <2>4. CASE k = n /\ l = n
    BY <2>4
  <2>5. CASE k = n + 1 /\ l = n + 1
    BY <2>5
  <2>6. CASE ~(k \in 1..(n - 1) /\ l \in 1..(n - 1)) /\ ~(k = n /\ l = n) /\ ~(k = n + 1 /\ l = n + 1)
    BY <1>3, <1>11, <2>1, <2>2, <2>6
  <2> QED BY <2>3, <2>4, <2>5, <2>6
<1>14. \A c \in Blocks : preds'[c] = IF c = s THEN Append(preds[s], b) ELSE preds[c]
  BY <1>1, <1>2, <1>5
<1>15. preds' \in [Blocks -> Seq(Blocks)]
  <2>1. Append(preds[s], b) \in Seq(Blocks)
    BY <1>1, <1>4, <1>5
  <2> QED BY <1>1, <1>2, <1>5, <2>1
<1>16. /\ Blocks' = Blocks /\ Partition' /\ CutAtStarts'
       /\ \A i : IsLabel(i)' <=> IsLabel(i)
       /\ \A c : Successors(c)' = Successors(c)
  BY <1>1, <1>2, CodeStable
<1>17. ASSUME NEW c \in Blocks, ~IsLabel(blocks[c].first), preds'[c] # <<>>
       PROVE  OnlyFallenInto(c)'
  <2>1. CASE c = s
    <3>1. s = b + 1 /\ Top.next = Len(Successors(b)) /\ c - 1 = b
      BY <1>4, <1>5, <1>17, <2>1, BlockFacts, <1>1
    <3>2. ~OnlyFallenInto(c)
      <4>1. ~(Top.next > Len(Successors(b)))
        BY <1>4, <3>1
      <4> QED BY <1>3, <1>10, <3>1, <4>1 DEF OnlyFallenInto
    <3>3. preds[c] = <<>>
      BY <1>1, <1>17, <3>2
    <3>4. Len(preds'[c]) = 1
      BY <1>14, <2>1, <3>3
    <3>5. \A k \in DOMAIN stack' : stack'[k].block = b => stack'[k].next > Len(Successors(b))
      <4> SUFFICES ASSUME NEW k \in DOMAIN stack', stack'[k].block = b
                   PROVE  stack'[k].next > Len(Successors(b))
        OBVIOUS
      <4>1. \A l \in 1..(n - 1) : stack[l].block # b
        BY <1>1, <1>3, <1>10
      <4>2. s # b
        BY <1>4, <3>1, BlockFacts, <1>1
      <4>3. stack'[k] = past
        BY <1>8, <1>9, <4>1, <4>2
      <4> QED BY <1>4, <1>5, <3>1, <4>3
    <3> QED BY <1>2, <1>11, <1>16, <3>1, <3>4, <3>5 DEF OnlyFallenInto
  <2>2. CASE c # s
    <3>1. preds'[c] = preds[c] /\ OnlyFallenInto(c)
      BY <1>1, <1>14, <1>17, <2>2
    <3>2. \A k \in DOMAIN stack' : stack'[k].block = c - 1 => stack'[k].next > Len(Successors(c - 1))
      <4> SUFFICES ASSUME NEW k \in DOMAIN stack', stack'[k].block = c - 1
                   PROVE  stack'[k].next > Len(Successors(c - 1))
        OBVIOUS
      <4>1. c - 1 \in visited /\ \A l \in DOMAIN stack : stack[l].block = c - 1 => stack[l].next > Len(Successors(c - 1))
        BY <3>1 DEF OnlyFallenInto
      <4>2. CASE k \in 1..(n - 1) /\ stack'[k] = stack[k]
        BY <1>3, <1>10, <4>1, <4>2
      <4>3. CASE k = n /\ stack'[k] = past
        <5>1. Top.next > Len(Successors(b)) /\ b = c - 1
          BY <1>3, <1>4, <1>10, <4>1, <4>3
        <5> QED BY <1>4, <1>5, <4>3, <5>1
      <4>4. CASE s \notin visited /\ stack'[k] = Call(s)
        BY <1>8, <4>1, <4>4
      <4> QED BY <1>9, <4>2, <4>3, <4>4
    <3> QED BY <1>2, <1>16, <3>1, <3>2 DEF OnlyFallenInto
  <2> QED BY <2>1, <2>2
<1>18. ConnectInv'
  <2>1. Connecting' = Connecting
    BY <1>16 DEF Connecting
  <2>2. visited' \subseteq Blocks
    BY <1>1, <1>2, <1>5
  <2>3. \A c \in Blocks' : IsLabel(blocks[c].first)' \/ preds'[c] = <<>> \/ OnlyFallenInto(c)'
    <3> SUFFICES ASSUME NEW c \in Blocks PROVE IsLabel(blocks[c].first)' \/ preds'[c] = <<>> \/ OnlyFallenInto(c)'
      BY <1>16
    <3>1. IsLabel(blocks[c].first)' <=> IsLabel(blocks[c].first)
      BY <1>2 DEF IsLabel
    <3> QED BY <1>17, <3>1
  <2> QED BY <1>9, <1>12, <1>13, <1>16, <2>1, <2>2, <2>3 DEF ConnectInv
<1>19. ASSUME NEW c \in Blocks, Len(preds'[c]) >= 2
       PROVE  blocks[c].first < blocks[c].last
  <2>1. preds'[c] # <<>> /\ ~(Len(preds'[c]) = 1)
    <3>1. Len(<<>>) = 0
      OBVIOUS
    <3>2. PICK m \in Nat : m = Len(preds'[c])
      BY <1>15
    <3>3. m >= 2
      BY <1>19, <3>2
    <3>4. m # 0 /\ m # 1
      BY <3>3
    <3> QED BY <3>1, <3>2, <3>4
  <2>2. IsLabel(blocks[c].first)
    BY <1>17, <2>1 DEF OnlyFallenInto
  <2> QED BY <1>1, <2>2, LabelGoesOn
<1>20. JoinsAreLong'
  BY <1>2, <1>16, <1>19 DEF JoinsAreLong, Joining
<1> QED BY <1>15, <1>16, <1>18, <1>20 DEF CutInv

LEMMA ConnectStepInv ==
  ASSUME IInv, Connect
  PROVE  IInv'
<1>1. ConnectInv' /\ CutInv'
  BY ConnectStep
<1>2. /\ pc = "connect" /\ pc' = "connect" /\ code' = code /\ blocks' = blocks
      /\ UNCHANGED <<fn, register, runner, todo, work, joins, phis, frontiers>>
  BY DEF Connect, dominance, placing, walking
<1>3. CodeInv'
  BY <1>2 DEF IInv, CodeInv, Cut, Blocks
<1>4. preds \in [Blocks -> Seq(Blocks)] /\ Blocks' = Blocks /\ preds' \in [Blocks -> Seq(Blocks)]
  BY <1>1, <1>2 DEF IInv, CutInv, Cut, Blocks
<1>5. \A c \in Blocks : preds'[c] = preds[c] \/ preds'[c] = Append(preds[c], Top.block)
  <2> DEFINE s == Successors(Top.block)[Top.next]
  <2>1. preds' = [preds EXCEPT ![s] = Append(@, Top.block)]
    BY DEF Connect
  <2> HIDE DEF s
  <2> QED BY <1>4, <2>1
<1>6. Joining \subseteq Joining'
  <2> SUFFICES ASSUME NEW c \in Blocks, Len(preds[c]) >= 2 PROVE Len(preds'[c]) >= 2
    BY <1>4 DEF Joining
  <2>1. Len(Append(preds[c], Top.block)) = Len(preds[c]) + 1 /\ Len(preds[c]) \in Nat
    BY <1>4
  <2>2. PICK m \in Nat : m = Len(preds[c])
    BY <2>1
  <2>3. m >= 2 /\ m + 1 >= 2
    BY <2>2
  <2> QED BY <1>5, <2>1, <2>2, <2>3
<1>7. FrontierInv'
  <2>1. frontiers \in [Blocks -> SUBSET Joining]
    BY <1>2 DEF IInv, FrontierInv, Cut
  <2>2. frontiers' \in [Blocks' -> SUBSET Joining']
    BY <1>2, <1>4, <1>6, <2>1
  <2> QED BY <1>2, <2>2 DEF FrontierInv
<1> QED BY <1>1, <1>2, <1>3, <1>7 DEF IInv, PlaceInv, RenameInv, PhisExact

LEMMA ConnectedInv ==
  ASSUME IInv, Connected
  PROVE  IInv'
<1>1. /\ pc = "connect" /\ pc' = "connect" /\ stack # <<>> /\ stack' = Seqs!Front(stack)
      /\ UNCHANGED <<fn, register, runner, todo, work, joins, phis, frontiers, code, blocks, preds, visited>>
  BY DEF Connected, dominance, placing, walking, graph
<1>2. CodeInv' /\ FrontierInv'
  BY <1>1 DEF IInv, CodeInv, FrontierInv, Cut, Blocks, Joining
<1>3. /\ Blocks' = Blocks /\ (Partition => Partition') /\ (CutAtStarts => CutAtStarts')
      /\ \A b : Successors(b)' = Successors(b)
  BY <1>1, CodeStable
<1>4. CutInv'
  BY <1>1, <1>3 DEF IInv, CutInv, Cut, JoinsAreLong, Joining
<1>5. /\ CutAtStarts /\ stack \in Seq(Connecting) /\ visited \subseteq Blocks
      /\ \A k \in DOMAIN stack : stack[k].block \in visited
      /\ \A k, l \in DOMAIN stack : stack[k].block = stack[l].block => k = l
      /\ \A c \in Blocks : IsLabel(blocks[c].first) \/ preds[c] = <<>> \/ OnlyFallenInto(c)
  BY <1>1 DEF IInv, ConnectInv
<1>6. /\ stack' \in Seq(Connecting)
      /\ \A k \in DOMAIN stack' : k \in DOMAIN stack /\ stack'[k] = stack[k]
  <2>1. /\ Len(stack) \in Nat /\ Len(stack) >= 1 /\ DOMAIN stack = 1..Len(stack)
        /\ stack' \in Seq(Connecting) /\ DOMAIN stack' = 1..(Len(stack) - 1)
        /\ \A k \in 1..(Len(stack) - 1) : stack'[k] = stack[k]
    <3> HIDE DEF Connecting
    <3> QED BY <1>1, <1>5, FrontFacts
  <2>2. \A k \in 1..(Len(stack) - 1) : k \in 1..Len(stack)
    BY <2>1
  <2> QED BY <2>1, <2>2
<1>7. \A c \in Blocks : IsLabel(blocks[c].first)' \/ preds'[c] = <<>> \/ OnlyFallenInto(c)'
  <2> SUFFICES ASSUME NEW c \in Blocks, OnlyFallenInto(c) PROVE OnlyFallenInto(c)'
    BY <1>1, <1>5 DEF IsLabel
  <2> QED BY <1>1, <1>3, <1>6 DEF OnlyFallenInto
<1>8. ConnectInv'
  <2>1. Connecting' = Connecting
    BY <1>3 DEF Connecting
  <2> QED BY <1>1, <1>3, <1>5, <1>6, <1>7, <2>1 DEF ConnectInv
<1> QED BY <1>1, <1>2, <1>4, <1>8 DEF IInv, PlaceInv, RenameInv, PhisExact

\* Steps between the graph and the phis that leave both alone.
LEMMA QuietInv ==
  ASSUME IInv, pc \in {"connect", "dominate", "frontiers"}, pc' \in {"dominate", "frontiers"},
         UNCHANGED <<fn, register, todo, work, joins, phis, code, blocks, preds>>,
         pc' = "dominate" => runner' = 0, FrontierInv'
  PROVE  IInv'
<1>1. CodeInv'
  BY DEF IInv, CodeInv, Cut, Blocks
<1>2. Blocks' = Blocks /\ (Partition => Partition')
  BY CodeStable
<1>3. CutInv'
  BY <1>2 DEF IInv, CutInv, Cut, JoinsAreLong, Joining
<1> QED BY <1>1, <1>3 DEF IInv, ConnectInv, PlaceInv, RenameInv, PhisExact

LEMMA DominatorsInv ==
  ASSUME IInv, StartDominators \/ Dominate \/ DominateAgain \/ StartFrontiers
  PROVE  IInv'
<1>1. /\ pc \in {"connect", "dominate"} /\ pc' \in {"dominate", "frontiers"}
      /\ UNCHANGED <<fn, register, todo, work, joins, phis, code, blocks, preds, frontiers>>
      /\ runner' = runner /\ (pc' = "frontiers" => at' = 1)
  BY DEF StartDominators, Dominate, DominateAgain, StartFrontiers, dominance, placing, walking, graph
<1>2. runner = 0 /\ frontiers \in [Blocks -> SUBSET Joining]
  BY <1>1 DEF IInv, CodeInv, FrontierInv, Cut
<1>3. FrontierInv'
  BY <1>1, <1>2 DEF FrontierInv, Joining, Blocks
<1> QED BY <1>1, <1>2, <1>3, QuietInv

LEMMA RunnersInv ==
  ASSUME IInv, NextFrontier \/ StartRunner \/ Run
  PROVE  IInv'
<1>1. /\ pc = "frontiers" /\ pc' = "frontiers"
      /\ UNCHANGED <<fn, register, todo, work, joins, phis, code, blocks, preds>>
  BY DEF NextFrontier, StartRunner, Run, dominance, placing, walking, graph
<1>2. /\ frontiers \in [Blocks -> SUBSET Joining] /\ at \in Nat \ {0} /\ (runner # 0 => at \in Joining)
      /\ Blocks = 1..Len(blocks) /\ Len(blocks) \in Nat
      /\ Joining' = Joining /\ Blocks' = Blocks
  BY <1>1, BlockFacts DEF IInv, FrontierInv, CutInv, CodeInv, Cut, Joining, Blocks
<1>3. FrontierInv'
  <2>1. CASE NextFrontier
    <3>1. frontiers' = frontiers /\ runner' = 0 /\ at' = at + 1
      BY <2>1 DEF NextFrontier
    <3> QED BY <1>1, <1>2, <3>1 DEF FrontierInv
  <2>2. CASE StartRunner
    <3>1. frontiers' = frontiers /\ at' = at /\ at <= Len(blocks) /\ Len(preds[at]) >= 2
      BY <2>2 DEF StartRunner
    <3>2. at \in Joining
      BY <1>2, <3>1 DEF Joining
    <3> QED BY <1>1, <1>2, <3>1, <3>2 DEF FrontierInv
  <2>3. CASE Run
    <3>1. frontiers' = [frontiers EXCEPT ![runner] = @ \cup {at}] /\ at' = at /\ runner # 0
      BY <2>3 DEF Run
    <3>2. frontiers' \in [Blocks -> SUBSET Joining]
      BY <1>2, <3>1
    <3> QED BY <1>1, <1>2, <3>1, <3>2 DEF FrontierInv
  <2> QED BY <2>1, <2>2, <2>3
<1> QED BY <1>1, <1>3, QuietInv

-----------------------------------------------------------------------------
\* A vector with an element for each of some positions, in their order.
Mapped(g, S) == [k \in DOMAIN Ascending(S) |-> g[Ascending(S)[k]]]

LEMMA MappedFacts ==
  ASSUME NEW n \in Nat, NEW S \in SUBSET (1..n), NEW B, NEW g \in [S -> B]
  PROVE  /\ Mapped(g, S) \in Seq(B)
         /\ Len(Mapped(g, S)) = Cardinality(S) /\ Len(Mapped(g, S)) \in Nat
         /\ Seqs!ToSet(Mapped(g, S)) = {g[i] : i \in S}
<1> DEFINE v == Mapped(g, S)
<1>1. /\ Cardinality(S) \in Nat
      /\ \A k \in 1..Cardinality(S) : Nth(S, k) \in S
      /\ \A i \in S : \E k \in 1..Cardinality(S) : Nth(S, k) = i
  BY NthFacts
<1>2. PICK c \in Nat : c = Cardinality(S)
  BY <1>1
<1>3. v = [k \in 1..c |-> g[Nth(S, k)]]
  <2>1. Ascending(S) = [k \in 1..c |-> Nth(S, k)]
    BY <1>2 DEF Ascending
  <2>2. DOMAIN Ascending(S) = 1..c /\ \A k \in 1..c : Ascending(S)[k] = Nth(S, k)
    BY <2>1
  <2> QED BY <2>2 DEF Mapped
<1> HIDE DEF v
<1>4. \A k \in 1..c : g[Nth(S, k)] \in B
  BY <1>1, <1>2
<1>5. v \in Seq(B) /\ Len(v) = c /\ DOMAIN v = 1..c /\ \A k \in 1..c : v[k] = g[Nth(S, k)]
  BY <1>3, <1>4
<1>6. Seqs!ToSet(v) = {g[i] : i \in S}
  <2>1. \A i \in S : \E k \in DOMAIN v : v[k] = g[i]
    BY <1>1, <1>2, <1>5
  <2>2. \A k \in DOMAIN v : \E i \in S : v[k] = g[i]
    BY <1>1, <1>2, <1>5
  <2> QED BY <2>1, <2>2 DEF Seqs!ToSet
<1> QED BY <1>2, <1>5, <1>6 DEF v

\* Where a register is assigned.
Places(r) == {i \in DOMAIN code : r \in Counted(i)}

LEMMA AssigningFacts ==
  ASSUME Partition, code \in Seq(Written), NEW r
  PROVE  /\ BlocksThatAssign(r) \in Seq(Blocks) /\ Len(BlocksThatAssign(r)) \in Nat
         /\ Len(BlocksThatAssign(r)) = Cardinality(Places(r))
         /\ Assigning(r) = {BlockForInstruction(i) : i \in Places(r)}
         /\ Assigning(r) \subseteq Blocks
<1> DEFINE g == [i \in Places(r) |-> BlockForInstruction(i)]
           v == BlocksThatAssign(r)
<1>1. Len(code) \in Nat /\ DOMAIN code = 1..Len(code) /\ \A i \in DOMAIN code : BlockForInstruction(i) \in Blocks
  BY BlockFacts
<1>2. Places(r) \in SUBSET (1..Len(code))
  BY <1>1 DEF Places
<1>3. g \in [Places(r) -> Blocks]
  BY <1>1, <1>2
<1>4. v = [k \in DOMAIN Ascending(Places(r)) |-> BlockForInstruction(Ascending(Places(r))[k])]
  BY DEF BlocksThatAssign, Places
<1>5. \A k \in DOMAIN Ascending(Places(r)) : Ascending(Places(r))[k] \in Places(r)
  BY <1>1, <1>2, NthFacts DEF Ascending
<1>6. v = Mapped(g, Places(r))
  BY <1>4, <1>5 DEF Mapped
<1>7. v \in Seq(Blocks) /\ Len(v) = Cardinality(Places(r)) /\ Len(v) \in Nat /\ Seqs!ToSet(v) = {g[i] : i \in Places(r)}
  <2>1. PICK n \in Nat : n = Len(code)
    BY <1>1
  <2>2. Places(r) \in SUBSET (1..n)
    BY <1>2, <2>1
  <2> HIDE DEF g
  <2>3. Mapped(g, Places(r)) \in Seq(Blocks) /\ Len(Mapped(g, Places(r))) = Cardinality(Places(r))
        /\ Seqs!ToSet(Mapped(g, Places(r))) = {g[i] : i \in Places(r)}
    BY <1>3, <2>2, MappedFacts, ZenonT(30)
  <2> HIDE DEF v
  <2> QED BY <1>6, <2>3
<1>8. {g[i] : i \in Places(r)} = {BlockForInstruction(i) : i \in Places(r)}
  OBVIOUS
<1>9. {g[i] : i \in Places(r)} \subseteq Blocks
  BY <1>3
<1> QED BY <1>7, <1>8, <1>9 DEF Assigning

\* A phi put behind the first instruction of a block: everything from there on moves,
\* and the blocks move with their instructions.
LEMMA InsertedCode ==
  ASSUME NEW T, NEW c \in Seq(T), NEW p \in 2..Len(c), NEW e \in T
  PROVE  /\ Seqs!InsertAt(c, p, e) \in Seq(T) /\ Len(Seqs!InsertAt(c, p, e)) = Len(c) + 1
         /\ Seqs!InsertAt(c, p, e)[p] = e
         /\ \A i \in 1..Len(c) : Seqs!InsertAt(c, p, e)[IF i < p THEN i ELSE i + 1] = c[i]
<1> DEFINE n == Len(c)
           front == SubSeq(c, 1, p - 1)
           back == SubSeq(c, p, n)
           middle == <<e>>
           d == Seqs!InsertAt(c, p, e)
<1>1. n \in Nat /\ p \in Nat /\ p <= n /\ p >= 2
  OBVIOUS
<1>2. /\ front \in Seq(T) /\ Len(front) = p - 1
      /\ \A i \in 1..(p - 1) : front[i] = c[i]
  BY <1>1
<1>3. /\ back \in Seq(T) /\ Len(back) = n - p + 1
      /\ \A i \in 1..(n - p + 1) : back[i] = c[p + i - 1]
  BY <1>1
<1>4. middle \in Seq(T) /\ Len(middle) = 1 /\ middle[1] = e
  OBVIOUS
<1>5. d = (front \o middle) \o back
  BY DEF Seqs!InsertAt
<1> HIDE DEF front, back, middle, d, n
<1>6. /\ front \o middle \in Seq(T) /\ Len(front \o middle) = (p - 1) + 1
      /\ \A i \in 1..((p - 1) + 1) : (front \o middle)[i] = IF i <= p - 1 THEN front[i] ELSE middle[i - (p - 1)]
  <2>1. /\ front \o middle \in Seq(T) /\ Len(front \o middle) = Len(front) + Len(middle)
        /\ \A i \in 1..(Len(front) + Len(middle)) :
             (front \o middle)[i] = IF i <= Len(front) THEN front[i] ELSE middle[i - Len(front)]
    BY <1>2, <1>4, ConcatFacts
  <2> QED BY <1>2, <1>4, <2>1
<1> DEFINE m == front \o middle
<1>7. m \in Seq(T) /\ Len(m) = p /\ m[p] = e /\ \A i \in 1..(p - 1) : m[i] = c[i]
  <2>1. \A i \in 1..(p - 1) : i \in 1..((p - 1) + 1) /\ i <= p - 1
    BY <1>1
  <2>2. p \in 1..((p - 1) + 1) /\ ~(p <= p - 1) /\ p - (p - 1) = 1 /\ (p - 1) + 1 = p
    BY <1>1
  <2> QED BY <1>2, <1>4, <1>6, <2>1, <2>2
<1> HIDE DEF m
<1>8. /\ m \o back \in Seq(T) /\ Len(m \o back) = p + (n - p + 1)
      /\ \A i \in 1..(p + (n - p + 1)) : (m \o back)[i] = IF i <= p THEN m[i] ELSE back[i - p]
  <2>1. /\ m \o back \in Seq(T) /\ Len(m \o back) = Len(m) + Len(back)
        /\ \A i \in 1..(Len(m) + Len(back)) : (m \o back)[i] = IF i <= Len(m) THEN m[i] ELSE back[i - Len(m)]
    BY <1>3, <1>7, ConcatFacts
  <2> QED BY <1>3, <1>7, <2>1
<1>9. d = m \o back
  BY <1>5 DEF m
<1>10. d \in Seq(T) /\ Len(d) = n + 1 /\ d[p] = e
  <2>1. p \in 1..(p + (n - p + 1)) /\ p <= p /\ p + (n - p + 1) = n + 1
    BY <1>1
  <2> QED BY <1>7, <1>8, <1>9, <2>1
<1>11. ASSUME NEW i \in 1..n
       PROVE  d[IF i < p THEN i ELSE i + 1] = c[i]
  <2>1. CASE i < p
    <3>1. i \in 1..(p - 1) /\ i \in 1..(p + (n - p + 1)) /\ i <= p
      BY <1>1, <2>1
    <3> QED BY <1>7, <1>8, <1>9, <2>1, <3>1
  <2>2. CASE ~(i < p)
    <3>1. /\ i + 1 \in 1..(p + (n - p + 1)) /\ ~(i + 1 <= p) /\ (i + 1) - p \in 1..(n - p + 1)
          /\ p + ((i + 1) - p) - 1 = i
      BY <1>1, <2>2
    <3>2. d[i + 1] = back[(i + 1) - p]
      BY <1>8, <1>9, <3>1
    <3>3. back[(i + 1) - p] = c[i]
      BY <1>3, <3>1
    <3> QED BY <2>2, <3>2, <3>3
  <2> QED BY <2>1, <2>2
<1> QED BY <1>10, <1>11 DEF d, n

\* Where a phi of a block goes, and where an instruction is once one went to place p.
PhiPlace(s) == blocks[s].first + 1
Pushed(i, p) == IF i < p THEN i ELSE i + 1

LEMMA PlacedFacts ==
  ASSUME Partition, code \in Seq(Written), NEW s \in Blocks, blocks[s].first < blocks[s].last,
         NEW q \in Registers,
         code' = Seqs!InsertAt(code, blocks[s].first + 1, Phi(q)),
         blocks' = [b \in Blocks |-> Moved(b, s)]
  PROVE  /\ Partition' /\ code' \in Seq(Written) /\ Blocks' = Blocks
         /\ \A b \in Blocks : blocks[b].first < blocks[b].last => blocks'[b].first < blocks'[b].last
         /\ \A r : Len(BlocksThatAssign(r))' = Len(BlocksThatAssign(r)) /\ Assigning(r)' = Assigning(r)
         /\ code'[PhiPlace(s)] = Phi(q) /\ PhiPlace(s) \in InstructionsOf(s)'
         /\ \A i \in DOMAIN code : code'[Pushed(i, PhiPlace(s))] = code[i]
         /\ \A b \in Blocks : \A i \in InstructionsOf(b) : Pushed(i, PhiPlace(s)) \in InstructionsOf(b)'
         /\ \A b \in Blocks : \A j \in InstructionsOf(b)' :
              (j = PhiPlace(s) /\ b = s) \/ \E i \in InstructionsOf(b) : j = Pushed(i, PhiPlace(s))
         /\ \A b \in Blocks : blocks'[b].first = Pushed(blocks[b].first, PhiPlace(s))
<1>0. PICK p : p = blocks[s].first + 1
  OBVIOUS
<1> DEFINE n == Len(code)
           new(i) == IF i < p THEN i ELSE i + 1
           first(b) == blocks[b].first
           final(b) == blocks[b].last
<1>1. /\ n \in Nat /\ DOMAIN code = 1..n /\ Blocks = 1..Len(blocks) /\ Len(blocks) \in Nat
      /\ \A b \in Blocks : first(b) \in 1..n /\ final(b) \in 1..n
  BY BlockFacts
<1>2. \A b \in Blocks : first(b) <= final(b)
  BY DEF Partition
<1>3. \A b, c \in Blocks : b < c => final(b) < first(c)
  BY DEF Partition
<1>4. \A i \in 1..n : BlockForInstruction(i) \in Blocks /\ i \in first(BlockForInstruction(i))..final(BlockForInstruction(i))
  BY <1>1, BlockFacts DEF InstructionsOf
<1>5. p \in 2..n /\ p <= final(s) /\ p = first(s) + 1
  BY <1>0, <1>1
<1>6. Phi(q) \in Written
  BY DEF Written
<1>7. /\ code' \in Seq(Written) /\ Len(code') = n + 1 /\ code'[p] = Phi(q)
      /\ \A i \in 1..n : code'[new(i)] = code[i]
  <2> DEFINE d == Seqs!InsertAt(code, p, Phi(q))
  <2>1. code' = d
    BY <1>0
  <2>2. /\ d \in Seq(Written) /\ Len(d) = n + 1 /\ d[p] = Phi(q)
        /\ \A i \in 1..n : d[IF i < p THEN i ELSE i + 1] = code[i]
    <3> DEFINE e == Phi(q)
    <3>1. p \in 2..Len(code) /\ e \in Written
      BY <1>5, <1>6
    <3> HIDE DEF Written, e, d, n
    <3>2. /\ Seqs!InsertAt(code, p, e) \in Seq(Written) /\ Len(Seqs!InsertAt(code, p, e)) = Len(code) + 1
          /\ Seqs!InsertAt(code, p, e)[p] = e
      BY <3>1, InsertedCode
    <3>3. \A i \in 1..Len(code) : Seqs!InsertAt(code, p, e)[IF i < p THEN i ELSE i + 1] = code[i]
      BY <3>1, InsertedCode
    <3> QED BY <3>2, <3>3 DEF e, d, n
  <2> HIDE DEF Written, Phi, d, n
  <2> QED BY <2>1, <2>2
<1>8. DOMAIN code' = 1..(n + 1)
  <2> HIDE DEF Written
  <2> QED BY <1>7
<1>9. blocks' = [b \in Blocks |-> Moved(b, s)]
  OBVIOUS
<1>10. ASSUME NEW b \in Blocks
       PROVE  \/ b < s /\ blocks'[b] = [first |-> first(b), last |-> final(b)] /\ final(b) < p - 1
              \/ b = s /\ blocks'[b] = [first |-> first(b), last |-> final(b) + 1]
              \/ s < b /\ blocks'[b] = [first |-> first(b) + 1, last |-> final(b) + 1] /\ p < first(b)
  <2>1. blocks'[b] = Moved(b, s)
    BY <1>9
  <2>2. CASE b = s
    <3>1. blocks[s] \in Stretch
      <4>1. blocks \in Seq(Stretch)
        BY DEF Partition
      <4> QED BY <4>1 DEF Blocks
    <3>2. [blocks[s] EXCEPT !.last = @ + 1] = [first |-> blocks[s].first, last |-> blocks[s].last + 1]
      BY <3>1 DEF Stretch
    <3> QED BY <2>1, <2>2, <3>2 DEF Moved
  <2>3. CASE b < s
    <3>1. final(b) < first(s) /\ first(b) <= final(b)
      BY <1>2, <1>3, <2>3
    <3>2. b # s /\ ~(first(b) > p) /\ ~(final(b) > p) /\ final(b) < p - 1
      <4>1. first(b) \in Nat /\ final(b) \in Nat /\ first(s) \in Nat
        <5> HIDE DEF first, final, n
        <5>1. /\ first(b) \in 1..n /\ final(b) \in 1..n
              /\ first(s) \in 1..n /\ final(s) \in 1..n
          BY <1>1
        <5> QED BY <5>1
      <4>2. b # s
        BY <1>1, <2>3
      <4> HIDE DEF first, final
      <4>3. PICK x \in Nat : x = first(b)
        BY <4>1
      <4>4. PICK y \in Nat : y = final(b)
        BY <4>1
      <4>5. PICK z \in Nat : z = first(s)
        BY <4>1
      <4> QED BY <1>5, <3>1, <4>2, <4>3, <4>4, <4>5
    <3>3. Moved(b, s) = [first |-> first(b), last |-> final(b)]
      BY <1>0, <3>2 DEF Moved
    <3> QED BY <2>1, <2>3, <3>2, <3>3
  <2>4. CASE s < b
    <3>1. final(s) < first(b) /\ first(b) <= final(b)
      BY <1>2, <1>3, <2>4
    <3>2. b # s /\ first(b) > p /\ final(b) > p
      <4>1. first(b) \in Nat /\ final(b) \in Nat /\ final(s) \in Nat
        <5> HIDE DEF first, final, n
        <5>1. /\ first(b) \in 1..n /\ final(b) \in 1..n
              /\ first(s) \in 1..n /\ final(s) \in 1..n
          BY <1>1
        <5> QED BY <5>1
      <4>2. b # s
        BY <1>1, <2>4
      <4> HIDE DEF first, final
      <4>3. PICK x \in Nat : x = first(b)
        BY <4>1
      <4>4. PICK y \in Nat : y = final(b)
        BY <4>1
      <4>5. PICK z \in Nat : z = final(s)
        BY <4>1
      <4> QED BY <1>5, <3>1, <4>2, <4>3, <4>4, <4>5
    <3>3. Moved(b, s) = [first |-> first(b) + 1, last |-> final(b) + 1]
      BY <1>0, <3>2 DEF Moved
    <3> QED BY <1>1, <1>5, <2>1, <2>4, <3>2, <3>3
  <2>5. b = s \/ b < s \/ s < b
    BY <1>1
  <2> QED BY <2>2, <2>3, <2>4, <2>5
<1> HIDE DEF n
<1>11. ASSUME NEW b \in Blocks
       PROVE  /\ blocks'[b] \in Stretch
              /\ blocks'[b].first \in 1..(n + 1) /\ blocks'[b].last \in 1..(n + 1)
              /\ blocks'[b].first <= blocks'[b].last
              /\ first(b) < final(b) => blocks'[b].first < blocks'[b].last
              /\ blocks'[b].first = first(b) \/ blocks'[b].first = first(b) + 1
              /\ blocks'[b].last = final(b) \/ blocks'[b].last = final(b) + 1
  <2>1. first(b) \in 1..n /\ final(b) \in 1..n /\ first(b) <= final(b)
    BY <1>1, <1>2
  <2>2. PICK x, y, m \in Nat : x = first(b) /\ y = final(b) /\ m = n
    BY <1>1, <2>1
  <2>3. 1 <= x /\ x <= y /\ y <= m
    BY <2>1, <2>2
  <2>4. \/ blocks'[b] = [first |-> x, last |-> y + 1]
        \/ blocks'[b] = [first |-> x, last |-> y]
        \/ blocks'[b] = [first |-> x + 1, last |-> y + 1]
    BY <1>10, <2>2
  <2> HIDE DEF first, final
  <2> QED BY <2>2, <2>3, <2>4 DEF Stretch
<1>12. Blocks' = Blocks
  BY <1>9 DEF Blocks
<1>13. ASSUME NEW b \in Blocks, NEW c \in Blocks, b < c
       PROVE  blocks'[b].last < blocks'[c].first
  <2>1. final(b) < first(c) /\ first(c) \in Nat /\ final(b) \in Nat
    BY <1>1, <1>3, <1>13
  <2>2. CASE c <= s
    <3>1. b < s
      BY <1>1, <1>13, <2>2
    <3>2. blocks'[b].last = final(b)
      BY <1>1, <1>10, <3>1
    <3> HIDE DEF first, final
    <3> QED BY <1>11, <2>1, <3>2
  <2>3. CASE ~(c <= s)
    <3>1. blocks'[c].first = first(c) + 1
      BY <1>1, <1>10, <2>3
    <3>2. blocks'[b].last = final(b) \/ blocks'[b].last = final(b) + 1
      BY <1>11
    <3> HIDE DEF first, final
    <3> QED BY <2>1, <3>1, <3>2
  <2> QED BY <2>2, <2>3
<1>14. ASSUME NEW i \in 1..n, NEW b \in Blocks, i \in first(b)..final(b)
       PROVE  new(i) \in blocks'[b].first .. blocks'[b].last
  <2>1. first(b) \in 1..n /\ final(b) \in 1..n /\ first(b) <= i /\ i <= final(b) /\ i \in Nat
    BY <1>1, <1>14
  <2>2. p \in Nat
    BY <1>1, <1>5
  <2>3. CASE b < s /\ blocks'[b] = [first |-> first(b), last |-> final(b)] /\ final(b) < p - 1
    <3>1. new(i) = i
      BY <1>1, <2>1, <2>2, <2>3
    <3> QED BY <1>1, <2>1, <2>3, <3>1
  <2>4. CASE b = s /\ blocks'[b] = [first |-> first(b), last |-> final(b) + 1]
    <3>1. new(i) \in first(b)..(final(b) + 1)
      BY <1>1, <2>1, <2>2
    <3> QED BY <2>4, <3>1
  <2>5. CASE s < b /\ blocks'[b] = [first |-> first(b) + 1, last |-> final(b) + 1] /\ p < first(b)
    <3>1. new(i) = i + 1
      BY <1>1, <2>1, <2>2, <2>5
    <3> QED BY <1>1, <2>1, <2>5, <3>1
  <2> QED BY <1>10, <2>3, <2>4, <2>5
<1>15. p \in blocks'[s].first .. blocks'[s].last
  <2>1. blocks'[s] = [first |-> first(s), last |-> final(s) + 1]
    BY <1>1, <1>10
  <2>2. PICK x, y \in Nat : x = first(s) /\ y = final(s)
    BY <1>1
  <2>3. p \in x..(y + 1)
    BY <1>5, <2>2
  <2>4. blocks'[s].first = x /\ blocks'[s].last = y + 1
    BY <2>1, <2>2
  <2> QED BY <2>3, <2>4
<1>16. \A j \in 1..(n + 1) : j = p \/ \E i \in 1..n : j = new(i)
  <2> SUFFICES ASSUME NEW j \in 1..(n + 1), j # p PROVE \E i \in 1..n : j = new(i)
    OBVIOUS
  <2>1. CASE j < p
    <3>1. j \in 1..n
      BY <1>1, <1>5, <2>1
    <3> QED BY <2>1, <3>1
  <2>2. CASE ~(j < p)
    <3>1. j - 1 \in 1..n /\ ~(j - 1 < p) /\ (j - 1) + 1 = j
      BY <1>1, <1>5, <2>2
    <3> QED BY <3>1
  <2> QED BY <2>1, <2>2
<1>17. \A i, j \in 1..n : new(i) = new(j) => i = j
  BY <1>1, <1>5
<1>18. \A i \in 1..n : new(i) \in 1..(n + 1) /\ new(i) # p
  BY <1>1, <1>5
<1> HIDE DEF new, first, final
<1>19. \A b : InstructionsOf(b)' = blocks'[b].first .. blocks'[b].last
  BY DEF InstructionsOf
<1>20. Partition'
  <2>1. blocks' \in Seq(Stretch)
    <3>1. blocks' \in [Blocks -> Stretch]
      BY <1>9, <1>11
    <3> HIDE DEF Stretch
    <3> QED BY <1>1, <3>1
  <2>2. \A b \in Blocks' : /\ 1 <= blocks'[b].first /\ blocks'[b].first <= blocks'[b].last
                          /\ blocks'[b].last <= Len(code')
    <3> SUFFICES ASSUME NEW b \in Blocks
                 PROVE  /\ 1 <= blocks'[b].first /\ blocks'[b].first <= blocks'[b].last
                        /\ blocks'[b].last <= n + 1
      BY <1>7, <1>12
    <3>1. /\ blocks'[b].first \in 1..(n + 1) /\ blocks'[b].last \in 1..(n + 1)
          /\ blocks'[b].first <= blocks'[b].last
      BY <1>11
    <3> QED BY <1>1, <3>1
  <2>3. \A b, c \in Blocks' : b < c => blocks'[b].last < blocks'[c].first
    BY <1>12, <1>13
  <2>4. \A i \in DOMAIN code' : \E b \in Blocks' : i \in InstructionsOf(b)'
    <3> SUFFICES ASSUME NEW j \in 1..(n + 1) PROVE \E b \in Blocks : j \in blocks'[b].first .. blocks'[b].last
      BY <1>8, <1>12, <1>19
    <3>1. CASE j = p
      BY <1>15, <3>1
    <3>2. CASE j # p
      <4>1. PICK i \in 1..n : j = new(i)
        BY <1>16, <3>2
      <4> QED BY <1>4, <1>14, <4>1
    <3> QED BY <3>1, <3>2
  <2> QED BY <2>1, <2>2, <2>3, <2>4 DEF Partition
<1>21. \A i \in 1..n : BlockForInstruction(new(i))' = BlockForInstruction(i)
  <2> SUFFICES ASSUME NEW i \in 1..n PROVE BlockForInstruction(new(i))' = BlockForInstruction(i)
    OBVIOUS
  <2> DEFINE b == BlockForInstruction(i)
             j == new(i)
             In(c) == j \in blocks'[c].first .. blocks'[c].last
  <2>1. b \in Blocks /\ In(b)
    BY <1>4, <1>14
  <2>2. \A c \in Blocks : In(c) => c = b
    <3> SUFFICES ASSUME NEW c \in Blocks, In(c), c # b PROVE FALSE
      OBVIOUS
    <3>1. /\ j \in 1..(n + 1) /\ blocks'[b].last \in Nat /\ blocks'[c].last \in Nat
          /\ blocks'[b].first \in Nat /\ blocks'[c].first \in Nat
      <4>1. j \in 1..(n + 1)
        BY <1>18
      <4>2. \A d \in Blocks : blocks'[d].first \in Nat /\ blocks'[d].last \in Nat
        BY <1>11
      <4> HIDE DEF b, j
      <4> QED BY <2>1, <4>1, <4>2
    <3>2. b < c \/ c < b
      BY <1>1, <2>1
    <3>3. blocks'[b].last < blocks'[c].first \/ blocks'[c].last < blocks'[b].first
      BY <1>13, <2>1, <3>2
    <3>4. /\ blocks'[b].first <= j /\ j <= blocks'[b].last
          /\ blocks'[c].first <= j /\ j <= blocks'[c].last /\ j \in Nat
      <4> HIDE DEF b, j
      <4> QED BY <1>1, <2>1, <3>1
    <3> HIDE DEF b, j
    <3> QED BY <3>1, <3>3, <3>4
  <2>3. (CHOOSE c \in Blocks : In(c)) = b
    BY <2>1, <2>2
  <2>4. BlockForInstruction(j)' = CHOOSE c \in Blocks : In(c)
    BY <1>12 DEF BlockForInstruction, InstructionsOf
  <2> QED BY <2>3, <2>4
<1>22. \A i \in 1..n : Counted(new(i))' = Counted(i)
  BY <1>7 DEF Counted
<1>23. Counted(p)' = {}
  <2>1. code'[p].kind = "phi"
    <3>1. code'[p] = Phi(q)
      BY <1>7
    <3>2. Phi(q).kind = "phi"
      BY Zenon DEF Phi
    <3> HIDE DEF Phi
    <3> QED BY <3>1, <3>2
  <2> QED BY <2>1 DEF Counted
<1>24. ASSUME NEW r
       PROVE  Len(BlocksThatAssign(r))' = Len(BlocksThatAssign(r)) /\ Assigning(r)' = Assigning(r)
  <2>1. PICK U : U = Places(r)'
    OBVIOUS
  <2>2. U \in SUBSET (1..(n + 1)) /\ n + 1 \in Nat /\ \A j \in 1..(n + 1) : j \in U <=> r \in Counted(j)'
    BY <1>1, <1>8, <2>1 DEF Places
  <2> DEFINE S == Places(r)
             f == [i \in S |-> new(i)]
             g == [j \in U |-> BlockForInstruction(j)']
  <2>3. /\ Len(BlocksThatAssign(r)) = Cardinality(S)
        /\ Assigning(r) = {BlockForInstruction(i) : i \in S}
    BY AssigningFacts
  <2>4. S \in SUBSET (1..n) /\ IsFiniteSet(S)
    <3>1. S \in SUBSET (1..n)
      BY <1>1 DEF Places
    <3> HIDE DEF S
    <3> QED BY <1>1, <3>1, BelowFacts
  <2>5. U = {new(i) : i \in S}
    <3>1. \A i \in S : new(i) \in U
      BY <1>18, <1>22, <2>4, <2>2 DEF Places
    <3>2. \A j \in U : \E i \in S : j = new(i)
      <4> SUFFICES ASSUME NEW j \in U PROVE \E i \in S : j = new(i)
        OBVIOUS
      <4>1. j # p
        BY <1>23, <2>2
      <4>2. PICK i \in 1..n : j = new(i)
        BY <1>16, <2>2, <4>1
      <4>3. i \in S
        BY <1>1, <1>22, <2>2, <4>2 DEF Places
      <4> QED BY <4>2, <4>3
    <3> QED BY <3>1, <3>2
  <2>6. Cardinality(U) = Cardinality(S)
    <3>1. f \in [S -> U] /\ (\A x, y \in S : f[x] = f[y] => x = y) /\ (\A t \in U : \E x \in S : f[x] = t)
      BY <1>17, <2>4, <2>5
    <3> HIDE DEF f, S
    <3> QED BY <2>4, <3>1, SameSize
  <2>7. BlocksThatAssign(r)' = Mapped(g, U)
    <3>1. BlocksThatAssign(r)' = [k \in DOMAIN Ascending(U) |-> BlockForInstruction(Ascending(U)[k])']
      BY <2>1 DEF BlocksThatAssign, Places
    <3>2. \A k \in DOMAIN Ascending(U) : Ascending(U)[k] \in U
      BY <2>2, NthFacts DEF Ascending
    <3> QED BY <3>1, <3>2 DEF Mapped
  <2>8. Len(Mapped(g, U)) = Cardinality(U) /\ Seqs!ToSet(Mapped(g, U)) = {g[j] : j \in U}
    <3>1. g \in [U -> {g[j] : j \in U}]
      OBVIOUS
    <3>2. PICK m \in Nat : m = n + 1
      BY <2>2
    <3>3. U \in SUBSET (1..m)
      BY <2>2, <3>2
    <3> DEFINE V == {g[j] : j \in U}
    <3>4. g \in [U -> V]
      BY <3>1
    <3> HIDE DEF g, V
    <3>5. Len(Mapped(g, U)) = Cardinality(U) /\ Seqs!ToSet(Mapped(g, U)) = {g[j] : j \in U}
      BY <3>3, <3>4, MappedFacts, ZenonT(30)
    <3> QED BY <3>5
  <2>9. {g[j] : j \in U} = {BlockForInstruction(i) : i \in S}
    <3>1. \A i \in S : new(i) \in U /\ g[new(i)] = BlockForInstruction(i)
      BY <1>21, <2>4, <2>5
    <3>2. \A j \in U : \E i \in S : j = new(i)
      BY <2>5
    <3> HIDE DEF g, S
    <3> QED BY <3>1, <3>2
  <2>10. Assigning(r)' = Seqs!ToSet(BlocksThatAssign(r)')
    BY DEF Assigning, Seqs!ToSet
  <2> HIDE DEF S, g
  <2> QED BY <2>3, <2>6, <2>7, <2>8, <2>9, <2>10
<1>25. PhiPlace(s) = p /\ \A i : Pushed(i, p) = new(i)
  BY <1>0 DEF PhiPlace, Pushed, new
<1>26. \A b \in Blocks : InstructionsOf(b) \subseteq 1..n /\ InstructionsOf(b) = first(b)..final(b)
  BY <1>1, BlockFacts DEF InstructionsOf, first, final
<1>27. \A b \in Blocks : \A i \in InstructionsOf(b) : new(i) \in InstructionsOf(b)'
  BY <1>14, <1>19, <1>26
<1>28. ASSUME NEW b \in Blocks, NEW j \in InstructionsOf(b)'
       PROVE  (j = p /\ b = s) \/ \E i \in InstructionsOf(b) : j = new(i)
  <2>0. /\ j \in blocks'[b].first .. blocks'[b].last
        /\ blocks'[b].first \in 1..(n + 1) /\ blocks'[b].last \in 1..(n + 1)
    BY <1>11, <1>19
  <2>1. \A c \in Blocks : j \in InstructionsOf(c)' => c = b
    <3> SUFFICES ASSUME NEW c \in Blocks, j \in blocks'[c].first .. blocks'[c].last, c # b PROVE FALSE
      BY <1>19
    <3>1. blocks'[c].first \in 1..(n + 1) /\ blocks'[c].last \in 1..(n + 1)
      BY <1>11
    <3>2. b < c \/ c < b
      BY <1>1
    <3>3. blocks'[b].last < blocks'[c].first \/ blocks'[c].last < blocks'[b].first
      BY <1>13, <3>2
    <3> QED BY SMTT(20), <1>1, <2>0, <3>1, <3>3
  <2>2. j \in 1..(n + 1)
    BY <1>1, <2>0
  <2>3. CASE j = p
    BY <1>15, <1>19, <2>1, <2>3
  <2>4. CASE j # p
    <3>1. PICK i \in 1..n : j = new(i)
      BY <1>16, <2>2, <2>4
    <3>2. BlockForInstruction(i) \in Blocks /\ i \in InstructionsOf(BlockForInstruction(i))
      BY <1>4, <1>26
    <3>3. BlockForInstruction(i) = b
      BY <1>27, <2>1, <3>1, <3>2
    <3> QED BY <3>1, <3>2, <3>3
  <2> QED BY <2>3, <2>4
<1>29. \A b \in Blocks : blocks'[b].first = new(first(b))
  <2> SUFFICES ASSUME NEW b \in Blocks PROVE blocks'[b].first = new(first(b))
    OBVIOUS
  <2>1. first(b) \in Nat /\ final(b) \in Nat /\ first(b) <= final(b) /\ p \in Nat /\ p = first(s) + 1 /\ first(s) \in Nat
    BY <1>1, <1>2, <1>5
  <2>2. CASE b < s /\ blocks'[b].first = first(b) /\ final(b) < p - 1
    BY <2>1, <2>2 DEF new
  <2>3. CASE b = s /\ blocks'[b].first = first(b)
    BY <2>1, <2>3 DEF new
  <2>4. CASE s < b /\ blocks'[b].first = first(b) + 1 /\ p < first(b)
    BY <2>1, <2>4 DEF new
  <2> QED BY <1>10, <2>2, <2>3, <2>4
<1>30. \A i \in 1..n : code'[new(i)] = code[i]
  BY <1>7 DEF new
<1>31. \A b \in Blocks : first(b) < final(b) => blocks'[b].first < blocks'[b].last
  BY <1>11
<1>32. code'[p] = Phi(q) /\ code' \in Seq(Written)
  BY <1>7
<1>33. p \in InstructionsOf(s)'
  BY <1>15, <1>19
<1> HIDE DEF Written, Phi, PhiPlace, Pushed
<1> QED BY <1>1, <1>12, <1>20, <1>24, <1>25, <1>27, <1>28, <1>29, <1>30, <1>31, <1>32, <1>33 DEF first, final

-----------------------------------------------------------------------------
\* What is iterated: the least set of blocks with the frontiers of the blocks that
\* assign the register, and of its own.
LEMMA IteratedFacts ==
  ASSUME Partition, code \in Seq(Written), frontiers \in [Blocks -> SUBSET Joining], NEW r
  PROVE  /\ Iterated(r) \subseteq Blocks
         /\ \A b \in Assigning(r) \cup Iterated(r) : frontiers[b] \subseteq Iterated(r)
         /\ \A P \in SUBSET Blocks :
              (\A b \in Assigning(r) \cup P : frontiers[b] \subseteq P) => Iterated(r) \subseteq P
<1> DEFINE start == FrontierOf(Assigning(r))
<1>1. Len(blocks) \in Nat /\ Blocks = 1..Len(blocks)
  BY BlockFacts
<1>2. PICK n \in Nat : n = Len(blocks)
  BY <1>1
<1>3. Assigning(r) \subseteq Blocks
  BY AssigningFacts
<1>4. frontiers \in [1..n -> SUBSET (1..n)]
  BY <1>1, <1>2 DEF Joining
<1>5. start \in SUBSET (1..n)
  BY <1>1, <1>2, <1>3, <1>4 DEF FrontierOf
<1> HIDE DEF start
<1>6. /\ Grown(n, frontiers, start) \in SUBSET (1..n)
      /\ start \subseteq Grown(n, frontiers, start)
      /\ \A b \in Grown(n, frontiers, start) : frontiers[b] \subseteq Grown(n, frontiers, start)
      /\ \A P \in SUBSET (1..n) :
           start \subseteq P /\ (\A b \in P : frontiers[b] \subseteq P) => Grown(n, frontiers, start) \subseteq P
  BY <1>4, <1>5, GrownFacts
<1>7. Iterated(r) = Grown(n, frontiers, start)
  BY <1>2 DEF Iterated, start
<1>8. \A P : start \subseteq P <=> \A b \in Assigning(r) : frontiers[b] \subseteq P
  BY DEF start, FrontierOf
<1>9. Blocks = 1..n
  BY <1>1, <1>2
<1> DEFINE it == Grown(n, frontiers, start)
<1>10. it \subseteq Blocks /\ \A b \in Assigning(r) \cup it : frontiers[b] \subseteq it
  BY <1>6, <1>8, <1>9
<1>11. \A P \in SUBSET Blocks : (\A b \in Assigning(r) \cup P : frontiers[b] \subseteq P) => it \subseteq P
  BY <1>6, <1>8, <1>9
<1> HIDE DEF it
<1> QED BY <1>7, <1>10, <1>11 DEF it

LEMMA StartPhisInv ==
  ASSUME IInv, StartPhis
  PROVE  IInv'
<1>1. /\ pc = "frontiers" /\ pc' = "phis"
      /\ UNCHANGED <<fn, register, work, joins, phis, code, blocks, preds, frontiers>>
      /\ todo' = {r \in Registers : Many(r)}
  BY DEF StartPhis, dominance, graph, Many
<1>2. /\ work = <<>> /\ joins = {} /\ phis = [b \in Blocks |-> {}] /\ register \in Registers
  BY <1>1 DEF IInv, CodeInv
<1>3. /\ Blocks' = Blocks /\ (Partition => Partition')
      /\ \A r : BlocksThatAssign(r)' = BlocksThatAssign(r)
  BY <1>1, CodeStable
<1>4. CodeInv'
  BY <1>1 DEF IInv, CodeInv, Cut
<1>5. CutInv' /\ FrontierInv'
  BY <1>1, <1>3 DEF IInv, CutInv, FrontierInv, Cut, JoinsAreLong, Joining
<1>6. PlaceInv'
  <2>1. \A r : Many(r)' <=> Many(r)
    BY <1>3 DEF Many
  <2>2. phis' \in [Blocks' -> SUBSET Registers]
    BY <1>1, <1>2, <1>3
  <2>3. \A r : PhisOf(r)' = {}
    BY <1>1, <1>2, <1>3 DEF PhisOf
  <2>4. \A r \in Registers : Sound(r)'
    <3> SUFFICES ASSUME NEW r \in Registers PROVE Sound(r)'
      OBVIOUS
    <3>1. r \in todo' \/ ~Many(r)'
      BY <1>1, <2>1
    <3> QED BY <2>3, <3>1 DEF Sound
  <2>5. work' \in Seq(Blocks') /\ work' = <<>> /\ joins' = {}
    BY <1>1, <1>2
  <2> QED BY <1>1, <2>1, <2>2, <2>4, <2>5 DEF PlaceInv
<1> QED BY <1>1, <1>4, <1>5, <1>6 DEF IInv, ConnectInv, RenameInv, PhisExact

\* While phis are placed.
LEMMA PlacingFacts ==
  ASSUME IInv, pc = "phis"
  PROVE  /\ fn \in Functions /\ register \in Registers /\ code \in Seq(Written)
         /\ Partition /\ preds \in [Blocks -> Seq(Blocks)] /\ JoinsAreLong
         /\ frontiers \in [Blocks -> SUBSET Joining]
         /\ phis \in [Blocks -> SUBSET Registers]
         /\ todo \subseteq {r \in Registers : Many(r)}
         /\ work \in Seq(Blocks) /\ joins \subseteq Joining
         /\ work # <<>> \/ joins # {} =>
              /\ Many(register) /\ register \notin todo
              /\ Seqs!ToSet(work) \subseteq Assigning(register) \cup PhisOf(register)
              /\ joins \subseteq Iterated(register)
              /\ seen \subseteq PhisOf(register)
         /\ \A r \in Registers : Sound(r)
BY DEF IInv, CodeInv, CutInv, FrontierInv, PlaceInv, Cut

\* Steps that place no phi.
LEMMA UnplacedInv ==
  ASSUME IInv, pc = "phis", pc' = "phis", register' \in Registers,
         UNCHANGED <<fn, phis, code, blocks, preds, frontiers>>, PlaceInv'
  PROVE  IInv'
<1>1. Blocks' = Blocks /\ (Partition => Partition')
  BY CodeStable
<1>2. CodeInv'
  BY DEF IInv, CodeInv, Cut
<1>3. CutInv' /\ FrontierInv'
  BY <1>1 DEF IInv, CutInv, FrontierInv, Cut, JoinsAreLong, Joining
<1> QED BY <1>2, <1>3 DEF IInv, ConnectInv, RenameInv, PhisExact

LEMMA PhisStable ==
  ASSUME UNCHANGED <<phis, code, blocks, preds, frontiers>>
  PROVE  /\ Blocks' = Blocks /\ Joining' = Joining
         /\ \A r : BlocksThatAssign(r)' = BlocksThatAssign(r) /\ Assigning(r)' = Assigning(r)
         /\ \A r : (Many(r)' <=> Many(r)) /\ PhisOf(r)' = PhisOf(r) /\ Iterated(r)' = Iterated(r)
<1>1. /\ Blocks' = Blocks /\ \A r : BlocksThatAssign(r)' = BlocksThatAssign(r)
  BY CodeStable
<1>2. \A r : Assigning(r)' = Assigning(r)
  BY <1>1 DEF Assigning, Seqs!ToSet
<1>3. \A r : (Many(r)' <=> Many(r)) /\ PhisOf(r)' = PhisOf(r)
  BY <1>1 DEF Many, PhisOf
<1>4. \A r : Iterated(r)' = Iterated(r)
  BY <1>2 DEF Iterated, FrontierOf
<1> QED BY <1>1, <1>2, <1>3, <1>4 DEF Joining

\* The register in hand after a step.
LEMMA RegisterAfter ==
  ASSUME NEW q, register' = q
  PROVE  /\ Many(register)' = Many(q)' /\ Assigning(register)' = Assigning(q)'
         /\ PhisOf(register)' = PhisOf(q)' /\ Iterated(register)' = Iterated(q)'
BY DEF Many, Assigning, PhisOf, Iterated, BlocksThatAssign, Counted, BlockForInstruction, Blocks, InstructionsOf, Seqs!ToSet

LEMMA NextRegisterInv ==
  ASSUME IInv, NextRegister
  PROVE  IInv'
<1>1. PICK q \in todo : /\ todo' = todo \ {q} /\ register' = q
                        /\ work' = BlocksThatAssign(q) /\ seen' = {}
  BY DEF NextRegister
<1>2. /\ pc = "phis" /\ pc' = "phis" /\ work = <<>> /\ joins = {} /\ joins' = joins
      /\ UNCHANGED <<fn, phis, code, blocks, preds, frontiers>>
  BY DEF NextRegister, dominance, graph
<1>3. /\ code \in Seq(Written) /\ Partition /\ phis \in [Blocks -> SUBSET Registers]
      /\ todo \subseteq {r \in Registers : Many(r)} /\ \A r \in Registers : Sound(r)
  BY <1>2, PlacingFacts
<1>4. /\ Blocks' = Blocks /\ Joining' = Joining
      /\ \A r : BlocksThatAssign(r)' = BlocksThatAssign(r) /\ Assigning(r)' = Assigning(r)
      /\ \A r : (Many(r)' <=> Many(r)) /\ PhisOf(r)' = PhisOf(r) /\ Iterated(r)' = Iterated(r)
  BY <1>2, PhisStable
<1>5. q \in Registers /\ Many(q) /\ PhisOf(q) = {}
  BY <1>1, <1>3 DEF Sound
<1>6. work' \in Seq(Blocks') /\ Seqs!ToSet(work') = Assigning(q)
  BY <1>1, <1>3, <1>4, AssigningFacts DEF Assigning
<1>7. ASSUME NEW r \in Registers
      PROVE  Sound(r)'
  <2>1. CASE r = q
    <3>1. \A b \in Assigning(r)' \cup PhisOf(r)' : Pending(r, b)'
      BY <1>1, <1>4, <1>5, <1>6, <2>1 DEF Pending
    <3>2. r \notin todo' /\ Many(r)' /\ PhisOf(r)' = {}
      BY <1>1, <1>4, <1>5, <2>1
    <3> QED BY <3>1, <3>2 DEF Sound
  <2>2. CASE r # q /\ (r \in todo \/ ~Many(r))
    <3>1. PhisOf(r) = {} /\ (r \in todo' \/ ~Many(r)')
      BY <1>1, <1>3, <1>4, <2>2 DEF Sound
    <3> QED BY <1>4, <3>1 DEF Sound
  <2>3. CASE r # q /\ r \notin todo /\ Many(r)
    <3>1. /\ PhisOf(r) \subseteq Iterated(r)
          /\ \A b \in Assigning(r) \cup PhisOf(r) : Pending(r, b) \/ frontiers[b] \subseteq PhisOf(r) \cup PendingJoins(r)
      BY <1>3, <2>3 DEF Sound
    <3>2. PendingJoins(r) = {} /\ \A b : ~Pending(r, b)
      BY <1>2 DEF PendingJoins, Pending, Seqs!ToSet
    <3>3. \A b \in Assigning(r) \cup PhisOf(r) : frontiers[b] \subseteq PhisOf(r)
      BY <3>1, <3>2
    <3>4. r \notin todo' /\ Many(r)'
      BY <1>1, <1>4, <2>3
    <3> QED BY <1>2, <1>4, <3>1, <3>3, <3>4 DEF Sound
  <2> QED BY <2>1, <2>2, <2>3
<1>8. PlaceInv'
  <2>1. phis' \in [Blocks' -> SUBSET Registers] /\ todo' \subseteq {r \in Registers : Many(r)'}
    BY <1>1, <1>2, <1>3, <1>4
  <2>2. joins' = {} /\ register' = q /\ q \notin todo' /\ Many(q)' /\ seen' = {}
    BY <1>1, <1>2, <1>4, <1>5
  <2>3. Many(register)' /\ Assigning(register)' = Assigning(q)
    BY <1>1, <1>4, <1>5, RegisterAfter
  <2> QED BY <1>6, <1>7, <2>1, <2>2, <2>3 DEF PlaceInv
<1> QED BY <1>1, <1>2, <1>5, <1>8, UnplacedInv

LEMMA NextBlockInv ==
  ASSUME IInv, NextBlock
  PROVE  IInv'
<1>1. /\ pc = "phis" /\ pc' = "phis" /\ work # <<>> /\ joins = {}
      /\ work' = Seqs!Front(work) /\ joins' = frontiers[work[Len(work)]]
      /\ UNCHANGED <<fn, phis, code, blocks, preds, frontiers, todo, register, seen>>
  BY DEF NextBlock, dominance, graph
<1>2. PICK q : q = register
  OBVIOUS
<1>3. /\ q \in Registers /\ code \in Seq(Written) /\ Partition
      /\ frontiers \in [Blocks -> SUBSET Joining]
      /\ phis \in [Blocks -> SUBSET Registers]
      /\ todo \subseteq {r \in Registers : Many(r)} /\ work \in Seq(Blocks)
      /\ Many(q) /\ q \notin todo
      /\ Seqs!ToSet(work) \subseteq Assigning(q) \cup PhisOf(q)
      /\ seen \subseteq PhisOf(q)
      /\ \A r \in Registers : Sound(r)
  BY <1>1, <1>2, PlacingFacts
<1>4. /\ Blocks' = Blocks /\ Joining' = Joining
      /\ \A r : BlocksThatAssign(r)' = BlocksThatAssign(r) /\ Assigning(r)' = Assigning(r)
      /\ \A r : (Many(r)' <=> Many(r)) /\ PhisOf(r)' = PhisOf(r) /\ Iterated(r)' = Iterated(r)
  BY <1>1, PhisStable
<1> DEFINE x == work[Len(work)]
<1>5. /\ x \in Seqs!ToSet(work) /\ x \in Blocks /\ work' \in Seq(Blocks)
      /\ Seqs!ToSet(work') \subseteq Seqs!ToSet(work)
      /\ \A b \in Seqs!ToSet(work) : b = x \/ b \in Seqs!ToSet(work')
  <2>1. /\ Len(work) \in Nat /\ Len(work) >= 1 /\ DOMAIN work = 1..Len(work) /\ work[Len(work)] \in Blocks
        /\ work' \in Seq(Blocks) /\ DOMAIN work' = 1..(Len(work) - 1)
        /\ \A k \in 1..(Len(work) - 1) : work'[k] = work[k]
    BY <1>1, <1>3, FrontFacts
  <2>2. PICK m \in Nat : m = Len(work)
    BY <2>1
  <2>3. m >= 1
    BY <2>1, <2>2
  <2>4. \A k \in 1..m : k = m \/ k \in 1..(m - 1)
    BY <2>2
  <2>5. m \in 1..m /\ \A k \in 1..(m - 1) : k \in 1..m
    BY <2>2, <2>3
  <2> QED BY <2>1, <2>2, <2>4, <2>5 DEF Seqs!ToSet
<1>6. joins' = frontiers[x]
  BY <1>1
<1> HIDE DEF x
<1>7. PhisOf(q) \subseteq Iterated(q)
  BY <1>3 DEF Sound
<1>8. frontiers[x] \subseteq Iterated(q) /\ frontiers[x] \subseteq Joining
  <2>1. x \in Assigning(q) \cup Iterated(q)
    BY <1>3, <1>5, <1>7
  <2>2. frontiers[x] \subseteq Iterated(q)
    BY <1>3, <2>1, IteratedFacts
  <2> QED BY <1>3, <1>5, <2>2
<1>9. ASSUME NEW r \in Registers
      PROVE  Sound(r)'
  <2>1. CASE r \in todo \/ ~Many(r)
    <3>1. PhisOf(r) = {}
      BY <1>3, <2>1 DEF Sound
    <3> QED BY <1>1, <1>4, <2>1, <3>1 DEF Sound
  <2>2. CASE r \notin todo /\ Many(r)
    <3>1. /\ PhisOf(r) \subseteq Iterated(r)
          /\ \A b \in Assigning(r) \cup PhisOf(r) : Pending(r, b) \/ frontiers[b] \subseteq PhisOf(r) \cup PendingJoins(r)
      BY <1>3, <2>2 DEF Sound
    <3>2. PendingJoins(r) = {}
      BY <1>1 DEF PendingJoins
    <3>3. \A b \in Assigning(r) \cup PhisOf(r) : Pending(r, b)' \/ frontiers[b] \subseteq PhisOf(r) \cup PendingJoins(r)'
      <4> SUFFICES ASSUME NEW b \in Assigning(r) \cup PhisOf(r)
                   PROVE  Pending(r, b)' \/ frontiers[b] \subseteq PhisOf(r) \cup PendingJoins(r)'
        OBVIOUS
      <4>1. CASE Pending(r, b)
        <5>1. r = q /\ (b = x \/ b \in Seqs!ToSet(work'))
          BY <1>2, <1>5, <4>1 DEF Pending
        <5>2. r = register' /\ PendingJoins(r)' = frontiers[x]
          BY <1>1, <1>2, <1>6, <5>1 DEF PendingJoins
        <5> QED BY <5>1, <5>2 DEF Pending, Seqs!ToSet
      <4>2. CASE ~Pending(r, b)
        BY <3>1, <3>2, <4>2
      <4> QED BY <4>1, <4>2
    <3>4. r \notin todo' /\ Many(r)'
      BY <1>1, <1>4, <2>2
    <3> QED BY <1>1, <1>4, <3>1, <3>3, <3>4 DEF Sound
  <2> QED BY <2>1, <2>2
<1>10. PlaceInv'
  <2>1. phis' \in [Blocks' -> SUBSET Registers] /\ todo' \subseteq {r \in Registers : Many(r)'}
    BY <1>1, <1>3, <1>4
  <2>2. joins' \subseteq Joining' /\ work' \in Seq(Blocks')
    BY <1>4, <1>5, <1>6, <1>8
  <2>3. /\ Many(q)' /\ q \notin todo' /\ register' = q
        /\ Seqs!ToSet(work') \subseteq Assigning(q)' \cup PhisOf(q)'
        /\ joins' \subseteq Iterated(q)' /\ seen' \subseteq PhisOf(q)'
    BY <1>1, <1>2, <1>3, <1>4, <1>5, <1>6, <1>8
  <2>4. /\ Many(register)' = Many(q)' /\ Assigning(register)' = Assigning(q)'
        /\ PhisOf(register)' = PhisOf(q)' /\ Iterated(register)' = Iterated(q)'
    BY <1>1, <1>2, RegisterAfter
  <2> QED BY <1>1, <1>9, <2>1, <2>2, <2>3, <2>4 DEF PlaceInv
<1> QED BY <1>1, <1>2, <1>3, <1>10, UnplacedInv

\* A frontier that has its phi already.
LEMMA HasPhiInv ==
  ASSUME IInv, pc = "phis", pc' = "phis", NEW s \in joins, register \in phis[s],
         joins' = joins \ {s},
         UNCHANGED <<fn, register, todo, work, seen, phis, code, blocks, preds, frontiers>>
  PROVE  IInv'
<1>1. PICK q : q = register
  OBVIOUS
<1>2. /\ q \in Registers /\ code \in Seq(Written) /\ Partition
      /\ phis \in [Blocks -> SUBSET Registers]
      /\ todo \subseteq {r \in Registers : Many(r)} /\ work \in Seq(Blocks) /\ joins \subseteq Joining
      /\ Many(q) /\ q \notin todo
      /\ Seqs!ToSet(work) \subseteq Assigning(q) \cup PhisOf(q)
      /\ joins \subseteq Iterated(q) /\ seen \subseteq PhisOf(q)
      /\ \A r \in Registers : Sound(r)
  BY <1>1, PlacingFacts
<1>3. /\ Blocks' = Blocks /\ Joining' = Joining
      /\ \A r : (Many(r)' <=> Many(r)) /\ PhisOf(r)' = PhisOf(r) /\ Iterated(r)' = Iterated(r) /\ Assigning(r)' = Assigning(r)
  BY PhisStable
<1>4. s \in PhisOf(q)
  BY <1>1, <1>2 DEF Joining, PhisOf
<1>5. ASSUME NEW r \in Registers
      PROVE  Sound(r)'
  <2>1. \A b : Pending(r, b)' <=> Pending(r, b)
    BY DEF Pending, Seqs!ToSet
  <2>2. PendingJoins(r) \subseteq PhisOf(r) \cup PendingJoins(r)'
    <3>1. CASE r = q
      <4>1. PendingJoins(r) = joins /\ PendingJoins(r)' = joins \ {s}
        BY <1>1, <3>1 DEF PendingJoins
      <4> QED BY <1>4, <3>1, <4>1
    <3>2. CASE r # q
      BY <1>1, <3>2 DEF PendingJoins
    <3> QED BY <3>1, <3>2
  <2>3. CASE r \in todo \/ ~Many(r)
    BY <1>2, <1>3, <2>3 DEF Sound
  <2>4. CASE r \notin todo /\ Many(r)
    <3>1. /\ PhisOf(r) \subseteq Iterated(r)
          /\ \A b \in Assigning(r) \cup PhisOf(r) : Pending(r, b) \/ frontiers[b] \subseteq PhisOf(r) \cup PendingJoins(r)
      BY <1>2, <2>4 DEF Sound
    <3>2. \A b \in Assigning(r) \cup PhisOf(r) : Pending(r, b)' \/ frontiers[b] \subseteq PhisOf(r) \cup PendingJoins(r)'
      BY <2>1, <2>2, <3>1
    <3>3. r \notin todo' /\ Many(r)'
      BY <1>3, <2>4
    <3> QED BY <1>3, <3>1, <3>2, <3>3 DEF Sound
  <2> QED BY <2>3, <2>4
<1>6. PlaceInv'
  <2>1. phis' \in [Blocks' -> SUBSET Registers] /\ todo' \subseteq {r \in Registers : Many(r)'}
    BY <1>2, <1>3
  <2>2. joins' \subseteq Joining' /\ work' \in Seq(Blocks')
    BY <1>2, <1>3
  <2>3. Seqs!ToSet(work') = Seqs!ToSet(work)
    OBVIOUS
  <2>4. /\ Many(register)' = Many(q)' /\ Assigning(register)' = Assigning(q)'
        /\ PhisOf(register)' = PhisOf(q)' /\ Iterated(register)' = Iterated(q)'
    BY <1>1, RegisterAfter
  <2>5. /\ Many(register)' /\ register' \notin todo'
        /\ Seqs!ToSet(work') \subseteq Assigning(register)' \cup PhisOf(register)'
        /\ joins' \subseteq Iterated(register)' /\ seen' \subseteq PhisOf(register)'
    BY <1>1, <1>2, <1>3, <2>3, <2>4
  <2> QED BY <1>5, <2>1, <2>2, <2>5 DEF PlaceInv
<1> QED BY <1>1, <1>2, <1>6, UnplacedInv

\* A frontier that gets its phi, and comes into the vector of blocks.
LEMMA NewPhiInv ==
  ASSUME IInv, pc = "phis", pc' = "phis", NEW s \in joins, register \notin phis[s],
         joins' = joins \ {s},
         phis' = [phis EXCEPT ![s] = @ \cup {register}],
         code' = Seqs!InsertAt(code, blocks[s].first + 1, Phi(register)),
         blocks' = [b \in Blocks |-> Moved(b, s)],
         seen' = seen \cup {s},
         work' = IF s \in seen THEN work ELSE Append(work, s),
         UNCHANGED <<fn, register, todo, preds, frontiers>>
  PROVE  IInv'
<1>1. PICK q : q = register
  OBVIOUS
<1>2. /\ fn \in Functions /\ q \in Registers /\ code \in Seq(Written) /\ Partition /\ JoinsAreLong
      /\ preds \in [Blocks -> Seq(Blocks)] /\ frontiers \in [Blocks -> SUBSET Joining]
      /\ phis \in [Blocks -> SUBSET Registers]
      /\ todo \subseteq {r \in Registers : Many(r)} /\ work \in Seq(Blocks) /\ joins \subseteq Joining
      /\ Many(q) /\ q \notin todo
      /\ Seqs!ToSet(work) \subseteq Assigning(q) \cup PhisOf(q)
      /\ joins \subseteq Iterated(q) /\ seen \subseteq PhisOf(q)
      /\ \A r \in Registers : Sound(r)
  BY <1>1, PlacingFacts
<1>3. s \in Blocks /\ s \in Joining /\ blocks[s].first < blocks[s].last
  BY <1>2 DEF Joining, JoinsAreLong
<1>4. /\ Partition' /\ code' \in Seq(Written) /\ Blocks' = Blocks
      /\ \A b \in Blocks : blocks[b].first < blocks[b].last => blocks'[b].first < blocks'[b].last
      /\ \A r : Len(BlocksThatAssign(r))' = Len(BlocksThatAssign(r)) /\ Assigning(r)' = Assigning(r)
  BY <1>1, <1>2, <1>3, PlacedFacts
<1>5. Joining' = Joining
  BY <1>4 DEF Joining
<1>6. \A r : Many(r)' <=> Many(r)
  BY <1>4 DEF Many
<1>7. Len(blocks') = Len(blocks)
  <2>1. Len(blocks) \in Nat /\ Blocks = 1..Len(blocks) /\ blocks' \in Seq(Stretch)
    BY <1>2, <1>4, BlockFacts DEF Partition
  <2>2. PICK m \in Nat : m = Len(blocks)
    BY <2>1
  <2>3. blocks' = [b \in 1..m |-> Moved(b, s)]
    BY <2>1, <2>2
  <2> QED BY <2>2, <2>3
<1>8. \A r : Iterated(r)' = Iterated(r)
  BY <1>4, <1>7 DEF Iterated, FrontierOf
<1>9. \A r : PhisOf(r)' = IF r = q THEN PhisOf(r) \cup {s} ELSE PhisOf(r)
  BY <1>1, <1>2, <1>3, <1>4 DEF PhisOf
<1>10. s \notin PhisOf(q) /\ s \notin seen
  BY <1>1, <1>2 DEF PhisOf
<1>11. work' \in Seq(Blocks) /\ Seqs!ToSet(work') = Seqs!ToSet(work) \cup {s}
  <2>1. PICK w : w = Append(work, s)
    OBVIOUS
  <2>2. /\ w \in Seq(Blocks) /\ Len(work) \in Nat /\ DOMAIN w = 1..(Len(work) + 1)
        /\ \A k \in 1..(Len(work) + 1) : w[k] = IF k = Len(work) + 1 THEN s ELSE work[k]
    BY <1>2, <1>3, <2>1, AppendFacts
  <2>3. PICK m \in Nat : m = Len(work)
    BY <2>2
  <2>4. DOMAIN work = 1..m
    BY <1>2, <2>3
  <2>5. /\ \A k \in 1..(m + 1) : k = m + 1 \/ k \in 1..m
        /\ m + 1 \in 1..(m + 1) /\ \A k \in 1..m : k \in 1..(m + 1) /\ k # m + 1
    OBVIOUS
  <2>6. Seqs!ToSet(w) = Seqs!ToSet(work) \cup {s}
    BY <2>2, <2>3, <2>4, <2>5 DEF Seqs!ToSet
  <2> QED BY <1>10, <2>1, <2>2, <2>6
<1>12. ASSUME NEW r \in Registers
       PROVE  Sound(r)'
  <2>1. CASE r # q
    <3>1. /\ PendingJoins(r) = {} /\ PendingJoins(r)' = {} /\ PhisOf(r)' = PhisOf(r)
          /\ \A b : ~Pending(r, b)
      BY <1>1, <1>9, <2>1 DEF PendingJoins, Pending
    <3>2. CASE r \in todo \/ ~Many(r)
      BY <1>2, <1>6, <3>1, <3>2 DEF Sound
    <3>3. CASE r \notin todo /\ Many(r)
      <4>1. /\ PhisOf(r) \subseteq Iterated(r)
            /\ \A b \in Assigning(r) \cup PhisOf(r) : frontiers[b] \subseteq PhisOf(r)
        BY <1>2, <3>1, <3>3 DEF Sound
      <4>2. r \notin todo' /\ Many(r)'
        BY <1>6, <3>3
      <4> QED BY <1>4, <1>8, <3>1, <4>1, <4>2 DEF Sound
    <3> QED BY <3>2, <3>3
  <2>2. CASE r = q
    <3>1. /\ PendingJoins(r) = joins /\ PendingJoins(r)' = joins \ {s}
          /\ PhisOf(r)' = PhisOf(r) \cup {s}
          /\ r \notin todo' /\ Many(r)'
      BY <1>1, <1>2, <1>6, <1>9, <2>2 DEF PendingJoins
    <3>2. \A b : Pending(r, b)' <=> Pending(r, b) \/ b = s
      BY <1>1, <1>11, <2>2 DEF Pending, Seqs!ToSet
    <3>3. /\ PhisOf(r) \subseteq Iterated(r)
          /\ \A b \in Assigning(r) \cup PhisOf(r) : Pending(r, b) \/ frontiers[b] \subseteq PhisOf(r) \cup joins
      BY <1>2, <2>2, <3>1 DEF Sound
    <3>4. PhisOf(r)' \subseteq Iterated(r)'
      BY <1>2, <1>8, <2>2, <3>1, <3>3
    <3>5. \A b \in Assigning(r)' \cup PhisOf(r)' :
            Pending(r, b)' \/ frontiers'[b] \subseteq PhisOf(r)' \cup PendingJoins(r)'
      BY <1>4, <3>1, <3>2, <3>3
    <3> QED BY <3>1, <3>4, <3>5 DEF Sound
  <2> QED BY <2>1, <2>2
<1>13. PlaceInv'
  <2>1. phis' \in [Blocks' -> SUBSET Registers] /\ todo' \subseteq {r \in Registers : Many(r)'}
    BY <1>1, <1>2, <1>3, <1>4, <1>6
  <2>2. joins' \subseteq Joining' /\ work' \in Seq(Blocks')
    BY <1>2, <1>4, <1>5, <1>11
  <2>3. /\ Many(register)' = Many(q)' /\ Assigning(register)' = Assigning(q)'
        /\ PhisOf(register)' = PhisOf(q)' /\ Iterated(register)' = Iterated(q)'
    BY <1>1, RegisterAfter
  <2>4. /\ Many(register)' /\ register' \notin todo'
        /\ joins' \subseteq Iterated(register)' /\ seen' \subseteq PhisOf(register)'
    BY <1>1, <1>2, <1>6, <1>8, <1>9, <2>3
  <2>5. Seqs!ToSet(work') \subseteq Assigning(register)' \cup PhisOf(register)'
    BY <1>2, <1>4, <1>9, <1>11, <2>3
  <2> QED BY <1>12, <2>1, <2>2, <2>4, <2>5 DEF PlaceInv
<1>14. CodeInv'
  BY <1>1, <1>2, <1>4 DEF CodeInv, Cut
<1>15. CutInv' /\ FrontierInv'
  <2>1. JoinsAreLong'
    BY <1>2, <1>4, <1>5 DEF JoinsAreLong, Joining
  <2> QED BY <1>2, <1>4, <1>5, <2>1 DEF CutInv, FrontierInv, Cut
<1> QED BY <1>13, <1>14, <1>15 DEF IInv, ConnectInv, RenameInv, PhisExact

LEMMA PlacePhiInv ==
  ASSUME IInv, PlacePhi
  PROVE  IInv'
<1>1. PICK s \in joins :
        /\ joins' = joins \ {s}
        /\ IF register \in phis[s] THEN UNCHANGED <<code, blocks, phis, seen, work>>
           ELSE /\ phis' = [phis EXCEPT ![s] = @ \cup {register}]
                /\ code' = Seqs!InsertAt(code, blocks[s].first + 1, Phi(register))
                /\ blocks' = [b \in Blocks |-> Moved(b, s)]
                /\ seen' = seen \cup {s}
                /\ work' = IF s \in seen THEN work ELSE Append(work, s)
  BY Zenon DEF PlacePhi
<1>2. pc = "phis" /\ pc' = "phis" /\ UNCHANGED <<fn, register, todo, preds, frontiers>>
  BY DEF PlacePhi, dominance
<1>3. CASE register \in phis[s]
  BY <1>1, <1>2, <1>3, HasPhiInv
<1>4. CASE register \notin phis[s]
  BY <1>1, <1>2, <1>4, NewPhiInv
<1> QED BY <1>3, <1>4

\* When every register has been done nothing is left to look at: the phis of each are
\* a set that has the frontiers of its own blocks in it, and the iterated frontier is
\* the least one.
LEMMA StartRenameInv ==
  ASSUME IInv, StartRename
  PROVE  IInv'
<1>1. /\ pc = "phis" /\ todo = {} /\ work = <<>> /\ joins = {}
      /\ pc' = "rename" /\ visited' = {} /\ stack' = <<>>
      /\ UNCHANGED <<fn, register, phis, code, blocks, preds, frontiers>>
  BY DEF StartRename, dominance, placing, graph
<1>2. /\ code \in Seq(Written) /\ Partition /\ frontiers \in [Blocks -> SUBSET Joining]
      /\ fn \in Functions /\ register \in Registers
      /\ \A r \in Registers : Sound(r)
  BY <1>1, PlacingFacts
<1>3. ASSUME NEW r \in Registers
      PROVE  PhisOf(r) = IF Many(r) THEN Iterated(r) ELSE {}
  <2>1. CASE ~Many(r)
    BY <1>2, <2>1 DEF Sound
  <2>2. CASE Many(r)
    <3>1. /\ PhisOf(r) \subseteq Iterated(r)
          /\ \A b \in Assigning(r) \cup PhisOf(r) : Pending(r, b) \/ frontiers[b] \subseteq PhisOf(r) \cup PendingJoins(r)
      BY <1>1, <1>2, <2>2 DEF Sound
    <3>2. PendingJoins(r) = {} /\ \A b : ~Pending(r, b)
      BY <1>1 DEF PendingJoins, Pending, Seqs!ToSet
    <3>3. PhisOf(r) \in SUBSET Blocks
      BY DEF PhisOf
    <3>4. Iterated(r) \subseteq PhisOf(r)
      BY <1>2, <3>1, <3>2, <3>3, IteratedFacts
    <3> QED BY <2>2, <3>1, <3>4
  <2> QED BY <2>1, <2>2
<1>4. \A r \in Registers : PhisOf(r)' = IF Many(r)' THEN Iterated(r)' ELSE {}
  BY <1>1, <1>3, PhisStable
<1>5. PhisExact'
  BY <1>4 DEF PhisExact, PhisOf, Many, Iterated, Iterate, FrontierOf, Assigning, Grown, Grows
<1>6. CodeInv'
  BY <1>1, <1>2 DEF CodeInv, Cut
<1> QED BY <1>1, <1>5, <1>6 DEF IInv, CutInv, ConnectInv, FrontierInv, PlaceInv, RenameInv, Cut

\* Renaming enters a block before it does anything else.
LEMMA RenamingInv ==
  ASSUME IInv, RenameFirst \/ RenameInstruction \/ RenameOperands \/ RenameNext
               \/ RenameReturns \/ RenameCrashes \/ Built
  PROVE  IInv'
<1>1. pc = "rename" /\ pc' \in {"rename", "crashed", "done"} /\ UNCHANGED <<fn, register>>
  BY Zenon DEF RenameFirst, RenameInstruction, RenameOperands, RenameNext, RenameReturns, RenameCrashes, Built, placing
<1>2. visited' # {}
  <2>1. CASE RenameFirst
    BY <2>1 DEF RenameFirst, Enter
  <2>2. CASE RenameInstruction \/ RenameOperands \/ RenameReturns \/ RenameCrashes \/ Built
    <3>1. visited' = visited /\ (stack # <<>> \/ visited # {})
      BY <2>2, Zenon DEF RenameInstruction, RenameOperands, RenameReturns, RenameCrashes, Built
    <3> QED BY <1>1, <3>1 DEF IInv, RenameInv
  <2>3. CASE RenameNext
    <3>1. stack # <<>> /\ visited \subseteq visited'
      BY <2>3, Zenon DEF RenameNext, Enter
    <3> QED BY <1>1, <3>1 DEF IInv, RenameInv
  <2> QED BY <2>1, <2>2, <2>3
<1>3. CodeInv'
  BY <1>1 DEF IInv, CodeInv, Cut
<1> QED BY <1>1, <1>2, <1>3 DEF IInv, CutInv, ConnectInv, FrontierInv, PlaceInv, RenameInv, PhisExact, Cut

LEMMA InvNext ==
  ASSUME IInv, [Next]_vars
  PROVE  IInv'
<1>1. CASE UNCHANGED vars
  <2>1. /\ UNCHANGED <<fn, code, pc, blocks, preds, visited, stack, at, runner, frontiers>>
        /\ UNCHANGED <<todo, register, work, seen, joins, phis>>
    BY <1>1 DEF vars, graph, dominance, walking, placing
  <2>2. /\ Blocks' = Blocks /\ Joining' = Joining
        /\ \A r : BlocksThatAssign(r)' = BlocksThatAssign(r) /\ Assigning(r)' = Assigning(r)
        /\ \A r : (Many(r)' <=> Many(r)) /\ PhisOf(r)' = PhisOf(r) /\ Iterated(r)' = Iterated(r)
    BY <2>1, PhisStable
  <2>3. /\ (Partition => Partition') /\ (CutAtStarts => CutAtStarts')
        /\ \A i : IsLabel(i)' <=> IsLabel(i)
        /\ \A b : Successors(b)' = Successors(b)
    BY <2>1, CodeStable
  <2>4. CodeInv' /\ CutInv' /\ FrontierInv' /\ RenameInv'
    BY <2>1, <2>2, <2>3 DEF IInv, CodeInv, CutInv, FrontierInv, RenameInv, JoinsAreLong, Cut
  <2>5. ConnectInv'
    BY <2>1, <2>2, <2>3 DEF IInv, ConnectInv, OnlyFallenInto, Connecting, IsLabel
  <2>6. PlaceInv'
    <3>1. \A r : Sound(r)' <=> Sound(r)
      BY <2>1, <2>2 DEF Sound, Pending, PendingJoins, Seqs!ToSet
    <3>2. PICK q : q = register
      OBVIOUS
    <3>3. /\ (Many(register)' <=> Many(register)) /\ Assigning(register)' = Assigning(register)
          /\ PhisOf(register)' = PhisOf(register) /\ Iterated(register)' = Iterated(register)
      BY <2>1, <2>2, <3>2, RegisterAfter
    <3>4. Seqs!ToSet(work') = Seqs!ToSet(work)
      BY <2>1
    <3> QED BY <2>1, <2>2, <3>1, <3>3, <3>4 DEF IInv, PlaceInv
  <2>7. PhisExact'
    <3>1. pc = "rename" /\ visited = {} =>
            \A r \in Registers : PhisOf(r)' = IF Many(r)' THEN Iterated(r)' ELSE {}
      BY <2>2, ExactForm DEF IInv
    <3> QED BY <2>1, <3>1 DEF PhisExact, PhisOf, Many, Iterated, Iterate, FrontierOf, Assigning, Grown, Grows
  <2> QED BY <2>4, <2>5, <2>6, <2>7 DEF IInv
<1>2. CASE GetBlocks \/ Connect \/ Connected
  BY <1>2, GetBlocksInv, ConnectStepInv, ConnectedInv
<1>3. CASE StartDominators \/ Dominate \/ DominateAgain \/ StartFrontiers
  BY <1>3, DominatorsInv
<1>4. CASE NextFrontier \/ StartRunner \/ Run
  BY <1>4, RunnersInv
<1>5. CASE StartPhis \/ NextRegister \/ NextBlock \/ PlacePhi
  BY <1>5, StartPhisInv, NextRegisterInv, NextBlockInv, PlacePhiInv
<1>6. CASE StartRename
  BY <1>6, StartRenameInv
<1>7. CASE RenameFirst \/ RenameInstruction \/ RenameOperands \/ RenameNext \/ RenameReturns \/ RenameCrashes \/ Built
  BY <1>7, RenamingInv
<1> QED BY <1>1, <1>2, <1>3, <1>4, <1>5, <1>6, <1>7 DEF Next

-----------------------------------------------------------------------------
\* The blocks partition the code, every block of a frontier has room for a phi, and
\* the phis placed so far are sound, in every state (builder.cpp:976-1050, 782-822).
THEOREM Invariance == Spec => []IInv
<1>1. Init => IInv
  BY InitInv
<1>2. IInv /\ [Next]_vars => IInv'
  BY InvNext
<1> QED BY <1>1, <1>2, PTL DEF Spec

(***************************************************************************)
(* Whatever the order in which the unordered containers give up registers  *)
(* and frontiers, the phis of a register that is assigned more than once   *)
(* are in its iterated dominance frontier and nowhere else, and no other   *)
(* register has a phi (builder.cpp:782-822).                               *)
(***************************************************************************)
THEOREM PhisAreExact == Spec => []PhisExact
<1>1. IInv => PhisExact
  BY DEF IInv
<1> QED BY <1>1, Invariance, PTL

-----------------------------------------------------------------------------
\* The graph when dominators are computed: connections and predecessors are the same
\* edges, and only blocks that the entry leads to have connections.
Succ(b) == Seqs!ToSet(conns[b])
Pred(b) == Seqs!ToSet(preds[b])
Around(d) == LeadTo({1}, d)
Doms(b) == {d \in Blocks : b \in Dominated(d)}

Drawn ==
  /\ Len(blocks) \in Nat /\ Blocks = 1..Len(blocks) /\ 1 \in Blocks
  /\ conns \in [Blocks -> Seq(Blocks)]
Linked ==
  /\ Drawn /\ preds \in [Blocks -> Seq(Blocks)]
  /\ \A b, c \in Blocks : c \in Succ(b) <=> b \in Pred(c)
  /\ \A b \in Blocks : Succ(b) # {} => b \in Reachable

\* LeadTo is the least set of blocks that has the starts and what they lead to, but
\* for the block that may not be passed.
LEMMA LeadFacts ==
  ASSUME Drawn, NEW S \in SUBSET Blocks, NEW d \in Nat
  PROVE  /\ LeadTo(S, d) \in SUBSET Blocks /\ S \ {d} \subseteq LeadTo(S, d) /\ d \notin LeadTo(S, d)
         /\ \A b \in LeadTo(S, d) : Succ(b) \ {d} \subseteq LeadTo(S, d)
         /\ \A P \in SUBSET Blocks :
              S \ {d} \subseteq P /\ (\A b \in P : Succ(b) \ {d} \subseteq P) => LeadTo(S, d) \subseteq P
<1> DEFINE F == [b \in Blocks |-> Succ(b) \ {d}]
           n == Len(blocks)
           start == S \ {d}
           all == Grown(n, F, start)
<1>1. LeadTo(S, d) = all
  BY DEF LeadTo, Iterate, Grown, Grows, Succ
<1>2. n \in Nat /\ Blocks = 1..n
  BY DEF Drawn
<1>3. F \in [1..n -> SUBSET (1..n)] /\ \A b \in Blocks : F[b] = Succ(b) \ {d}
  <2>1. \A b \in Blocks : Succ(b) \in SUBSET Blocks
    BY DEF Succ, Drawn, Seqs!ToSet
  <2> QED BY <1>2, <2>1
<1> HIDE DEF F, n
<1>4. /\ all \in SUBSET (1..n) /\ S \ {d} \subseteq all
      /\ \A b \in all : F[b] \subseteq all
      /\ \A P \in SUBSET (1..n) : S \ {d} \subseteq P /\ (\A b \in P : F[b] \subseteq P) => all \subseteq P
  <2>1. start \in SUBSET (1..n)
    BY <1>2
  <2>2. n \in Nat
    BY <1>2
  <2>3. F \in [1..n -> SUBSET (1..n)]
    BY <1>3
  <2> HIDE DEF start
  <2>4. /\ all \in SUBSET (1..n) /\ start \subseteq all
        /\ \A b \in all : F[b] \subseteq all
        /\ \A P \in SUBSET (1..n) : start \subseteq P /\ (\A b \in P : F[b] \subseteq P) => all \subseteq P
    BY <2>1, <2>2, <2>3, GrownFacts
  <2> QED BY <2>4 DEF start
<1> HIDE DEF all
<1>5. d \notin all
  <2> DEFINE P == all \ {d}
  <2>1. P \in SUBSET (1..n) /\ S \ {d} \subseteq P
    BY <1>4
  <2>2. \A b \in P : F[b] \subseteq P
    BY <1>2, <1>3, <1>4
  <2>3. all \subseteq P
    <3> HIDE DEF P
    <3> QED BY <1>4, <2>1, <2>2
  <2> QED BY <2>3
<1>6. all \in SUBSET Blocks /\ \A b \in all : Succ(b) \ {d} \subseteq all
  BY <1>2, <1>3, <1>4
<1>7. ASSUME NEW P \in SUBSET Blocks, S \ {d} \subseteq P, \A b \in P : Succ(b) \ {d} \subseteq P
      PROVE  all \subseteq P
  <2>1. \A b \in P : F[b] \subseteq P
    BY <1>3, <1>7
  <2> QED BY <1>2, <1>4, <1>7, <2>1
<1> QED BY <1>1, <1>4, <1>5, <1>6, <1>7

\* What the entry leads to, and what it leads to around a block.
LEMMA AroundFacts ==
  ASSUME Drawn, NEW d \in Blocks
  PROVE  /\ Reachable \in SUBSET Blocks /\ 1 \in Reachable /\ \A b \in Reachable : Succ(b) \subseteq Reachable
         /\ Around(d) \in SUBSET Reachable /\ d \notin Around(d) /\ (d # 1 => 1 \in Around(d))
         /\ (d = 1 => Around(d) = {})
         /\ \A b \in Around(d) : \A c \in Succ(b) : c = d \/ c \in Around(d)
         /\ \A P \in SUBSET Blocks : 1 \in P /\ (\A b \in P : Succ(b) \subseteq P) => Reachable \subseteq P
         /\ \A P \in SUBSET Blocks :
              (d # 1 => 1 \in P) /\ (\A b \in P : Succ(b) \ {d} \subseteq P) => Around(d) \subseteq P
<1>1. d \in Nat /\ 0 \in Nat /\ {1} \in SUBSET Blocks /\ 0 \notin Blocks
  BY DEF Drawn
<1>2. /\ Reachable \in SUBSET Blocks /\ 1 \in Reachable
      /\ \A b \in Reachable : Succ(b) \subseteq Reachable
      /\ \A P \in SUBSET Blocks : 1 \in P /\ (\A b \in P : Succ(b) \subseteq P) => Reachable \subseteq P
  <2>1. /\ Reachable \in SUBSET Blocks /\ {1} \ {0} \subseteq Reachable
        /\ \A b \in Reachable : Succ(b) \ {0} \subseteq Reachable
        /\ \A P \in SUBSET Blocks :
             {1} \ {0} \subseteq P /\ (\A b \in P : Succ(b) \ {0} \subseteq P) => Reachable \subseteq P
    BY <1>1, LeadFacts DEF Reachable
  <2>2. \A b \in Blocks : Succ(b) \in SUBSET Blocks
    BY DEF Succ, Drawn, Seqs!ToSet
  <2>3. \A b \in Blocks : Succ(b) \ {0} = Succ(b)
    BY <1>1, <2>2
  <2>4. 1 \in Reachable
    BY <2>1
  <2> QED BY <2>1, <2>3, <2>4
<1>3. /\ Around(d) \in SUBSET Blocks /\ {1} \ {d} \subseteq Around(d) /\ d \notin Around(d)
      /\ \A b \in Around(d) : Succ(b) \ {d} \subseteq Around(d)
      /\ \A P \in SUBSET Blocks :
           {1} \ {d} \subseteq P /\ (\A b \in P : Succ(b) \ {d} \subseteq P) => Around(d) \subseteq P
  BY <1>1, LeadFacts DEF Around
<1>4. \A P \in SUBSET Blocks :
        (d # 1 => 1 \in P) /\ (\A b \in P : Succ(b) \ {d} \subseteq P) => Around(d) \subseteq P
  BY <1>3
<1>5. Around(d) \in SUBSET Reachable
  BY <1>2, <1>4
<1>6. d = 1 => Around(d) = {}
  <2>1. {} \in SUBSET Blocks /\ \A b \in {} : FALSE
    OBVIOUS
  <2>2. d = 1 => Around(d) \subseteq {}
    BY <1>4, <2>1
  <2> QED BY <2>2
<1>7. \A b \in Around(d) : \A c \in Succ(b) : c = d \/ c \in Around(d)
  BY <1>3
<1> QED BY <1>2, <1>3, <1>4, <1>5, <1>6, <1>7

LEMMA DomsFacts ==
  ASSUME Drawn, NEW b
  PROVE  /\ Doms(b) \in SUBSET Blocks
         /\ \A d \in Blocks : b \in Blocks => (d \in Doms(b) <=> b \notin Around(d))
         /\ \A d \in Blocks : b \in Blocks => (Dominates(d, b) <=> d \in Doms(b))
BY DEF Doms, Dominated, Around, Dominates

\* Predecessors are reachable, and every reachable block but the entry has one that
\* does not come through the block itself.
LEMMA PredFacts ==
  ASSUME Linked, NEW b \in Reachable
  PROVE  /\ b \in Blocks /\ Pred(b) \subseteq Reachable /\ \A p \in Pred(b) : b \in Succ(p)
         /\ b # 1 => \E p \in Pred(b) : p \in Around(b)
<1>1. Drawn /\ b \in Blocks
  BY AroundFacts DEF Linked, Drawn
<1>2. Pred(b) \in SUBSET Blocks
  BY <1>1 DEF Linked, Pred, Seqs!ToSet
<1>3. \A p \in Pred(b) : b \in Succ(p)
  BY <1>1, <1>2 DEF Linked
<1>4. Pred(b) \subseteq Reachable
  BY <1>2, <1>3 DEF Linked
<1>5. ASSUME b # 1, \A p \in Pred(b) : p \notin Around(b)
      PROVE  FALSE
  <2>1. /\ Around(b) \in SUBSET Blocks /\ b \notin Around(b) /\ 1 \in Around(b) /\ Reachable \in SUBSET Blocks
        /\ \A c \in Around(b) : \A e \in Succ(c) : e = b \/ e \in Around(b)
        /\ \A P \in SUBSET Blocks : 1 \in P /\ (\A c \in P : Succ(c) \subseteq P) => Reachable \subseteq P
    BY <1>1, <1>5, AroundFacts
  <2>2. ASSUME NEW c \in Around(b), NEW e \in Succ(c)
        PROVE  e \in Around(b)
    <3>1. e = b => c \in Pred(b)
      BY <1>1, <2>1 DEF Linked
    <3> QED BY <1>5, <2>1, <3>1
  <2>3. Reachable \subseteq Around(b)
    BY <2>1, <2>2
  <2> QED BY <2>1, <2>3
<1> QED BY <1>1, <1>3, <1>4, <1>5

\* What dominates a block dominates its predecessors, and what dominates every
\* predecessor that the block does not dominate itself dominates the block.
LEMMA Transfer ==
  ASSUME Linked, NEW b \in Reachable, NEW d \in Blocks
  PROVE  /\ b \in Doms(b)
         /\ d \in Doms(b) /\ d # b => \A p \in Pred(b) : d \in Doms(p)
         /\ b # 1 /\ (\A p \in Pred(b) : d \in Doms(p) \/ b \in Doms(p)) => d \in Doms(b)
<1>1. Drawn /\ b \in Blocks /\ Pred(b) \in SUBSET Blocks /\ \A p \in Pred(b) : b \in Succ(p)
  BY PredFacts DEF Linked, Pred, Seqs!ToSet
<1>2. /\ Around(b) \in SUBSET Blocks /\ b \notin Around(b)
      /\ Around(d) \in SUBSET Blocks /\ d \notin Around(d)
      /\ \A c \in Around(b) : \A e \in Succ(c) : e = b \/ e \in Around(b)
      /\ \A c \in Around(d) : \A e \in Succ(c) : e = d \/ e \in Around(d)
      /\ b # 1 => 1 \in Around(b)
      /\ d # 1 => 1 \in Around(d)
      /\ d = 1 => Around(d) = {}
      /\ \A P \in SUBSET Blocks :
           (d # 1 => 1 \in P) /\ (\A c \in P : Succ(c) \ {d} \subseteq P) => Around(d) \subseteq P
  BY <1>1, AroundFacts
<1>3. \A c \in Blocks : (d \in Doms(c) <=> c \notin Around(d)) /\ (b \in Doms(c) <=> c \notin Around(b))
  BY <1>1, DomsFacts
<1>4. d \in Doms(b) /\ d # b => \A p \in Pred(b) : d \in Doms(p)
  BY <1>1, <1>2, <1>3
<1>5. ASSUME b # 1, \A p \in Pred(b) : p \notin Around(d) \/ p \notin Around(b), b \in Around(d)
      PROVE  FALSE
  <2> DEFINE P == Around(d) \cap Around(b)
  <2>1. P \in SUBSET Blocks /\ 1 \in P
    BY <1>2, <1>5
  <2>2. ASSUME NEW c \in P, NEW e \in Succ(c) \ {d}
        PROVE  e \in P
    <3>1. e = b => c \in Pred(b)
      BY <1>1, <1>2 DEF Linked
    <3> QED BY <1>2, <1>5, <3>1
  <2>3. Around(d) \subseteq P
    <3> HIDE DEF P
    <3> QED BY <1>2, <2>1, <2>2
  <2> QED BY <1>2, <1>5, <2>3
<1> QED BY <1>1, <1>2, <1>3, <1>4, <1>5

\* Two blocks that dominate a third dominate one another, one way.
LEMMA Chain ==
  ASSUME Drawn, NEW b \in Reachable, NEW a \in Doms(b), NEW d \in Doms(b)
  PROVE  a \in Doms(d) \/ d \in Doms(a)
<1>1. a \in Blocks /\ d \in Blocks /\ b \in Blocks
  BY AroundFacts, DomsFacts DEF Drawn
<1>2. /\ Around(a) \in SUBSET Blocks /\ Around(d) \in SUBSET Blocks /\ a \notin Around(a)
      /\ \A c \in Around(a) : \A e \in Succ(c) : e = a \/ e \in Around(a)
      /\ \A c \in Around(d) : \A e \in Succ(c) : e = d \/ e \in Around(d)
      /\ a # 1 => 1 \in Around(a)
      /\ \A P \in SUBSET Blocks : 1 \in P /\ (\A c \in P : Succ(c) \subseteq P) => Reachable \subseteq P
  BY <1>1, AroundFacts
<1>3. /\ a \in Doms(d) <=> d \notin Around(a)
      /\ d \in Doms(a) <=> a \notin Around(d)
      /\ b \notin Around(a) /\ b \notin Around(d)
  BY <1>1, DomsFacts
<1>4. ASSUME d \in Around(a), a \in Around(d)
      PROVE  FALSE
  <2> DEFINE P == Around(a) \cup Around(d)
  <2>1. P \in SUBSET Blocks /\ 1 \in P
    BY <1>2, <1>4
  <2>2. \A c \in P : Succ(c) \subseteq P
    BY <1>2, <1>4
  <2>3. Reachable \subseteq P
    <3> HIDE DEF P
    <3> QED BY <1>2, <2>1, <2>2
  <2> QED BY <1>3, <2>3
<1> QED BY <1>3, <1>4

\* A block that dominates another is on the ways to it.
LEMMA OnTheWay ==
  ASSUME Drawn, NEW b \in Reachable, NEW a \in Doms(b)
  PROVE  a \in Reachable /\ b \in LeadTo({a}, 0)
<1>1. a \in Blocks /\ b \in Blocks /\ 0 \in Nat /\ {a} \in SUBSET Blocks /\ 0 \notin Blocks
  BY AroundFacts, DomsFacts DEF Drawn
<1>2. /\ Around(a) \in SUBSET Reachable /\ Reachable \in SUBSET Blocks /\ 1 \in Reachable
      /\ \A c \in Around(a) : \A e \in Succ(c) : e = a \/ e \in Around(a)
      /\ a # 1 => 1 \in Around(a)
      /\ \A c \in Reachable : Succ(c) \subseteq Reachable
      /\ \A P \in SUBSET Blocks : 1 \in P /\ (\A c \in P : Succ(c) \subseteq P) => Reachable \subseteq P
  BY <1>1, AroundFacts
<1>3. b \notin Around(a)
  BY <1>1, DomsFacts
<1>4. a \in Reachable
  <2> SUFFICES ASSUME a \notin Reachable PROVE FALSE
    OBVIOUS
  <2>1. \A c \in Around(a) : Succ(c) \subseteq Around(a)
    BY <1>2
  <2>2. Around(a) \in SUBSET Blocks /\ 1 \in Around(a)
    BY <1>2
  <2>3. Reachable \subseteq Around(a)
    BY <1>2, <2>1, <2>2
  <2> QED BY <1>3, <2>3
<1>5. /\ LeadTo({a}, 0) \in SUBSET Blocks /\ a \in LeadTo({a}, 0)
      /\ \A c \in LeadTo({a}, 0) : Succ(c) \subseteq LeadTo({a}, 0)
  <2>1. /\ LeadTo({a}, 0) \in SUBSET Blocks /\ {a} \ {0} \subseteq LeadTo({a}, 0)
        /\ \A c \in LeadTo({a}, 0) : Succ(c) \ {0} \subseteq LeadTo({a}, 0)
    BY <1>1, LeadFacts
  <2>2. \A c \in Blocks : Succ(c) \in SUBSET Blocks
    BY DEF Succ, Drawn, Seqs!ToSet
  <2> QED BY <1>1, <2>1, <2>2
<1>6. b \in LeadTo({a}, 0)
  <2> DEFINE P == Around(a) \cup LeadTo({a}, 0)
  <2>1. P \in SUBSET Blocks /\ 1 \in P /\ \A c \in P : Succ(c) \subseteq P
    BY <1>2, <1>5
  <2>2. Reachable \subseteq P
    <3> HIDE DEF P
    <3> QED BY <1>2, <2>1
  <2> QED BY <1>3, <2>2
<1> QED BY <1>4, <1>6


-----------------------------------------------------------------------------
\* The lists of some keys, one behind the other.
Gathers(f, ks, lists) ==
  f = [k \in 0..Len(ks) |-> IF k = 0 THEN <<>> ELSE f[k - 1] \o lists[ks[k]]]
Gathered(ks, lists) == (CHOOSE f : Gathers(f, ks, lists))[Len(ks)]

LEMMA GathersExists ==
  ASSUME NEW B, NEW T, NEW ks \in Seq(B), NEW lists \in [B -> Seq(T)]
  PROVE  \E f \in [0..Len(ks) -> Seq(T)] : Gathers(f, ks, lists)
<1> DEFINE n == Len(ks)
           P(m, f) == /\ f \in [0..m -> Seq(T)] /\ f[0] = <<>>
                      /\ \A k \in 1..m : f[k] = f[k - 1] \o lists[ks[k]]
           Bad == {m \in 0..n : ~ \E f : P(m, f)}
<1>0. n \in Nat /\ \A k \in 1..n : ks[k] \in B
  OBVIOUS
<1> HIDE DEF n
<1>1. Bad = {}
  <2> SUFFICES ASSUME Bad # {} PROVE FALSE
    OBVIOUS
  <2>1. PICK m \in Bad : \A l \in Bad : m <= l
    <3>1. Bad \in SUBSET Nat
      <4>1. 0..n \subseteq Nat
        BY <1>0
      <4> HIDE DEF P
      <4> QED BY <4>1
    <3> HIDE DEF Bad
    <3> QED BY <3>1, LeastNatural
  <2>2. CASE m = 0
    <3> DEFINE g == [k \in 0..0 |-> <<>>]
    <3>1. g \in [0..0 -> Seq(T)] /\ g[0] = <<>>
      OBVIOUS
    <3>2. \A k \in 1..0 : FALSE
      OBVIOUS
    <3> HIDE DEF g
    <3>3. P(0, g)
      BY <3>1, <3>2
    <3> QED BY <2>2, <3>3
  <2>3. CASE m # 0
    <3>1. m - 1 \in 0..n /\ m \in 1..n /\ m - 1 \notin Bad
      <4>1. m \in 0..n /\ m - 1 \in 0..n /\ ~(m <= m - 1)
        BY <1>0, <2>3
      <4> HIDE DEF Bad
      <4> QED BY <1>0, <2>1, <2>3, <4>1
    <3>2. PICK f : P(m - 1, f)
      BY <3>1
    <3> DEFINE following == f[m - 1] \o lists[ks[m]]
               g == [k \in 0..m |-> IF k = m THEN following ELSE f[k]]
    <3>3. f[m - 1] \in Seq(T) /\ lists[ks[m]] \in Seq(T) /\ following \in Seq(T)
      <4>1. m - 1 \in 0..(m - 1)
        BY <1>0, <3>1
      <4>2. f[m - 1] \in Seq(T)
        BY <3>2, <4>1
      <4>3. lists[ks[m]] \in Seq(T)
        BY <1>0, <3>1
      <4> QED BY <4>2, <4>3
    <3>4. P(m, g)
      <4>1. m \in Nat \ {0}
        BY <1>0, <3>1
      <4>2. g \in [0..m -> Seq(T)]
        <5> HIDE DEF following
        <5>1. \A k \in 0..m : k = m \/ k \in 0..(m - 1)
          BY <4>1
        <5> QED BY <3>2, <3>3, <5>1
      <4>3. \A k \in 1..m : g[k] = g[k - 1] \o lists[ks[k]]
        <5> SUFFICES ASSUME NEW k \in 1..m PROVE g[k] = g[k - 1] \o lists[ks[k]]
          OBVIOUS
        <5>1. k - 1 \in 0..m /\ k - 1 # m /\ k \in 0..m
          BY <4>1
        <5>2. g[k - 1] = f[k - 1]
          BY <5>1
        <5>3. CASE k = m
          BY <5>1, <5>2, <5>3
        <5>4. CASE k # m
          <6>1. k \in 1..(m - 1)
            BY <4>1, <5>4
          <6>2. f[k] = f[k - 1] \o lists[ks[k]]
            BY <3>2, <6>1
          <6>3. g[k] = f[k]
            BY <5>1, <5>4
          <6> QED BY <5>2, <6>2, <6>3
        <5> QED BY <5>3, <5>4
      <4>4. g[0] = <<>>
        BY <3>2, <4>1
      <4> HIDE DEF g
      <4> QED BY <4>2, <4>3, <4>4
    <3> QED BY <2>1, <3>4
  <2> QED BY <2>2, <2>3
<1>2. PICK f : P(n, f)
  <2>1. n \in 0..n
    BY <1>0
  <2> HIDE DEF P
  <2> QED BY <1>1, <2>1
<1>3. Gathers(f, ks, lists)
  <2> DEFINE g == [k \in 0..n |-> IF k = 0 THEN <<>> ELSE f[k - 1] \o lists[ks[k]]]
  <2>1. \A k \in 0..n : f[k] = g[k]
    <3> SUFFICES ASSUME NEW k \in 0..n PROVE f[k] = g[k]
      OBVIOUS
    <3>1. k # 0 => k \in 1..n
      BY <1>0
    <3>2. k # 0 => f[k] = f[k - 1] \o lists[ks[k]]
      BY <1>2, <3>1
    <3>3. g[k] = IF k = 0 THEN <<>> ELSE f[k - 1] \o lists[ks[k]]
      OBVIOUS
    <3> QED BY <1>2, <3>2, <3>3
  <2>2. f \in [0..n -> Seq(T)]
    BY <1>2
  <2>3. f = g
    <3>1. DOMAIN g = 0..n /\ g = [k \in 0..n |-> g[k]]
      OBVIOUS
    <3>2. f = [k \in 0..n |-> f[k]]
      BY <2>2
    <3> HIDE DEF g
    <3> QED BY <2>1, <3>1, <3>2
  <2> QED BY <2>3 DEF Gathers, n
<1> QED BY <1>2, <1>3 DEF n


\* Among lists that name nothing twice, as many occurrences as there are lists are one
\* in each of them; and the first list comes first.
LEMMA GatheredFacts ==
  ASSUME NEW B, NEW T, NEW ks \in Seq(B), NEW lists \in [B -> Seq(T)]
  PROVE  LET n == Len(ks)
             all == Gathered(ks, lists)
         IN  /\ all \in Seq(T)
             /\ n = 0 => all = <<>>
             /\ n >= 1 /\ (\A k \in 1..n : \A i, j \in DOMAIN lists[ks[k]] : i < j => lists[ks[k]][i] # lists[ks[k]][j]) =>
                  /\ \A i \in 1..Len(lists[ks[1]]) : i <= Len(all) /\ all[i] = lists[ks[1]][i]
                  /\ \A x : Occurrences(all, x) = n <=> \A k \in 1..n : x \in Seqs!ToSet(lists[ks[k]])
<1> DEFINE n == Len(ks)
           f == CHOOSE g : Gathers(g, ks, lists)
           D(k) == lists[ks[k]]
<1>0. n \in Nat /\ \A k \in 1..n : ks[k] \in B /\ D(k) \in Seq(T)
  OBVIOUS
<1>1. Gathers(f, ks, lists)
  BY GathersExists
<1>2. f[0] = <<>> /\ \A k \in 1..n : f[k] = f[k - 1] \o D(k)
  <2> DEFINE h == f
             g == [k \in 0..n |-> IF k = 0 THEN <<>> ELSE h[k - 1] \o D(k)]
  <2> HIDE DEF h
  <2>1. h = g
    BY <1>1 DEF Gathers, h
  <2>2. 0 \in 0..n /\ \A k \in 1..n : k \in 0..n /\ k # 0
    BY <1>0
  <2>3. g[0] = <<>> /\ \A k \in 1..n : g[k] = h[k - 1] \o D(k)
    BY <2>2
  <2> HIDE DEF g
  <2>4. h[0] = <<>> /\ \A k \in 1..n : h[k] = h[k - 1] \o D(k)
    BY <2>1, <2>3
  <2> QED BY <2>4 DEF h
<1>3. Gathered(ks, lists) = f[n]
  BY DEF Gathered
<1> HIDE DEF f, n, D
<1>4. \A k \in 0..n : f[k] \in Seq(T)
  <2> DEFINE Bad == {k \in 0..n : f[k] \notin Seq(T)}
  <2> SUFFICES ASSUME Bad # {} PROVE FALSE
    OBVIOUS
  <2>1. PICK k \in Bad : \A l \in Bad : k <= l
    <3>1. Bad \in SUBSET Nat
      BY <1>0
    <3> HIDE DEF Bad
    <3> QED BY <3>1, LeastNatural
  <2>2. k \in 0..n /\ f[k] \notin Seq(T)
    OBVIOUS
  <2>3. k # 0
    <3>1. <<>> \in Seq(T)
      OBVIOUS
    <3> QED BY <1>2, <2>2, <3>1
  <2>4. k \in 1..n /\ k - 1 \in 0..n /\ ~(k <= k - 1)
    BY <1>0, <2>2, <2>3
  <2>5. f[k - 1] \in Seq(T)
    <3>1. k - 1 \notin Bad
      <4> HIDE DEF Bad
      <4> QED BY <2>1, <2>4
    <3> QED BY <2>4, <3>1
  <2>6. f[k] = f[k - 1] \o D(k) /\ D(k) \in Seq(T)
    BY <1>0, <1>2, <2>4
  <2> QED BY <2>2, <2>5, <2>6
<1>5. ASSUME n >= 1, \A k \in 1..n : \A i, j \in DOMAIN D(k) : i < j => D(k)[i] # D(k)[j]
      PROVE  /\ \A i \in 1..Len(D(1)) : i <= Len(f[n]) /\ f[n][i] = D(1)[i]
             /\ \A x : Occurrences(f[n], x) = n <=> \A k \in 1..n : x \in Seqs!ToSet(D(k))
  <2>1. \A i \in 1..Len(D(1)) : i <= Len(f[n]) /\ f[n][i] = D(1)[i]
    <3> DEFINE Q(k) == \A i \in 1..Len(D(1)) : i <= Len(f[k]) /\ f[k][i] = D(1)[i]
               Bad == {k \in 1..n : ~Q(k)}
    <3>1. n \in 1..n /\ 1 \in 1..n /\ 0 \in 0..n
      BY <1>0, <1>5
    <3> SUFFICES ASSUME Bad # {} PROVE FALSE
      BY <3>1
    <3>2. PICK k \in Bad : \A l \in Bad : k <= l
      <4>1. Bad \in SUBSET Nat
        <5> HIDE DEF Q
        <5>1. 1..n \subseteq Nat
          BY <1>0
        <5> QED BY <5>1
      <4> HIDE DEF Bad
      <4> QED BY <4>1, LeastNatural
    <3>3. k \in 1..n /\ ~Q(k)
      OBVIOUS
    <3>4. f[k] = f[k - 1] \o D(k) /\ D(k) \in Seq(T) /\ f[k - 1] \in Seq(T)
      <4>1. k - 1 \in 0..n
        BY <1>0, <3>3
      <4> QED BY <1>0, <1>2, <1>4, <3>3, <4>1
    <3>5. CASE k = 1
      <4>1. f[k] = <<>> \o D(1)
        <5>1. k - 1 = 0
          BY <3>5
        <5>2. f[k - 1] = <<>>
          BY <1>2, <5>1
        <5> QED BY <3>4, <3>5, <5>2
      <4>2. f[k] = D(1)
        BY <3>4, <3>5, <4>1
      <4> QED BY SMTT(20), <3>3, <3>4, <3>5, <4>2
    <3>6. CASE k # 1
      <4>1. k - 1 \in 1..n /\ ~(k <= k - 1)
        BY <1>0, <3>3, <3>6
      <4>2. Q(k - 1)
        <5>1. k - 1 \notin Bad
          <6> HIDE DEF Bad
          <6> QED BY <3>2, <4>1
        <5> HIDE DEF Q
        <5> QED BY <4>1, <5>1
      <4>3. ASSUME NEW i \in 1..Len(D(1))
            PROVE  i <= Len(f[k]) /\ f[k][i] = D(1)[i]
        <5>1. i <= Len(f[k - 1]) /\ f[k - 1][i] = D(1)[i]
          BY <4>2
        <5>2. PICK s \in Seq(T) : s = f[k - 1]
          BY <3>4
        <5>3. PICK t \in Seq(T) : t = D(k)
          BY <3>4
        <5>4. i \in Nat \ {0}
          <6>1. D(1) \in Seq(T)
            BY <1>0, <3>1
          <6> QED BY <6>1
        <5>5. i <= Len(s \o t) /\ (s \o t)[i] = s[i]
          BY <5>1, <5>2, <5>4
        <5> QED BY <3>4, <5>1, <5>2, <5>3, <5>5
      <4> QED BY <3>3, <4>3
    <3> QED BY <3>5, <3>6
  <2>2. ASSUME NEW s \in Seq(T), NEW t \in Seq(T), NEW x,
               \A i, j \in DOMAIN t : i < j => t[i] # t[j]
        PROVE  /\ Occurrences(s, x) \in Nat
               /\ Occurrences(s \o t, x) = IF x \in Seqs!ToSet(t) THEN Occurrences(s, x) + 1 ELSE Occurrences(s, x)
    <3> DEFINE In(v) == {i \in DOMAIN v : v[i] = x}
    <3>1. Len(s) \in Nat /\ Len(t) \in Nat /\ DOMAIN s = 1..Len(s) /\ DOMAIN t = 1..Len(t)
      OBVIOUS
    <3>2. IsFiniteSet(In(s)) /\ Cardinality(In(s)) \in Nat
      <4>1. In(s) \in SUBSET (1..Len(s))
        BY <3>1
      <4> HIDE DEF In
      <4> QED BY <3>1, <4>1, BelowFacts
    <3>3. /\ DOMAIN (s \o t) = 1..(Len(s) + Len(t))
          /\ \A k \in 1..(Len(s) + Len(t)) : (s \o t)[k] = IF k <= Len(s) THEN s[k] ELSE t[k - Len(s)]
      OBVIOUS
    <3>4. ASSUME x \notin Seqs!ToSet(t)
          PROVE  In(s \o t) = In(s)
      <4>1. \A k \in 1..Len(t) : t[k] # x
        BY <3>1, <3>4 DEF Seqs!ToSet
      <4>2. \A k \in 1..(Len(s) + Len(t)) : k <= Len(s) \/ k - Len(s) \in 1..Len(t)
        BY <3>1
      <4>3. \A k \in 1..Len(s) : k \in 1..(Len(s) + Len(t)) /\ k <= Len(s)
        BY <3>1
      <4>4. \A k \in 1..(Len(s) + Len(t)) : k <= Len(s) => k \in 1..Len(s)
        BY <3>1
      <4> HIDE <3>1
      <4> QED BY <3>1, <3>3, <4>1, <4>2, <4>3, <4>4
    <3>5. ASSUME NEW j \in 1..Len(t), t[j] = x
          PROVE  In(s \o t) = In(s) \cup {Len(s) + j} /\ Len(s) + j \notin In(s)
      <4>1. \A k \in 1..Len(t) : k # j => t[k] # x
        <5> SUFFICES ASSUME NEW k \in 1..Len(t), k # j, t[k] = x PROVE FALSE
          OBVIOUS
        <5>1. k < j \/ j < k
          BY <3>1
        <5> QED BY <2>2, <3>1, <3>5, <5>1
      <4>2. \A k \in 1..(Len(s) + Len(t)) : k <= Len(s) \/ (k - Len(s) \in 1..Len(t) /\ (k - Len(s) = j => k = Len(s) + j))
        BY <3>1
      <4>3. \A k \in 1..Len(s) : k \in 1..(Len(s) + Len(t)) /\ k <= Len(s)
        BY <3>1
      <4>4. \A k \in 1..(Len(s) + Len(t)) : k <= Len(s) => k \in 1..Len(s)
        BY <3>1
      <4>5. /\ Len(s) + j \in 1..(Len(s) + Len(t)) /\ ~(Len(s) + j <= Len(s)) /\ (Len(s) + j) - Len(s) = j
            /\ Len(s) + j \notin 1..Len(s)
        BY <3>1
      <4>6. (s \o t)[Len(s) + j] = x
        BY <3>3, <3>5, <4>5
      <4>7. Len(s) + j \notin In(s)
        BY <3>1, <4>5
      <4>8. In(s) \cup {Len(s) + j} \subseteq In(s \o t)
        BY <3>1, <3>3, <4>3, <4>5, <4>6
      <4>9. ASSUME NEW k \in In(s \o t)
            PROVE  k \in In(s) \cup {Len(s) + j}
        <5>1. k \in 1..(Len(s) + Len(t)) /\ (s \o t)[k] = x
          BY <3>3
        <5>2. CASE k <= Len(s)
          BY <3>1, <3>3, <4>4, <5>1, <5>2
        <5>3. CASE ~(k <= Len(s))
          <6>1. t[k - Len(s)] = x /\ k - Len(s) \in 1..Len(t)
            BY <3>3, <4>2, <5>1, <5>3
          <6> QED BY <4>1, <4>2, <5>1, <5>3, <6>1
        <5> QED BY <5>2, <5>3
      <4> QED BY <4>7, <4>8, <4>9
    <3>6. Occurrences(s, x) = Cardinality(In(s)) /\ Occurrences(s \o t, x) = Cardinality(In(s \o t))
      BY DEF Occurrences
    <3> HIDE DEF In
    <3>7. CASE x \notin Seqs!ToSet(t)
      BY <3>2, <3>4, <3>6, <3>7
    <3>8. CASE x \in Seqs!ToSet(t)
      <4>1. PICK j \in 1..Len(t) : t[j] = x
        BY <3>1, <3>8 DEF Seqs!ToSet
      <4>2. Cardinality(In(s \o t)) = Cardinality(In(s)) + 1
        BY <3>2, <3>5, <4>1, FS_AddElement
      <4> QED BY <3>2, <3>6, <3>8, <4>2
    <3> QED BY <3>7, <3>8
  <2>3. ASSUME NEW x
        PROVE  Occurrences(f[n], x) = n <=> \A k \in 1..n : x \in Seqs!ToSet(D(k))
    <3> DEFINE Q(k) == /\ Occurrences(f[k], x) \in 0..k
                       /\ Occurrences(f[k], x) = k <=> \A j \in 1..k : x \in Seqs!ToSet(D(j))
               Bad == {k \in 0..n : ~Q(k)}
    <3>1. Bad = {}
      <4> SUFFICES ASSUME Bad # {} PROVE FALSE
        OBVIOUS
      <4>1. PICK k \in Bad : \A l \in Bad : k <= l
        <5>1. Bad \in SUBSET Nat
          <6> HIDE DEF Q
          <6>1. 0..n \subseteq Nat
            BY <1>0
          <6> QED BY <6>1
        <5> HIDE DEF Bad
        <5> QED BY <5>1, LeastNatural
      <4>2. k \in 0..n /\ ~Q(k)
        OBVIOUS
      <4>3. CASE k = 0
        <5>1. {i \in DOMAIN <<>> : <<>>[i] = x} = {}
          OBVIOUS
        <5>2. Occurrences(f[0], x) = 0
          BY <1>2, <5>1, FS_EmptySet DEF Occurrences
        <5>3. 0 \in 0..0 /\ \A j \in 1..0 : FALSE
          OBVIOUS
        <5>4. Q(0)
          BY <5>2, <5>3
        <5> HIDE DEF Q
        <5> QED BY <4>2, <4>3, <5>4
      <4>4. CASE k # 0
        <5>1. k \in 1..n /\ k - 1 \in 0..n /\ ~(k <= k - 1) /\ k \in Nat \ {0}
          BY <1>0, <4>2, <4>4
        <5>2. Q(k - 1)
          <6>1. k - 1 \notin Bad
            <7> HIDE DEF Bad
            <7> QED BY <4>1, <5>1
          <6> HIDE DEF Q
          <6> QED BY <5>1, <6>1
        <5>3. /\ f[k - 1] \in Seq(T) /\ D(k) \in Seq(T) /\ f[k] = f[k - 1] \o D(k)
              /\ \A i, j \in DOMAIN D(k) : i < j => D(k)[i] # D(k)[j]
          BY <1>0, <1>2, <1>4, <1>5, <5>1
        <5>4. PICK m \in 0..(k - 1) : m = Occurrences(f[k - 1], x)
          BY <5>2
        <5>5. Occurrences(f[k], x) = IF x \in Seqs!ToSet(D(k)) THEN m + 1 ELSE m
          BY <2>2, <5>3, <5>4
        <5>6. m = k - 1 <=> \A j \in 1..(k - 1) : x \in Seqs!ToSet(D(j))
          BY <5>2, <5>4
        <5>7. (\A j \in 1..k : x \in Seqs!ToSet(D(j)))
                <=> x \in Seqs!ToSet(D(k)) /\ \A j \in 1..(k - 1) : x \in Seqs!ToSet(D(j))
          <6>1. k \in 1..k /\ (\A j \in 1..(k - 1) : j \in 1..k) /\ \A j \in 1..k : j = k \/ j \in 1..(k - 1)
            BY <5>1
          <6> QED BY <6>1
        <5>8. m + 1 \in 0..k /\ m \in 0..k /\ m # k /\ (m + 1 = k <=> m = k - 1)
          BY <5>1, <5>4
        <5>9. Q(k)
          <6>1. CASE x \in Seqs!ToSet(D(k))
            BY <5>5, <5>6, <5>7, <5>8, <6>1
          <6>2. CASE x \notin Seqs!ToSet(D(k))
            BY <5>5, <5>7, <5>8, <6>2
          <6> QED BY <6>1, <6>2
        <5> HIDE DEF Q
        <5> QED BY <4>2, <5>9
      <4> QED BY <4>3, <4>4
    <3>2. n \in 0..n
      BY <1>0
    <3>3. Q(n)
      <4> HIDE DEF Q
      <4> QED BY <3>1, <3>2
    <3> QED BY <3>3
  <2> QED BY <2>1, <2>3
<1>6. n \in 0..n
  BY <1>0
<1>7. n = 0 => f[n] = <<>>
  BY <1>2
<1>8. f[n] \in Seq(T)
  BY <1>4, <1>6
<1> QED BY <1>3, <1>5, <1>7, <1>8 DEF n, D


-----------------------------------------------------------------------------
\* What all predecessors of a block have in their lists.
Common(b) == {d \in Blocks : \A p \in Pred(b) : d \in Seqs!ToSet(dominators[p])}
Once(v) == \A i, j \in DOMAIN v : i < j => v[i] # v[j]

\* v is what a list keeps at some places, in their order, and then b.
Picked(v, b, list, f) ==
  /\ f \in [1..(Len(v) - 1) -> DOMAIN list]
  /\ \A k, l \in 1..(Len(v) - 1) : k < l => f[k] < f[l]
  /\ \A k \in 1..(Len(v) - 1) : v[k] = list[f[k]]
  /\ v[Len(v)] = b

LEMMA NewDominatorsFacts ==
  ASSUME Drawn, preds \in [Blocks -> Seq(Blocks)], dominators \in [Blocks -> Seq(Blocks)], NEW b \in Blocks
  PROVE  LET v == NewDominators(b)
         IN  /\ v \in Seq(Blocks) /\ Len(v) \in Nat /\ Len(v) >= 1 /\ DOMAIN v = 1..Len(v)
             /\ Pred(b) # {} /\ (\A p \in Pred(b) : Once(dominators[p])) =>
                  /\ {v[k] : k \in 1..(Len(v) - 1)} = Common(b)
                  /\ \E p \in Pred(b) : \E f : Picked(v, b, dominators[p], f)
<1> DEFINE met == Met(b)
           n == Len(preds[b])
           D(k) == dominators[preds[b][k]]
           First(i) == \A j \in 1..(i - 1) : met[j] # met[i]
           S == {i \in DOMAIN met : First(i) /\ Occurrences(met, met[i]) = n}
           kept == Kept(met, S)
           v == NewDominators(b)
<1>1. v = Append(kept, b) /\ met = Gathered(preds[b], dominators)
  BY DEF NewDominators, Met, Gathered, Gathers
<1>2. preds[b] \in Seq(Blocks) /\ n \in Nat /\ \A k \in 1..n : preds[b][k] \in Blocks /\ D(k) \in Seq(Blocks)
  OBVIOUS
<1>3. /\ met \in Seq(Blocks)
      /\ n >= 1 /\ (\A k \in 1..n : \A i, j \in DOMAIN D(k) : i < j => D(k)[i] # D(k)[j]) =>
           /\ \A i \in 1..Len(D(1)) : i <= Len(met) /\ met[i] = D(1)[i]
           /\ \A x : Occurrences(met, x) = n <=> \A k \in 1..n : x \in Seqs!ToSet(D(k))
  <2> DEFINE ks == preds[b]
  <2>1. ks \in Seq(Blocks)
    BY <1>2
  <2> HIDE DEF ks
  <2>2. LET all == Gathered(ks, dominators)
        IN  /\ all \in Seq(Blocks)
            /\ Len(ks) >= 1 /\ (\A k \in 1..Len(ks) : \A i, j \in DOMAIN dominators[ks[k]] : i < j => dominators[ks[k]][i] # dominators[ks[k]][j]) =>
                  /\ \A i \in 1..Len(dominators[ks[1]]) : i <= Len(all) /\ all[i] = dominators[ks[1]][i]
                  /\ \A x : Occurrences(all, x) = Len(ks) <=> \A k \in 1..Len(ks) : x \in Seqs!ToSet(dominators[ks[k]])
    BY <2>1, GatheredFacts
  <2> HIDE DEF met
  <2> QED BY <1>1, <2>2 DEF ks
<1> HIDE DEF met, D, n, v
<1>4. S \in SUBSET DOMAIN met /\ Len(met) \in Nat /\ DOMAIN met = 1..Len(met)
  BY <1>3
<1>5. /\ Cardinality(S) \in Nat
      /\ kept \in Seq(Blocks) /\ Len(kept) = Cardinality(S)
      /\ \A k \in 1..Cardinality(S) : Nth(S, k) \in S /\ kept[k] = met[Nth(S, k)]
      /\ \A i \in S : \E k \in 1..Cardinality(S) : Nth(S, k) = i
      /\ \A k, l \in 1..Cardinality(S) : k < l => Nth(S, k) < Nth(S, l)
  <2> HIDE DEF S
  <2> QED BY <1>3, <1>4, KeptFacts
<1> DEFINE c == Cardinality(S)
<1>6. /\ v \in Seq(Blocks) /\ Len(v) = c + 1 /\ DOMAIN v = 1..(c + 1) /\ c \in Nat
      /\ v[c + 1] = b /\ \A k \in 1..c : v[k] = kept[k]
  <2> HIDE DEF S
  <2>1. Len(kept) \in Nat
    BY <1>5
  <2> HIDE DEF kept
  <2>2. /\ v \in Seq(Blocks) /\ Len(v) = Len(kept) + 1 /\ DOMAIN v = 1..(Len(kept) + 1)
        /\ \A k \in 1..(Len(kept) + 1) : v[k] = IF k = Len(kept) + 1 THEN b ELSE kept[k]
    BY <1>1, <1>5, AppendFacts
  <2>3. \A k \in 1..Len(kept) : k \in 1..(Len(kept) + 1) /\ k # Len(kept) + 1
    BY <2>1
  <2>4. Len(kept) + 1 \in 1..(Len(kept) + 1)
    BY <2>1
  <2> QED BY <1>5, <2>2, <2>3, <2>4
<1>7. ASSUME Pred(b) # {}, \A p \in Pred(b) : Once(dominators[p])
      PROVE  {v[k] : k \in 1..c} = Common(b) /\ \E p \in Pred(b) : \E f : Picked(v, b, dominators[p], f)
  <2>1. Pred(b) = {preds[b][k] : k \in 1..n} /\ n >= 1
    <3>1. DOMAIN preds[b] = 1..n
      BY <1>2 DEF n
    <3>2. Pred(b) = {preds[b][k] : k \in 1..n}
      BY <3>1 DEF Pred, Seqs!ToSet
    <3>3. 1..n # {}
      BY <1>7, <3>2
    <3> QED BY <1>2, <3>2, <3>3
  <2>2. 1 \in 1..n /\ preds[b][1] \in Pred(b) /\ D(1) \in Seq(Blocks) /\ DOMAIN D(1) = 1..Len(D(1)) /\ Len(D(1)) \in Nat
    BY <1>2, <2>1
  <2>3. \A k \in 1..n : \A i, j \in DOMAIN D(k) : i < j => D(k)[i] # D(k)[j]
    BY <1>7, <2>1 DEF Once, D
  <2>4. /\ \A i \in 1..Len(D(1)) : i \in DOMAIN met /\ met[i] = D(1)[i]
        /\ \A x : Occurrences(met, x) = n <=> \A k \in 1..n : x \in Seqs!ToSet(D(k))
    <3>1. \A i \in 1..Len(D(1)) : i \in Nat \ {0}
      BY <2>2
    <3> QED BY <1>3, <1>4, <2>1, <2>3, <3>1
  <2>5. \A x \in Blocks : Occurrences(met, x) = n <=> x \in Common(b)
    <3>1. \A x \in Blocks : x \in Common(b) <=> \A k \in 1..n : x \in Seqs!ToSet(D(k))
      BY <2>1 DEF Common, D
    <3> QED BY <2>4, <3>1
  <2>6. ASSUME NEW i \in S
        PROVE  i \in DOMAIN D(1) /\ met[i] = D(1)[i] /\ met[i] \in Common(b)
    <3>1. i \in DOMAIN met /\ First(i) /\ met[i] \in Common(b) /\ i \in Nat \ {0}
      BY <1>3, <1>4, <2>5
    <3>2. met[i] \in Seqs!ToSet(D(1))
      BY <2>2, <2>1, <3>1 DEF Common, D
    <3>3. PICK j \in 1..Len(D(1)) : D(1)[j] = met[i]
      BY <2>2, <3>2 DEF Seqs!ToSet
    <3>4. met[j] = met[i] /\ j \in Nat \ {0}
      BY <2>2, <2>4, <3>3
    <3>5. ~(j < i)
      <4>1. j < i => j \in 1..(i - 1)
        BY <3>1, <3>4
      <4> HIDE DEF S
      <4> QED BY <3>1, <3>4, <4>1
    <3>6. i \in 1..Len(D(1))
      BY SMTT(20), <2>2, <3>1, <3>3, <3>5
    <3> QED BY <2>2, <2>4, <3>1, <3>6
  <2>7. ASSUME NEW x \in Common(b)
        PROVE  \E k \in 1..c : v[k] = x
    <3>1. x \in Seqs!ToSet(D(1)) /\ x \in Blocks
      BY <2>1, <2>2 DEF Common, D
    <3>2. PICK j \in 1..Len(D(1)) : D(1)[j] = x
      BY <2>2, <3>1 DEF Seqs!ToSet
    <3>3. j \in DOMAIN met /\ met[j] = x /\ Occurrences(met, met[j]) = n
      BY <2>4, <2>5, <3>1, <3>2
    <3>4. First(j)
      <4> SUFFICES ASSUME NEW i \in 1..(j - 1), met[i] = met[j] PROVE FALSE
        OBVIOUS
      <4>1. i \in 1..Len(D(1)) /\ i < j
        BY <2>2, <3>2
      <4>2. D(1)[i] = D(1)[j]
        BY <2>4, <3>2, <4>1
      <4> QED BY <2>2, <2>3, <3>2, <4>1, <4>2
    <3>5. j \in S
      <4> HIDE DEF First
      <4> QED BY <3>3, <3>4
    <3> HIDE DEF S
    <3>6. PICK k \in 1..c : Nth(S, k) = j
      BY <1>5, <3>5
    <3> QED BY <1>5, <1>6, <3>3, <3>6
  <2> HIDE DEF S
  <2>8. \A k \in 1..c : v[k] = met[Nth(S, k)] /\ Nth(S, k) \in S
    BY <1>5, <1>6
  <2>9. {v[k] : k \in 1..c} = Common(b)
    <3>1. \A k \in 1..c : v[k] \in Common(b)
      BY <2>6, <2>8
    <3> HIDE DEF c, v
    <3> QED BY <2>7, <3>1
  <2> DEFINE f == [k \in 1..c |-> Nth(S, k)]
             list == D(1)
  <2>10. /\ f \in [1..c -> DOMAIN list]
         /\ \A k, l \in 1..c : k < l => f[k] < f[l]
         /\ \A k \in 1..c : v[k] = list[f[k]]
    BY <1>5, <2>6, <2>8
  <2>11. Len(v) - 1 = c /\ Len(v) = c + 1
    BY <1>6
  <2> HIDE DEF f, c
  <2>12. Picked(v, b, list, f)
    BY <1>6, <2>10, <2>11 DEF Picked
  <2> QED BY <2>2, <2>9, <2>12 DEF D
<1>8. Len(v) - 1 = c /\ Len(v) \in Nat /\ Len(v) >= 1 /\ DOMAIN v = 1..Len(v)
  BY <1>6
<1> HIDE DEF c
<1> QED BY <1>6, <1>7, <1>8 DEF v


-----------------------------------------------------------------------------
\* The blocks on the ways to b, and whether they come in order.
Up(b) == {u \in Reachable : b \in LeadTo({u}, 0)}
InOrder(b) == \A u \in Up(b) : \A c \in Succ(u) \cap Up(b) : u < c \/ c \in Doms(u)

Rising(v) == \A i, j \in DOMAIN v : i < j => v[i] < v[j]
OutermostFirst(v) == \A i, j \in DOMAIN v : i < j => v[i] # v[j] /\ v[i] \in Doms(v[j])
Lists(v, b) == v \in Seq(Blocks) /\ Seqs!ToSet(v) = Doms(b)

\* From a block on: closed, and the least such set.
LEMMA FromFacts ==
  ASSUME Drawn, NEW S \in SUBSET Blocks
  PROVE  /\ LeadTo(S, 0) \in SUBSET Blocks /\ S \subseteq LeadTo(S, 0)
         /\ \A c \in LeadTo(S, 0) : Succ(c) \subseteq LeadTo(S, 0)
         /\ \A P \in SUBSET Blocks : S \subseteq P /\ (\A c \in P : Succ(c) \subseteq P) => LeadTo(S, 0) \subseteq P
<1>1. 0 \in Nat /\ 0 \notin Blocks
  BY DEF Drawn
<1>2. /\ LeadTo(S, 0) \in SUBSET Blocks /\ S \ {0} \subseteq LeadTo(S, 0)
      /\ \A c \in LeadTo(S, 0) : Succ(c) \ {0} \subseteq LeadTo(S, 0)
      /\ \A P \in SUBSET Blocks : S \ {0} \subseteq P /\ (\A c \in P : Succ(c) \ {0} \subseteq P) => LeadTo(S, 0) \subseteq P
  BY <1>1, LeadFacts
<1>3. \A c \in Blocks : Succ(c) \in SUBSET Blocks
  BY DEF Succ, Drawn, Seqs!ToSet
<1>4. S \ {0} = S /\ \A c \in Blocks : Succ(c) \ {0} = Succ(c)
  BY <1>1, <1>3
<1>5. \A P \in SUBSET Blocks : S \subseteq P /\ (\A c \in P : Succ(c) \subseteq P) => LeadTo(S, 0) \subseteq P
  <2> SUFFICES ASSUME NEW P \in SUBSET Blocks, S \subseteq P, \A c \in P : Succ(c) \subseteq P
               PROVE  LeadTo(S, 0) \subseteq P
    OBVIOUS
  <2>1. S \ {0} \subseteq P /\ \A c \in P : Succ(c) \ {0} \subseteq P
    OBVIOUS
  <2> QED BY <1>2, <2>1
<1> QED BY <1>2, <1>4, <1>5

LEMMA UpFacts ==
  ASSUME Linked, NEW b \in Reachable
  PROVE  /\ b \in Up(b) /\ Up(b) \subseteq Reachable /\ Up(b) \in SUBSET Blocks
         /\ \A u \in Up(b) : Pred(u) \subseteq Up(b)
         /\ \A u \in Up(b) : Up(u) \subseteq Up(b)
<1>1. Drawn /\ b \in Blocks /\ Reachable \in SUBSET Blocks
  BY AroundFacts DEF Linked, Drawn
<1>2. ASSUME NEW u \in Blocks
      PROVE  /\ u \in LeadTo({u}, 0) /\ LeadTo({u}, 0) \in SUBSET Blocks
             /\ \A c \in LeadTo({u}, 0) : Succ(c) \subseteq LeadTo({u}, 0)
  <2>1. {u} \in SUBSET Blocks
    OBVIOUS
  <2> QED BY <1>1, <2>1, FromFacts
<1>3. ASSUME NEW u \in Blocks, NEW c \in LeadTo({u}, 0)
      PROVE  LeadTo({c}, 0) \subseteq LeadTo({u}, 0)
  <2>1. {c} \in SUBSET Blocks /\ {c} \subseteq LeadTo({u}, 0)
    BY <1>2, <1>3
  <2> QED BY <1>1, <1>2, <2>1, FromFacts
<1>4. ASSUME NEW u \in Up(b), NEW p \in Pred(u)
      PROVE  p \in Up(b)
  <2>1. u \in Reachable /\ b \in LeadTo({u}, 0) /\ u \in Blocks
    BY <1>1 DEF Up
  <2>2. p \in Reachable /\ u \in Succ(p) /\ p \in Blocks
    BY <1>1, <2>1, PredFacts
  <2>3. u \in LeadTo({p}, 0)
    BY <1>2, <2>2
  <2> QED BY <1>3, <2>1, <2>2, <2>3 DEF Up
<1>5. \A u \in Up(b) : Up(u) \subseteq Up(b)
  BY <1>1, <1>3 DEF Up
<1> QED BY <1>1, <1>2, <1>4, <1>5 DEF Up

\* The entry is dominated by itself alone.
LEMMA EntryDoms ==
  ASSUME Drawn
  PROVE  Doms(1) = {1} /\ 1 \in Reachable
<1>1. 1 \in Blocks
  BY DEF Drawn
<1>2. \A d \in Blocks : (d # 1 => 1 \in Around(d)) /\ (d = 1 => 1 \notin Around(d))
  BY AroundFacts
<1>3. Doms(1) \in SUBSET Blocks /\ \A d \in Blocks : d \in Doms(1) <=> 1 \notin Around(d)
  BY <1>1, DomsFacts
<1> QED BY <1>1, <1>2, <1>3, AroundFacts

\* Where blocks come in order, so do dominators.
LEMMA OrderedDoms ==
  ASSUME Linked, NEW b \in Reachable, InOrder(b)
  PROVE  /\ \A u \in Up(b) : InOrder(u)
         /\ \A d \in Doms(b) : d <= b
<1>1. /\ Drawn /\ b \in Up(b) /\ Up(b) \subseteq Reachable /\ Up(b) \in SUBSET Blocks
      /\ \A u \in Up(b) : Pred(u) \subseteq Up(b)
      /\ \A u \in Up(b) : Up(u) \subseteq Up(b)
  BY UpFacts DEF Linked
<1>2. \A u \in Up(b) : InOrder(u)
  BY <1>1 DEF InOrder
<1>3. Blocks \in SUBSET Nat
  BY <1>1 DEF Drawn
<1> DEFINE Bad == {c \in Up(b) : \E d \in Doms(c) : ~(d <= c)}
<1>4. ASSUME Bad # {}
      PROVE  FALSE
  <2>1. PICK c \in Bad : \A e \in Bad : c <= e
    <3>1. Bad \in SUBSET Nat
      BY <1>1, <1>3
    <3> HIDE DEF Bad
    <3> QED BY <1>4, <3>1, LeastNatural
  <2>2. c \in Up(b) /\ c \in Reachable /\ c \in Nat
    BY <1>1, <1>3
  <2>3. PICK d \in Doms(c) : ~(d <= c)
    OBVIOUS
  <2>4. d \in Blocks /\ d \in Nat /\ d # c
    <3>1. Doms(c) \in SUBSET Blocks
      BY <1>1, DomsFacts
    <3>2. d \in Blocks /\ d \in Nat
      BY <1>3, <3>1
    <3> QED BY <2>2, <2>3, <3>2
  <2>5. c # 1
    BY <1>1, <2>3, EntryDoms
  <2>6. PICK p \in Pred(c) : p \in Around(c)
    BY <2>2, <2>5, PredFacts
  <2>7. p \in Up(b) /\ c \in Succ(p) /\ p \in Reachable /\ p \in Blocks
    BY <1>1, <2>2, PredFacts
  <2>8. c \notin Doms(p)
    BY <1>1, <2>2, <2>6, <2>7, DomsFacts
  <2>9. p < c
    BY <2>2, <2>7, <2>8 DEF InOrder
  <2>10. d \in Doms(p)
    BY <2>2, <2>3, <2>4, <2>6, Transfer
  <2>11. ~(d <= p) /\ ~(c <= p)
    BY <1>3, <2>2, <2>3, <2>4, <2>7, <2>9
  <2>12. p \in Bad
    BY <2>7, <2>10, <2>11
  <2> HIDE DEF Bad
  <2> QED BY <2>1, <2>11, <2>12
<1> QED BY <1>1, <1>2, <1>4

\* A rising list of the dominators has them outermost first.
LEMMA RisingIsExact ==
  ASSUME Linked, NEW b \in Reachable, InOrder(b), NEW v, Lists(v, b), Rising(v)
  PROVE  OutermostFirst(v)
<1>1. Drawn /\ b \in Blocks /\ Blocks \in SUBSET Nat
  BY AroundFacts DEF Linked, Drawn
<1> SUFFICES ASSUME NEW i \in DOMAIN v, NEW j \in DOMAIN v, i < j
             PROVE  v[i] # v[j] /\ v[i] \in Doms(v[j])
  BY DEF OutermostFirst
<1>2. v[i] \in Doms(b) /\ v[j] \in Doms(b) /\ v[i] < v[j]
  BY DEF Lists, Rising, Seqs!ToSet
<1>3. v[i] \in Nat /\ v[j] \in Nat
  BY <1>1, <1>2, DomsFacts
<1>4. v[i] \in Doms(v[j]) \/ v[j] \in Doms(v[i])
  BY <1>1, <1>2, Chain
<1>5. v[i] \in Reachable /\ InOrder(v[i])
  <2>1. v[i] \in Up(b)
    BY <1>1, <1>2, OnTheWay DEF Up
  <2> QED BY <2>1, OrderedDoms DEF Up
<1>6. v[j] \in Doms(v[i]) => v[j] <= v[i]
  BY <1>5, OrderedDoms
<1> QED BY <1>2, <1>3, <1>4, <1>6

\* A new list, when all predecessors' lists are sound: it names the dominators.
LEMMA NewListNames ==
  ASSUME Linked, dominators \in [Blocks -> Seq(Blocks)], NEW b \in Reachable, b # 1,
         \A p \in Pred(b) : Once(dominators[p]),
         Common(b) = Doms(b) \ {b}
  PROVE  /\ Lists(NewDominators(b), b)
         /\ \E p \in Pred(b) : \E f : Picked(NewDominators(b), b, dominators[p], f)
         /\ \A k \in 1..(Len(NewDominators(b)) - 1) : NewDominators(b)[k] \in Doms(b) \ {b}
<1> DEFINE v == NewDominators(b)
           c == Len(v) - 1
<1>1. Drawn /\ b \in Blocks /\ preds \in [Blocks -> Seq(Blocks)] /\ Pred(b) # {} /\ b \in Doms(b)
  BY PredFacts, Transfer DEF Linked
<1>2. /\ v \in Seq(Blocks) /\ Len(v) \in Nat /\ Len(v) >= 1 /\ DOMAIN v = 1..Len(v)
      /\ {v[k] : k \in 1..c} = Common(b)
      /\ \E p \in Pred(b) : \E f : Picked(v, b, dominators[p], f)
  BY <1>1, NewDominatorsFacts
<1>3. v[Len(v)] = b
  BY <1>2 DEF Picked
<1> HIDE DEF v
<1>4. \A k \in 1..Len(v) : k = Len(v) \/ k \in 1..c
  <2>1. Len(v) \in Nat
    BY <1>2
  <2> QED BY <2>1
<1>5. Len(v) \in 1..Len(v) /\ \A k \in 1..c : k \in 1..Len(v)
  BY <1>2
<1> HIDE DEF c
<1>6. Seqs!ToSet(v) = {v[k] : k \in 1..c} \cup {b}
  <2>1. Seqs!ToSet(v) = {v[k] : k \in 1..Len(v)}
    BY <1>2 DEF Seqs!ToSet
  <2> QED BY <1>3, <1>4, <1>5, <2>1
<1>7. Lists(v, b)
  BY <1>1, <1>2, <1>6 DEF Lists
<1> QED BY <1>2, <1>7 DEF v, c

\* Of predecessors in order, those that come later may still have every block.
LEMMA NewInOrder ==
  ASSUME Linked, dominators \in [Blocks -> Seq(Blocks)], NEW b \in Reachable, b # 1, InOrder(b),
         \A p \in Pred(b) : \/ Lists(dominators[p], p) /\ Rising(dominators[p])
                            \/ b <= p /\ dominators[p] = [c \in Blocks |-> c]
  PROVE  Lists(NewDominators(b), b) /\ Rising(NewDominators(b))
<1>1. /\ Drawn /\ b \in Blocks /\ Blocks \in SUBSET Nat /\ Pred(b) \subseteq Reachable /\ Pred(b) \in SUBSET Blocks
      /\ b \in Up(b) /\ Pred(b) \subseteq Up(b)
      /\ \A p \in Pred(b) : b \in Succ(p)
      /\ Doms(b) \in SUBSET Blocks
  <2>1. Drawn /\ Reachable \in SUBSET Blocks
    BY AroundFacts DEF Linked, Drawn
  <2>2. Blocks \in SUBSET Nat
    BY <2>1 DEF Drawn
  <2> QED BY <2>1, <2>2, PredFacts, UpFacts, DomsFacts
<1>2. \A p \in Pred(b) : p < b \/ b \in Doms(p)
  BY <1>1 DEF InOrder
<1>3. PICK q \in Pred(b) : q < b /\ b \notin Doms(q)
  <2>1. PICK q \in Pred(b) : q \in Around(b)
    BY PredFacts
  <2>2. b \notin Doms(q)
    BY <1>1, <2>1, DomsFacts
  <2> QED BY <1>2, <2>1, <2>2
<1> DEFINE every == [c \in Blocks |-> c]
<1>4. Rising(every) /\ Seqs!ToSet(every) = Blocks
  BY <1>1 DEF Rising, Seqs!ToSet
<1>5. \A p \in Pred(b) : Rising(dominators[p]) /\ DOMAIN dominators[p] \in SUBSET Nat
  <2>1. \A p \in Pred(b) : dominators[p] \in Seq(Blocks)
    BY <1>1
  <2>2. \A p \in Pred(b) : DOMAIN dominators[p] \in SUBSET Nat
    BY <2>1
  <2> HIDE DEF every
  <2>3. \A p \in Pred(b) : Rising(dominators[p])
    BY <1>4 DEF every
  <2> QED BY <2>2, <2>3
<1>6. \A p \in Pred(b) : Once(dominators[p])
  <2> SUFFICES ASSUME NEW p \in Pred(b), NEW i \in DOMAIN dominators[p], NEW j \in DOMAIN dominators[p], i < j
               PROVE  dominators[p][i] # dominators[p][j]
    BY DEF Once
  <2>1. dominators[p] \in Seq(Blocks) /\ dominators[p][i] < dominators[p][j]
    BY <1>1, <1>5 DEF Rising
  <2>2. dominators[p][i] \in Nat /\ dominators[p][j] \in Nat
    <3>1. dominators[p][i] \in Blocks /\ dominators[p][j] \in Blocks
      BY <2>1
    <3> QED BY <1>1, <3>1
  <2> QED BY <2>1, <2>2
<1>7. ASSUME NEW p \in Pred(b), NEW d \in Blocks
      PROVE  /\ d \in Seqs!ToSet(dominators[p]) => d \in Doms(p) \/ b \in Doms(p)
             /\ d \in Doms(p) => d \in Seqs!ToSet(dominators[p])
  <2>1. CASE Lists(dominators[p], p)
    BY <2>1 DEF Lists
  <2>2. CASE b <= p /\ dominators[p] = every
    <3>1. ~(p < b)
      BY <1>1, <2>2
    <3>2. d \in Seqs!ToSet(dominators[p])
      <4> HIDE DEF every
      <4> QED BY <1>4, <2>2
    <3> QED BY <1>2, <3>1, <3>2
  <2> QED BY <2>1, <2>2
<1>8. Common(b) = Doms(b) \ {b}
  <2>1. ASSUME NEW d \in Common(b)
        PROVE  d \in Doms(b) \ {b}
    <3>1. d \in Blocks /\ \A p \in Pred(b) : d \in Seqs!ToSet(dominators[p])
      BY DEF Common
    <3>2. d \in Doms(b)
      BY <1>7, <3>1, Transfer
    <3>3. Lists(dominators[q], q)
      <4>1. ~(b <= q)
        BY <1>1, <1>3
      <4> QED BY <4>1
    <3>4. d # b
      BY <1>3, <3>1, <3>3 DEF Lists
    <3> QED BY <3>2, <3>4
  <2>2. ASSUME NEW d \in Doms(b), d # b
        PROVE  d \in Common(b)
    <3>1. d \in Blocks
      BY <1>1
    <3>2. \A p \in Pred(b) : d \in Doms(p)
      BY <2>2, <3>1, Transfer
    <3> QED BY <1>7, <3>1, <3>2 DEF Common
  <2> QED BY <2>1, <2>2
<1> DEFINE v == NewDominators(b)
<1>9. Lists(v, b) /\ \A k \in 1..(Len(v) - 1) : v[k] \in Doms(b) \ {b}
  BY <1>6, <1>8, NewListNames
<1>10. PICK p \in Pred(b) : \E f : Picked(v, b, dominators[p], f)
  BY <1>6, <1>8, NewListNames
<1>11. PICK f : Picked(v, b, dominators[p], f)
  BY <1>10
<1> HIDE DEF v
<1>12. v \in Seq(Blocks) /\ Len(v) \in Nat /\ DOMAIN v = 1..Len(v)
  BY <1>9 DEF Lists
<1>13. ASSUME NEW i \in DOMAIN v, NEW j \in DOMAIN v, i < j
       PROVE  v[i] < v[j]
  <2>1. i \in 1..(Len(v) - 1) /\ (j = Len(v) \/ j \in 1..(Len(v) - 1))
    BY <1>12, <1>13
  <2>2. CASE j = Len(v)
    <3>1. v[j] = b
      BY <1>11, <2>2 DEF Picked
    <3>2. v[i] \in Doms(b) /\ v[i] # b
      BY <1>9, <2>1
    <3>3. v[i] <= b /\ v[i] \in Nat /\ b \in Nat
      BY <1>1, <3>2, OrderedDoms
    <3> QED BY <3>1, <3>2, <3>3
  <2>3. CASE j \in 1..(Len(v) - 1)
    <3>1. /\ f[i] < f[j] /\ f[i] \in DOMAIN dominators[p] /\ f[j] \in DOMAIN dominators[p]
          /\ v[i] = dominators[p][f[i]] /\ v[j] = dominators[p][f[j]]
      BY <1>11, <1>13, <2>1, <2>3 DEF Picked
    <3> QED BY <1>5, <3>1 DEF Rising
  <2> QED BY <2>1, <2>2, <2>3
<1> QED BY <1>9, <1>13 DEF Rising, v


\* Of predecessors whose lists are exact an exact list is made.
LEMMA NewExact ==
  ASSUME Linked, dominators \in [Blocks -> Seq(Blocks)], NEW b \in Reachable, b # 1,
         \A p \in Pred(b) : Lists(dominators[p], p) /\ OutermostFirst(dominators[p])
  PROVE  Lists(NewDominators(b), b) /\ OutermostFirst(NewDominators(b))
<1>1. /\ Drawn /\ b \in Blocks /\ Pred(b) \subseteq Reachable /\ Pred(b) \in SUBSET Blocks
      /\ Doms(b) \in SUBSET Blocks
  <2>1. Drawn /\ Reachable \in SUBSET Blocks
    BY AroundFacts DEF Linked, Drawn
  <2> QED BY <2>1, PredFacts, DomsFacts
<1>2. PICK q \in Pred(b) : b \notin Doms(q)
  <2>1. PICK q \in Pred(b) : q \in Around(b)
    BY PredFacts
  <2> QED BY <1>1, <2>1, DomsFacts
<1>3. \A p \in Pred(b) : Once(dominators[p])
  BY DEF Once, OutermostFirst
<1>4. Common(b) = Doms(b) \ {b}
  <2>1. \A d \in Blocks : d \in Common(b) <=> \A p \in Pred(b) : d \in Doms(p)
    BY DEF Common, Lists
  <2>2. Common(b) \in SUBSET Blocks
    BY DEF Common
  <2>3. \A d \in Blocks : d \in Common(b) => d \in Doms(b) /\ d # b
    BY <1>2, <2>1, Transfer
  <2>4. \A d \in Blocks : d \in Doms(b) /\ d # b => d \in Common(b)
    BY <2>1, Transfer
  <2> QED BY <1>1, <2>2, <2>3, <2>4
<1> DEFINE v == NewDominators(b)
<1>5. Lists(v, b) /\ \A k \in 1..(Len(v) - 1) : v[k] \in Doms(b) \ {b}
  BY <1>3, <1>4, NewListNames
<1>6. PICK p \in Pred(b) : \E f : Picked(v, b, dominators[p], f)
  BY <1>3, <1>4, NewListNames
<1>7. PICK f : Picked(v, b, dominators[p], f)
  BY <1>6
<1> HIDE DEF v
<1>8. v \in Seq(Blocks) /\ Len(v) \in Nat /\ DOMAIN v = 1..Len(v)
  BY <1>5 DEF Lists
<1>9. ASSUME NEW i \in DOMAIN v, NEW j \in DOMAIN v, i < j
      PROVE  v[i] # v[j] /\ v[i] \in Doms(v[j])
  <2>1. i \in 1..(Len(v) - 1) /\ (j = Len(v) \/ j \in 1..(Len(v) - 1))
    <3>1. Len(v) \in Nat /\ i \in 1..Len(v) /\ j \in 1..Len(v)
      BY <1>8
    <3> QED BY <1>9, <3>1
  <2>2. CASE j = Len(v)
    BY <1>5, <1>7, <2>1, <2>2 DEF Picked
  <2>3. CASE j \in 1..(Len(v) - 1)
    <3>1. /\ f[i] < f[j] /\ f[i] \in DOMAIN dominators[p] /\ f[j] \in DOMAIN dominators[p]
          /\ v[i] = dominators[p][f[i]] /\ v[j] = dominators[p][f[j]]
      BY <1>7, <1>9, <2>1, <2>3 DEF Picked
    <3> QED BY <3>1 DEF OutermostFirst
  <2> QED BY <2>1, <2>2, <2>3
<1> QED BY <1>5, <1>9 DEF OutermostFirst, v

\* Before any loop there is nothing that comes before itself.
LEMMA BeforeFacts ==
  ASSUME Linked, NEW b \in BeforeLoops
  PROVE  /\ b \in Reachable
         /\ \A p \in Pred(b) : p \in BeforeLoops /\ b \notin Up(p)
<1>1. Drawn /\ Reachable \in SUBSET Blocks
  BY AroundFacts DEF Linked, Drawn
<1>2. \A c \in Blocks : Seqs!ToSet(conns[c]) = Succ(c) /\ Succ(c) \in SUBSET Blocks
  BY <1>1 DEF Succ, Drawn, Seqs!ToSet
<1>3. /\ b \in Reachable /\ b \notin Looping /\ \A d \in Looping : b \notin Onward(d, 0)
      /\ b \in Blocks
  BY <1>1 DEF BeforeLoops
<1>4. ASSUME NEW c \in Blocks
      PROVE  /\ Onward(c, 0) \in SUBSET Blocks /\ Succ(c) \subseteq Onward(c, 0)
             /\ \A e \in Onward(c, 0) : Succ(e) \subseteq Onward(c, 0)
  <2>1. Onward(c, 0) = LeadTo(Succ(c), 0) /\ Succ(c) \in SUBSET Blocks
    BY <1>2 DEF Onward
  <2> QED BY <1>1, <2>1, FromFacts
<1>5. ASSUME NEW p \in Pred(b)
      PROVE  p \in BeforeLoops /\ b \notin Up(p)
  <2>1. p \in Reachable /\ p \in Blocks /\ b \in Succ(p)
    BY <1>1, <1>3, PredFacts
  <2>2. Looping \in SUBSET Blocks
    BY <1>1 DEF Looping
  <2>3. p \notin Looping
    BY <1>3, <1>4, <2>1
  <2>4. \A d \in Looping : p \notin Onward(d, 0)
    BY <1>3, <1>4, <2>1, <2>2
  <2>5. p \in BeforeLoops
    BY <2>1, <2>3, <2>4 DEF BeforeLoops
  <2>6. p \notin LeadTo({b}, 0)
    <3> DEFINE P == {b} \cup Onward(b, 0)
    <3>1. P \in SUBSET Blocks /\ {b} \subseteq P /\ \A c \in P : Succ(c) \subseteq P
      BY <1>3, <1>4
    <3>2. {b} \in SUBSET Blocks
      BY <1>3
    <3>3. LeadTo({b}, 0) \subseteq P
      <4> HIDE DEF P
      <4> QED BY <1>1, <3>1, <3>2, FromFacts
    <3>4. b \notin Onward(b, 0)
      BY <1>3 DEF Looping
    <3>5. p # b /\ p \notin Onward(b, 0)
      BY <1>3, <1>4, <2>1, <3>4
    <3> QED BY <3>3, <3>5
  <2> QED BY <2>5, <2>6 DEF Up
<1> QED BY <1>3, <1>5

\* The entry has nothing but itself.
EntryAlone == dominators[1] = <<1>>

\* When a turn changes nothing, lists before any loop are exact.
LEMMA SettledExact ==
  ASSUME Linked, dominators \in [Blocks -> Seq(Blocks)], EntryAlone,
         \A b \in Blocks : b # 1 => dominators[b] = NewDominators(b),
         NEW b \in BeforeLoops
  PROVE  Lists(dominators[b], b) /\ OutermostFirst(dominators[b])
<1> DEFINE Fine(c) == Lists(dominators[c], c) /\ OutermostFirst(dominators[c])
           size(c) == Cardinality(Up(c))
           Bad == {c \in BeforeLoops : ~Fine(c)}
           Sizes == {size(c) : c \in Bad}
<1>1. Drawn /\ Reachable \in SUBSET Blocks /\ Len(blocks) \in Nat /\ Blocks = 1..Len(blocks) /\ 1 \in Blocks
  BY AroundFacts DEF Linked, Drawn
<1>2. \A c \in BeforeLoops : /\ c \in Reachable /\ c \in Up(c) /\ Up(c) \in SUBSET Blocks
                             /\ IsFiniteSet(Up(c)) /\ size(c) \in Nat
  <2> SUFFICES ASSUME NEW c \in BeforeLoops
               PROVE  c \in Reachable /\ c \in Up(c) /\ Up(c) \in SUBSET Blocks /\ IsFiniteSet(Up(c)) /\ size(c) \in Nat
    OBVIOUS
  <2>1. c \in Reachable
    BY BeforeFacts
  <2>2. c \in Up(c) /\ Up(c) \in SUBSET Blocks
    BY <2>1, UpFacts
  <2> QED BY <1>1, <2>1, <2>2, BelowFacts
<1>3. Fine(1)
  <2>1. DOMAIN <<1>> = {1} /\ <<1>>[1] = 1 /\ Seqs!ToSet(<<1>>) = {1} /\ <<1>> \in Seq(Blocks)
    BY <1>1 DEF Seqs!ToSet
  <2>2. Doms(1) = {1}
    BY <1>1, EntryDoms
  <2>3. \A i, j \in DOMAIN <<1>> : ~(i < j)
    BY <2>1
  <2> QED BY <2>1, <2>2, <2>3 DEF Lists, OutermostFirst, EntryAlone
<1>4. ASSUME NEW c \in BeforeLoops, \A p \in Pred(c) : Fine(p)
      PROVE  Fine(c)
  <2>1. CASE c = 1
    <3> HIDE DEF Fine
    <3> QED BY <1>3, <2>1
  <2>2. CASE c # 1
    <3>1. c \in Reachable /\ c \in Blocks
      BY <1>1, <1>2
    <3>2. Lists(NewDominators(c), c) /\ OutermostFirst(NewDominators(c))
      BY <1>4, <2>2, <3>1, NewExact
    <3>3. dominators[c] = NewDominators(c)
      BY <2>2, <3>1
    <3> QED BY <3>2, <3>3
  <2> QED BY <2>1, <2>2
<1> HIDE DEF Fine
<1>5. ASSUME Bad # {}
      PROVE  FALSE
  <2>1. Sizes \in SUBSET Nat /\ Sizes # {}
    BY <1>2, <1>5
  <2>2. PICK n \in Sizes : \A m \in Sizes : n <= m
    <3> HIDE DEF Sizes
    <3> QED BY <2>1, LeastNatural
  <2>3. PICK c \in Bad : n = size(c)
    OBVIOUS
  <2>4. c \in BeforeLoops /\ ~Fine(c)
    OBVIOUS
  <2>5. PICK p \in Pred(c) : ~Fine(p)
    BY <1>4, <2>4
  <2>6. p \in BeforeLoops /\ c \notin Up(p)
    BY <2>4, <2>5, BeforeFacts
  <2>7. Up(p) \subseteq Up(c) /\ c \in Up(c)
    BY <1>2, <2>4, <2>5, UpFacts
  <2>8. size(p) < size(c)
    <3>1. /\ IsFiniteSet(Up(c)) /\ size(p) \in Nat /\ size(c) \in Nat
      BY <1>2, <2>4, <2>6
    <3>2. Up(p) # Up(c)
      BY <2>6, <2>7
    <3>3. size(p) <= size(c) /\ size(p) # size(c)
      BY <2>7, <3>1, <3>2, FS_Subset
    <3> QED BY <3>1, <3>3
  <2>9. size(p) \in Sizes
    BY <2>5, <2>6
  <2>10. size(p) \in Nat /\ size(c) \in Nat /\ size(c) <= size(p)
    <3>1. size(c) <= size(p)
      <4> HIDE DEF Sizes, size
      <4> QED BY <2>2, <2>3, <2>9
    <3> QED BY <1>2, <2>4, <2>6, <3>1
  <2> HIDE DEF size
  <2> QED BY <2>8, <2>10
<1> QED BY <1>5 DEF Fine


-----------------------------------------------------------------------------
\* The graph while it is drawn and read.
GraphInv ==
  pc \in {"connect", "dominate", "frontiers"} =>
    /\ 1 \in Blocks /\ conns \in [Blocks -> Seq(Blocks)]
    /\ \A b, c \in Blocks : c \in Succ(b) <=> b \in Pred(c)
    /\ \A b \in Blocks : Succ(b) # {} => b \in visited
    /\ \A P \in SUBSET Blocks : 1 \in P /\ (\A b \in P : Succ(b) \subseteq P) => visited \subseteq P

\* A block in order has its dominators from the first time it is looked at, and every
\* block before.
Found(b) ==
  \/ Lists(dominators[b], b) /\ Rising(dominators[b])
  \/ at <= b /\ dominators[b] = [c \in Blocks |-> c]

DominateInv ==
  pc = "dominate" =>
    /\ dominators \in [Blocks -> Seq(Blocks)] /\ dominators[1] = <<1>>
    /\ at \in Nat /\ at >= 2
    /\ ~changed => \A b \in Blocks : b # 1 /\ b < at => dominators[b] = NewDominators(b)
    /\ \A b \in Reachable : InOrder(b) => Found(b)

ExactInv ==
  pc = "frontiers" =>
    \A b \in Reachable : b \in BeforeLoops \/ InOrder(b) => Lists(dominators[b], b) /\ OutermostFirst(dominators[b])

DInv == GraphInv /\ DominateInv /\ ExactInv

LEMMA GraphLinked ==
  ASSUME IInv, DInv, pc \in {"connect", "dominate", "frontiers"}
  PROVE  Linked /\ Drawn /\ Reachable \in SUBSET Blocks /\ Blocks = 1..Len(blocks) /\ Len(blocks) \in Nat
<1>1. Blocks = 1..Len(blocks) /\ Len(blocks) \in Nat /\ preds \in [Blocks -> Seq(Blocks)]
  BY BlockFacts DEF IInv, CodeInv, CutInv, Cut
<1>2. /\ 1 \in Blocks /\ conns \in [Blocks -> Seq(Blocks)]
      /\ \A b, c \in Blocks : c \in Succ(b) <=> b \in Pred(c)
      /\ \A b \in Blocks : Succ(b) # {} => b \in visited
      /\ \A P \in SUBSET Blocks : 1 \in P /\ (\A b \in P : Succ(b) \subseteq P) => visited \subseteq P
  BY DEF DInv, GraphInv
<1>3. Drawn
  BY <1>1, <1>2 DEF Drawn
<1>4. Reachable \in SUBSET Blocks /\ 1 \in Reachable /\ \A b \in Reachable : Succ(b) \subseteq Reachable
  BY <1>2, <1>3, AroundFacts
<1>5. visited \subseteq Reachable
  BY <1>2, <1>4
<1> QED BY <1>1, <1>2, <1>3, <1>4, <1>5 DEF Linked

LEMMA GraphStable ==
  ASSUME blocks' = blocks, conns' = conns, preds' = preds
  PROVE  /\ Blocks' = Blocks /\ Reachable' = Reachable /\ BeforeLoops' = BeforeLoops
         /\ \A b : Succ(b)' = Succ(b) /\ Pred(b)' = Pred(b)
         /\ \A b : Doms(b)' = Doms(b) /\ (InOrder(b)' <=> InOrder(b))
<1>1. Blocks' = Blocks /\ \A b : Succ(b)' = Succ(b) /\ Pred(b)' = Pred(b)
  BY DEF Blocks, Succ, Pred
<1>2. \A S, d : LeadTo(S, d)' = LeadTo(S, d)
  BY <1>1 DEF LeadTo, Iterate
<1>3. Reachable' = Reachable
  BY <1>2 DEF Reachable
<1>4. \A d : Dominated(d)' = Dominated(d)
  BY <1>1, <1>2 DEF Dominated
<1>5. \A b : Doms(b)' = Doms(b)
  BY <1>1, <1>4 DEF Doms
<1>6. \A b : Up(b)' = Up(b)
  BY <1>2, <1>3 DEF Up
<1>7. \A b : InOrder(b)' <=> InOrder(b)
  BY <1>1, <1>5, <1>6 DEF InOrder
<1>8. \A b, d : Onward(b, d)' = Onward(b, d)
  <2>1. \A b : Seqs!ToSet(conns'[b]) = Seqs!ToSet(conns[b])
    OBVIOUS
  <2>2. \A b, d : LeadTo(Seqs!ToSet(conns[b]), d)' = LeadTo(Seqs!ToSet(conns[b]), d)
    BY <1>1 DEF LeadTo, Iterate
  <2> QED BY <2>2 DEF Onward
<1>9. Looping' = Looping
  BY <1>3, <1>8 DEF Looping
<1>10. BeforeLoops' = BeforeLoops
  BY <1>3, <1>8, <1>9 DEF BeforeLoops
<1> QED BY <1>1, <1>3, <1>5, <1>7, <1>10

\* Steps that leave the graph alone.
LEMMA GraphKept ==
  ASSUME DInv, pc \in {"connect", "dominate", "frontiers"}, UNCHANGED <<blocks, conns, preds, visited>>
  PROVE  GraphInv'
<1>1. Blocks' = Blocks /\ \A b : Succ(b)' = Succ(b) /\ Pred(b)' = Pred(b)
  BY GraphStable
<1> QED BY <1>1 DEF DInv, GraphInv

LEMMA ListsKept ==
  ASSUME blocks' = blocks, conns' = conns, preds' = preds, NEW b, dominators'[b] = dominators[b]
  PROVE  /\ Lists(dominators[b], b)' <=> Lists(dominators[b], b)
         /\ Rising(dominators[b])' <=> Rising(dominators[b])
         /\ OutermostFirst(dominators[b])' <=> OutermostFirst(dominators[b])
<1>1. Blocks' = Blocks /\ \A c : Doms(c)' = Doms(c)
  BY GraphStable
<1>2. Seqs!ToSet(dominators'[b]) = Seqs!ToSet(dominators[b])
  OBVIOUS
<1>3. Lists(dominators[b], b)' <=> Lists(dominators[b], b)
  BY <1>1, <1>2 DEF Lists
<1>4. Rising(dominators[b])' <=> Rising(dominators[b])
  BY DEF Rising
<1>5. OutermostFirst(dominators[b])' <=> OutermostFirst(dominators[b])
  BY <1>1 DEF OutermostFirst
<1> QED BY <1>3, <1>4, <1>5

LEMMA DominatorsStart ==
  ASSUME IInv, DInv, StartDominators
  PROVE  DInv'
<1>1. /\ pc = "connect" /\ pc' = "dominate" /\ at' = 2 /\ changed' = FALSE
      /\ UNCHANGED <<blocks, conns, preds, visited>>
      /\ dominators' = [b \in Blocks |-> IF b = 1 THEN <<1>> ELSE [c \in Blocks |-> c]]
  BY DEF StartDominators, graph
<1>2. Linked /\ Drawn /\ Reachable \in SUBSET Blocks /\ Blocks = 1..Len(blocks) /\ Len(blocks) \in Nat /\ 1 \in Blocks
  BY <1>1, GraphLinked DEF Drawn
<1>3. GraphInv'
  BY <1>1, GraphKept
<1>4. /\ Blocks' = Blocks /\ Reachable' = Reachable
      /\ \A b : Doms(b)' = Doms(b)
  BY <1>1, GraphStable
<1>5. <<1>> \in Seq(Blocks) /\ [c \in Blocks |-> c] \in Seq(Blocks)
  BY <1>2
<1>6. dominators' \in [Blocks -> Seq(Blocks)] /\ dominators'[1] = <<1>>
      /\ \A b \in Blocks : b # 1 => dominators'[b] = [c \in Blocks |-> c]
  <2> DEFINE every == [c \in Blocks |-> c]
  <2>1. dominators' = [b \in Blocks |-> IF b = 1 THEN <<1>> ELSE every]
    BY <1>1
  <2>2. every \in Seq(Blocks)
    BY <1>5
  <2> HIDE DEF every
  <2>3. dominators' \in [Blocks -> Seq(Blocks)] /\ dominators'[1] = <<1>>
        /\ \A b \in Blocks : b # 1 => dominators'[b] = every
    BY <1>2, <1>5, <2>1, <2>2
  <2> QED BY <2>3 DEF every
<1>7. ASSUME NEW b \in Blocks
      PROVE  Found(b)'
  <2>1. CASE b = 1
    <3>1. DOMAIN <<1>> = {1} /\ Seqs!ToSet(<<1>>) = {1}
      BY DEF Seqs!ToSet
    <3>2. Doms(1) = {1}
      BY <1>2, EntryDoms
    <3>3. Lists(dominators[b], b)'
      BY <1>4, <1>5, <1>6, <2>1, <3>1, <3>2 DEF Lists
    <3>4. Rising(dominators[b])'
      BY <1>6, <2>1, <3>1 DEF Rising
    <3> QED BY <3>3, <3>4 DEF Found
  <2>2. CASE b # 1
    <3>1. at' <= b
      BY <1>1, <1>2, <2>2
    <3> QED BY <1>4, <1>6, <2>2, <3>1 DEF Found
  <2> QED BY <2>1, <2>2
<1>8. \A b \in Blocks : ~(b # 1 /\ b < at')
  BY <1>1, <1>2
<1>9. DominateInv'
  BY <1>1, <1>2, <1>4, <1>6, <1>7, <1>8 DEF DominateInv
<1> QED BY <1>1, <1>3, <1>9 DEF DInv, ExactInv

LEMMA DominateStep ==
  ASSUME IInv, DInv, Dominate
  PROVE  DInv'
<1>1. /\ pc = "dominate" /\ pc' = "dominate" /\ at <= Len(blocks) /\ at' = at + 1
      /\ UNCHANGED <<blocks, conns, preds, visited>>
      /\ dominators' = [dominators EXCEPT ![at] = NewDominators(at)]
      /\ changed' = (changed \/ dominators[at] # NewDominators(at))
  BY DEF Dominate, graph
<1>2. Linked /\ Drawn /\ Reachable \in SUBSET Blocks /\ Blocks = 1..Len(blocks) /\ Len(blocks) \in Nat /\ 1 \in Blocks
  BY <1>1, GraphLinked DEF Drawn
<1>3. GraphInv'
  BY <1>1, GraphKept
<1>4. /\ Blocks' = Blocks /\ Reachable' = Reachable
      /\ \A b : Doms(b)' = Doms(b) /\ (InOrder(b)' <=> InOrder(b))
  BY <1>1, GraphStable
<1>5. /\ dominators \in [Blocks -> Seq(Blocks)] /\ dominators[1] = <<1>>
      /\ at \in Nat /\ at >= 2
      /\ ~changed => \A b \in Blocks : b # 1 /\ b < at => dominators[b] = NewDominators(b)
      /\ \A b \in Reachable : InOrder(b) => Found(b)
  BY <1>1 DEF DInv, DominateInv
<1>6. at \in Blocks /\ at # 1 /\ preds \in [Blocks -> Seq(Blocks)]
  BY <1>1, <1>2, <1>5 DEF Linked
<1>7. NewDominators(at) \in Seq(Blocks)
  BY <1>2, <1>5, <1>6, NewDominatorsFacts
<1>8. /\ dominators' \in [Blocks -> Seq(Blocks)] /\ dominators'[1] = <<1>>
      /\ dominators'[at] = NewDominators(at)
      /\ \A b \in Blocks : b # at => dominators'[b] = dominators[b]
  BY <1>1, <1>2, <1>5, <1>6, <1>7
<1>9. ASSUME ~changed', NEW b \in Blocks, b # 1, b < at'
      PROVE  dominators'[b] = NewDominators(b)'
  <2>1. ~changed /\ dominators[at] = NewDominators(at)
    BY <1>1, <1>9
  <2>2. dominators' = dominators
    BY <1>1, <1>5, <1>6, <2>1
  <2>3. NewDominators(b)' = NewDominators(b)
    <3>1. Met(b)' = Met(b)
      BY <1>1, <2>2 DEF Met
    <3>2. preds'[b] = preds[b]
      BY <1>1
    <3> QED BY <3>1, <3>2 DEF NewDominators
  <2>4. b < at \/ b = at
    BY <1>1, <1>2, <1>5, <1>9
  <2> QED BY <1>5, <1>9, <2>1, <2>2, <2>3, <2>4
<1>10. ASSUME NEW b \in Reachable, InOrder(b)
       PROVE  Found(b)'
  <2>1. b \in Blocks /\ b \in Nat /\ Found(b)
    BY <1>2, <1>5, <1>10
  <2>2. CASE b # at
    <3>1. dominators'[b] = dominators[b]
      BY <1>8, <2>1, <2>2
    <3>2. /\ Lists(dominators[b], b)' <=> Lists(dominators[b], b)
          /\ Rising(dominators[b])' <=> Rising(dominators[b])
      BY <1>1, <3>1, ListsKept
    <3>3. at <= b => at' <= b
      BY <1>1, <1>5, <2>1, <2>2
    <3> QED BY <1>4, <2>1, <3>1, <3>2, <3>3 DEF Found
  <2>3. CASE b = at
    <3>1. ASSUME NEW p \in Pred(b)
          PROVE  \/ Lists(dominators[p], p) /\ Rising(dominators[p])
                 \/ b <= p /\ dominators[p] = [c \in Blocks |-> c]
      <4>1. b \in Up(b) /\ Pred(b) \subseteq Up(b) /\ Up(b) \subseteq Reachable
        BY <1>2, UpFacts
      <4>2. InOrder(p) /\ p \in Reachable
        BY <1>2, <1>10, <4>1, OrderedDoms
      <4> QED BY <1>5, <2>3, <4>2 DEF Found
    <3>2. Lists(NewDominators(b), b) /\ Rising(NewDominators(b))
      BY <1>2, <1>5, <1>6, <1>10, <2>3, <3>1, NewInOrder
    <3>3. dominators'[b] = NewDominators(b)
      BY <1>8, <2>3
    <3>4. Lists(dominators[b], b)'
      <4>1. dominators'[b] \in Seq(Blocks) /\ Seqs!ToSet(dominators'[b]) = Doms(b)
        BY <3>2, <3>3 DEF Lists
      <4> QED BY <1>4, <4>1 DEF Lists
    <3>5. Rising(dominators[b])'
      BY <3>2, <3>3 DEF Rising
    <3> QED BY <3>4, <3>5 DEF Found
  <2> QED BY <2>2, <2>3
<1>11. at' \in Nat /\ at' >= 2
  BY <1>1, <1>5
<1>12. DominateInv'
  BY <1>4, <1>8, <1>9, <1>10, <1>11 DEF DominateInv
<1> QED BY <1>1, <1>3, <1>12 DEF DInv, ExactInv

LEMMA DominateTurn ==
  ASSUME IInv, DInv, DominateAgain
  PROVE  DInv'
<1>1. /\ pc = "dominate" /\ pc' = "dominate" /\ at > Len(blocks) /\ at' = 2 /\ changed' = FALSE
      /\ UNCHANGED <<blocks, conns, preds, visited, dominators>>
  BY DEF DominateAgain, graph
<1>2. Linked /\ Reachable \in SUBSET Blocks /\ Blocks = 1..Len(blocks) /\ Len(blocks) \in Nat
  BY <1>1, GraphLinked
<1>3. GraphInv'
  BY <1>1, GraphKept
<1>4. /\ Blocks' = Blocks /\ Reachable' = Reachable
      /\ \A b : (InOrder(b)' <=> InOrder(b))
  BY <1>1, GraphStable
<1>5. /\ dominators \in [Blocks -> Seq(Blocks)] /\ dominators[1] = <<1>> /\ at \in Nat
      /\ \A b \in Reachable : InOrder(b) => Found(b)
  BY <1>1 DEF DInv, DominateInv
<1>6. ASSUME NEW b \in Reachable, InOrder(b)
      PROVE  Found(b)'
  <2>1. ~(at <= b)
    BY <1>1, <1>2, <1>5
  <2>2. Lists(dominators[b], b) /\ Rising(dominators[b])
    BY <1>5, <1>6, <2>1 DEF Found
  <2>3. dominators'[b] = dominators[b]
    BY <1>1
  <2>4. Lists(dominators[b], b)' /\ Rising(dominators[b])'
    BY <1>1, <2>2, <2>3, ListsKept
  <2> QED BY <2>4 DEF Found
<1>7. \A b \in Blocks : ~(b # 1 /\ b < at')
  BY <1>1, <1>2
<1>8. at' \in Nat /\ at' >= 2
  BY <1>1
<1>9. DominateInv'
  BY <1>1, <1>4, <1>5, <1>6, <1>7, <1>8 DEF DominateInv
<1> QED BY <1>1, <1>3, <1>9 DEF DInv, ExactInv

LEMMA DominateEnds ==
  ASSUME IInv, DInv, StartFrontiers
  PROVE  DInv'
<1>1. /\ pc = "dominate" /\ pc' = "frontiers" /\ at > Len(blocks) /\ ~changed
      /\ UNCHANGED <<blocks, conns, preds, visited, dominators>>
  BY DEF StartFrontiers, graph, dominance
<1>2. Linked /\ Reachable \in SUBSET Blocks /\ Blocks = 1..Len(blocks) /\ Len(blocks) \in Nat
  BY <1>1, GraphLinked
<1>3. GraphInv'
  BY <1>1, GraphKept
<1>4. /\ Blocks' = Blocks /\ Reachable' = Reachable /\ BeforeLoops' = BeforeLoops
      /\ \A b : (InOrder(b)' <=> InOrder(b))
  BY <1>1, GraphStable
<1>5. /\ dominators \in [Blocks -> Seq(Blocks)] /\ dominators[1] = <<1>> /\ at \in Nat
      /\ \A b \in Blocks : b # 1 /\ b < at => dominators[b] = NewDominators(b)
      /\ \A b \in Reachable : InOrder(b) => Found(b)
  BY <1>1 DEF DInv, DominateInv
<1>6. \A b \in Blocks : b < at /\ ~(at <= b)
  BY <1>1, <1>2, <1>5
<1>7. ASSUME NEW b \in Reachable, b \in BeforeLoops \/ InOrder(b)
      PROVE  Lists(dominators[b], b) /\ OutermostFirst(dominators[b])
  <2>1. CASE b \in BeforeLoops
    BY <1>2, <1>5, <1>6, <2>1, SettledExact DEF EntryAlone
  <2>2. CASE InOrder(b)
    <3>1. Lists(dominators[b], b) /\ Rising(dominators[b])
      BY <1>2, <1>5, <1>6, <2>2 DEF Found
    <3> QED BY <1>2, <2>2, <3>1, RisingIsExact
  <2> QED BY <1>7, <2>1, <2>2
<1>8. ASSUME NEW b \in Reachable, b \in BeforeLoops \/ InOrder(b)
      PROVE  Lists(dominators[b], b)' /\ OutermostFirst(dominators[b])'
  <2>1. dominators'[b] = dominators[b]
    BY <1>1
  <2> QED BY <1>1, <1>7, <1>8, <2>1, ListsKept
<1>9. ExactInv'
  BY <1>4, <1>8 DEF ExactInv
<1> QED BY <1>1, <1>3, <1>9 DEF DInv, DominateInv

\* Steps that change nothing that is said here.
LEMMA QuietDominators ==
  ASSUME DInv, pc' = pc, UNCHANGED <<blocks, conns, preds, visited, dominators, at, changed>>
         \/ (pc = "frontiers" /\ UNCHANGED <<blocks, conns, preds, visited, dominators>>)
         \/ (pc = "connect" /\ UNCHANGED <<blocks, conns, preds, visited>>)
  PROVE  DInv'
<1>1. GraphInv'
  <2>1. CASE pc \in {"connect", "dominate", "frontiers"}
    BY <2>1, GraphKept
  <2>2. CASE pc \notin {"connect", "dominate", "frontiers"}
    BY <2>2 DEF GraphInv
  <2> QED BY <2>1, <2>2
<1>2. /\ Blocks' = Blocks /\ Reachable' = Reachable /\ BeforeLoops' = BeforeLoops
      /\ \A b : (InOrder(b)' <=> InOrder(b))
  BY GraphStable
<1>3. DominateInv'
  <2> SUFFICES ASSUME pc = "dominate" PROVE DominateInv'
    BY DEF DominateInv
  <2>1. UNCHANGED <<blocks, conns, preds, dominators, at, changed>>
    OBVIOUS
  <2>2. \A b : NewDominators(b)' = NewDominators(b)
    <3> SUFFICES ASSUME NEW b PROVE NewDominators(b)' = NewDominators(b)
      OBVIOUS
    <3>1. Met(b)' = Met(b)
      BY <2>1 DEF Met
    <3>2. preds'[b] = preds[b]
      BY <2>1
    <3> QED BY <3>1, <3>2 DEF NewDominators
  <2>3. ASSUME NEW b PROVE Found(b)' <=> Found(b)
    <3>1. dominators'[b] = dominators[b]
      BY <2>1
    <3>2. /\ Lists(dominators[b], b)' <=> Lists(dominators[b], b)
          /\ Rising(dominators[b])' <=> Rising(dominators[b])
      BY <2>1, <3>1, ListsKept
    <3> QED BY <1>2, <2>1, <3>2 DEF Found
  <2> QED BY <1>2, <2>1, <2>2, <2>3 DEF DInv, DominateInv
<1>4. ExactInv'
  <2> SUFFICES ASSUME pc = "frontiers" PROVE ExactInv'
    BY DEF ExactInv
  <2>1. UNCHANGED <<blocks, conns, preds, dominators>>
    OBVIOUS
  <2>2. ASSUME NEW b \in Reachable, b \in BeforeLoops \/ InOrder(b)
        PROVE  Lists(dominators[b], b)' /\ OutermostFirst(dominators[b])'
    <3>1. dominators'[b] = dominators[b]
      BY <2>1
    <3>2. Lists(dominators[b], b) /\ OutermostFirst(dominators[b])
      BY <2>2 DEF DInv, ExactInv
    <3> QED BY <2>1, <3>1, <3>2, ListsKept
  <2> QED BY <1>2, <2>2 DEF ExactInv
<1> QED BY <1>1, <1>3, <1>4 DEF DInv

LEMMA GetBlocksGraph ==
  ASSUME IInv, GetBlocks
  PROVE  DInv'
<1>1. /\ fn \in Functions /\ code = fn.code /\ code' = code /\ pc' = "connect" /\ pc = "blocks"
      /\ visited' = {1}
  BY DEF IInv, CodeInv, GetBlocks
<1>2. 1 \in Blocks' /\ Blocks' = DOMAIN Starts
  BY <1>1, StartsCut DEF GetBlocks
<1>3. conns' = [b \in Blocks' |-> <<>>] /\ preds' = [b \in Blocks' |-> <<>>]
  BY <1>2 DEF GetBlocks
<1>4. conns' \in [Blocks' -> Seq(Blocks')] /\ \A b \in Blocks' : Succ(b)' = {} /\ Pred(b)' = {}
  BY <1>3 DEF Succ, Pred, Seqs!ToSet
<1>5. GraphInv'
  BY <1>1, <1>2, <1>4 DEF GraphInv
<1> QED BY <1>1, <1>5 DEF DInv, DominateInv, ExactInv

\* A connection is an edge from a block that the entry leads to.
LEMMA ConnectGraph ==
  ASSUME IInv, DInv, Connect
  PROVE  DInv'
<1> DEFINE n == Len(stack)
           b == Top.block
           s == Successors(b)[Top.next]
<1>1. /\ fn \in Functions /\ code = fn.code /\ Partition /\ CutAtStarts
      /\ preds \in [Blocks -> Seq(Blocks)] /\ stack \in Seq(Connecting) /\ visited \subseteq Blocks
      /\ \A k \in DOMAIN stack : stack[k].block \in visited
  BY DEF Connect, IInv, CodeInv, CutInv, ConnectInv, Cut
<1>2. /\ pc = "connect" /\ pc' = "connect" /\ stack # <<>> /\ Top.next <= Len(Successors(b))
      /\ blocks' = blocks
      /\ conns' = [conns EXCEPT ![b] = Append(@, s)]
      /\ preds' = [preds EXCEPT ![s] = Append(@, b)] /\ visited' = visited \cup {s}
  BY DEF Connect
<1>3. n \in Nat /\ n >= 1 /\ DOMAIN stack = 1..n /\ Top \in Connecting
  <2> HIDE DEF Connecting
  <2> QED BY <1>1, <1>2, FrontFacts DEF Top
<1>4. b \in Blocks /\ Top.next \in Nat \ {0}
  BY <1>3 DEF Connecting
<1>5. s \in Blocks
  <2>1. Len(Successors(b)) \in Nat
    BY <1>1, <1>4, SuccessorFacts
  <2>2. Top.next \in 1..Len(Successors(b))
    BY <1>2, <1>4, <2>1
  <2> QED BY <1>1, <1>4, <2>2, SuccessorFacts
<1>6. b \in visited
  <2>1. n \in DOMAIN stack /\ stack[n] = Top
    BY <1>3 DEF Top
  <2> QED BY <1>1, <2>1
<1> HIDE DEF s, b
<1>7. /\ 1 \in Blocks /\ conns \in [Blocks -> Seq(Blocks)]
      /\ \A c, d \in Blocks : d \in Succ(c) <=> c \in Pred(d)
      /\ \A c \in Blocks : Succ(c) # {} => c \in visited
      /\ \A P \in SUBSET Blocks : 1 \in P /\ (\A c \in P : Succ(c) \subseteq P) => visited \subseteq P
  BY <1>2 DEF DInv, GraphInv
<1>8. Blocks' = Blocks
  BY <1>2 DEF Blocks
<1>9. ASSUME NEW v \in Seq(Blocks), NEW x \in Blocks
      PROVE  Append(v, x) \in Seq(Blocks) /\ Seqs!ToSet(Append(v, x)) = Seqs!ToSet(v) \cup {x}
  <2>1. /\ Append(v, x) \in Seq(Blocks) /\ Len(v) \in Nat /\ DOMAIN v = 1..Len(v)
        /\ DOMAIN Append(v, x) = 1..(Len(v) + 1)
        /\ \A k \in 1..(Len(v) + 1) : Append(v, x)[k] = IF k = Len(v) + 1 THEN x ELSE v[k]
    BY AppendFacts
  <2>2. /\ \A k \in 1..(Len(v) + 1) : k = Len(v) + 1 \/ k \in 1..Len(v)
        /\ \A k \in 1..Len(v) : k \in 1..(Len(v) + 1) /\ k # Len(v) + 1
        /\ Len(v) + 1 \in 1..(Len(v) + 1)
    BY <2>1
  <2> QED BY <2>1, <2>2 DEF Seqs!ToSet
<1>10. /\ conns' \in [Blocks -> Seq(Blocks)]
       /\ \A c \in Blocks : conns'[c] = IF c = b THEN Append(conns[b], s) ELSE conns[c]
       /\ \A c \in Blocks : preds'[c] = IF c = s THEN Append(preds[s], b) ELSE preds[c]
  BY <1>1, <1>2, <1>4, <1>5, <1>7, <1>9
<1>11. /\ \A c \in Blocks : Succ(c)' = IF c = b THEN Succ(b) \cup {s} ELSE Succ(c)
       /\ \A c \in Blocks : Pred(c)' = IF c = s THEN Pred(s) \cup {b} ELSE Pred(c)
  <2>1. Seqs!ToSet(Append(conns[b], s)) = Seqs!ToSet(conns[b]) \cup {s}
    BY <1>4, <1>5, <1>7, <1>9
  <2>2. Seqs!ToSet(Append(preds[s], b)) = Seqs!ToSet(preds[s]) \cup {b}
    BY <1>1, <1>4, <1>5, <1>9
  <2> QED BY <1>10, <2>1, <2>2 DEF Succ, Pred
<1>12. \A c, d \in Blocks : d \in Succ(c)' <=> c \in Pred(d)'
  <2> SUFFICES ASSUME NEW c \in Blocks, NEW d \in Blocks PROVE d \in Succ(c)' <=> c \in Pred(d)'
    OBVIOUS
  <2>1. d \in Succ(c)' <=> d \in Succ(c) \/ (c = b /\ d = s)
    <3>1. Succ(c)' = IF c = b THEN Succ(b) \cup {s} ELSE Succ(c)
      BY <1>11
    <3> QED BY <3>1
  <2>2. c \in Pred(d)' <=> c \in Pred(d) \/ (c = b /\ d = s)
    <3>1. Pred(d)' = IF d = s THEN Pred(s) \cup {b} ELSE Pred(d)
      BY <1>11
    <3> QED BY <3>1
  <2>3. d \in Succ(c) <=> c \in Pred(d)
    BY <1>7
  <2> QED BY <2>1, <2>2, <2>3
<1>13. \A c \in Blocks : Succ(c)' # {} => c \in visited'
  BY <1>2, <1>6, <1>7, <1>11
<1>14. ASSUME NEW P \in SUBSET Blocks, 1 \in P, \A c \in P : Succ(c)' \subseteq P
       PROVE  visited' \subseteq P
  <2>1. \A c \in P : Succ(c) \subseteq P
    BY <1>11, <1>14
  <2>2. visited \subseteq P
    BY <1>7, <1>14, <2>1
  <2>3. s \in P
    BY <1>4, <1>6, <1>11, <1>14, <2>2
  <2> QED BY <1>2, <2>2, <2>3
<1>15. GraphInv'
  BY <1>7, <1>8, <1>10, <1>12, <1>13, <1>14 DEF GraphInv
<1> QED BY <1>2, <1>15 DEF DInv, DominateInv, ExactInv

LEMMA DInvNext ==
  ASSUME IInv, DInv, [Next]_vars
  PROVE  DInv'
<1>1. CASE UNCHANGED vars
  <2>1. pc' = pc /\ UNCHANGED <<blocks, conns, preds, visited, dominators, at, changed>>
    BY <1>1 DEF vars, graph, dominance
  <2> QED BY <2>1, QuietDominators
<1>2. CASE GetBlocks \/ Connect
  BY <1>2, GetBlocksGraph, ConnectGraph
<1>3. CASE Connected
  <2>1. pc = "connect" /\ pc' = pc /\ UNCHANGED <<blocks, conns, preds, visited>>
    BY <1>3 DEF Connected, graph
  <2> QED BY <2>1, QuietDominators
<1>4. CASE StartDominators \/ Dominate \/ DominateAgain \/ StartFrontiers
  BY <1>4, DominatorsStart, DominateStep, DominateTurn, DominateEnds
<1>5. CASE NextFrontier \/ StartRunner \/ Run
  <2>1. pc = "frontiers" /\ pc' = pc /\ UNCHANGED <<blocks, conns, preds, visited, dominators>>
    BY <1>5 DEF NextFrontier, StartRunner, Run, graph
  <2> QED BY <2>1, QuietDominators
<1>6. CASE StartPhis \/ NextRegister \/ NextBlock \/ PlacePhi \/ StartRename
  <2>1. pc' \notin {"connect", "dominate", "frontiers"}
    BY <1>6 DEF StartPhis, NextRegister, NextBlock, PlacePhi, StartRename
  <2> QED BY <2>1 DEF DInv, GraphInv, DominateInv, ExactInv
<1>7. CASE RenameFirst \/ RenameInstruction \/ RenameOperands \/ RenameNext \/ RenameReturns \/ RenameCrashes \/ Built
  <2>1. pc' \notin {"connect", "dominate", "frontiers"}
    BY <1>7, Zenon DEF RenameFirst, RenameInstruction, RenameOperands, RenameNext, RenameReturns, RenameCrashes, Built
  <2> QED BY <2>1 DEF DInv, GraphInv, DominateInv, ExactInv
<1> QED BY <1>1, <1>2, <1>3, <1>4, <1>5, <1>6, <1>7 DEF Next

\* DominatorsSound by the names that the proofs use.
LEMMA ExactSound ==
  ASSUME IInv, DInv
  PROVE  DominatorsSound
<1> SUFFICES ASSUME pc = "frontiers" PROVE DominatorsSound
  BY DEF DominatorsSound
<1> DEFINE below == [d \in Blocks |-> Dominated(d)]
<1>1. Drawn /\ Reachable \in SUBSET Blocks
  BY GraphLinked
<1>2. ASSUME NEW b \in Reachable, Orderly(b, Reachable, below)
      PROVE  InOrder(b)
  <2> DEFINE upstream == {u \in Reachable : b \in LeadTo({u}, 0)}
  <2>1. upstream = Up(b)
    BY DEF Up
  <2> SUFFICES ASSUME NEW u \in upstream, NEW c \in Succ(u) \cap upstream
               PROVE  u < c \/ c \in Doms(u)
    BY <2>1 DEF InOrder
  <2>2. u < c \/ u \in below[c]
    BY <1>2 DEF Orderly, Succ
  <2>3. c \in Blocks
    BY <1>1
  <2> QED BY <2>2, <2>3 DEF Doms
<1>3. ASSUME NEW b \in Reachable, Lists(dominators[b], b), OutermostFirst(dominators[b])
      PROVE  Exact(b, below)
  <2>1. {d \in Blocks : b \in below[d]} = Doms(b)
    BY DEF Doms
  <2>2. Seqs!ToSet(dominators[b]) = {d \in Blocks : b \in below[d]}
    BY <1>3, <2>1 DEF Lists
  <2>3. ASSUME NEW i \in DOMAIN dominators[b], NEW j \in DOMAIN dominators[b], i < j
        PROVE  dominators[b][i] # dominators[b][j] /\ dominators[b][j] \in below[dominators[b][i]]
    <3>1. dominators[b][i] # dominators[b][j] /\ dominators[b][i] \in Doms(dominators[b][j])
      BY <1>3, <2>3 DEF OutermostFirst
    <3>2. dominators[b][i] \in Blocks
      BY <1>3, <2>3 DEF Lists
    <3> QED BY <3>1, <3>2 DEF Doms
  <2> QED BY <2>2, <2>3 DEF Exact
<1>4. \A b \in Reachable : b \in BeforeLoops \/ InOrder(b) => Lists(dominators[b], b) /\ OutermostFirst(dominators[b])
  BY DEF DInv, ExactInv
<1> HIDE DEF below
<1>5. \A b \in Reachable : b \in BeforeLoops \/ Orderly(b, Reachable, below) => Exact(b, below)
  BY <1>2, <1>3, <1>4
<1> QED BY <1>5 DEF DominatorsSound, below

(***************************************************************************)
(* The dominators of a block are what the iteration finds, outermost first *)
(* and each once, for a block before any loop, and for one whose blocks    *)
(* upstream come in order, loops or not (builder.cpp:719-753).             *)
(***************************************************************************)
THEOREM DominatorsAreSound == Spec => []DominatorsSound
<1>1. Init => DInv
  BY DEF Init, DInv, GraphInv, DominateInv, ExactInv
<1>2. IInv /\ DInv /\ [Next]_vars => DInv'
  BY DInvNext
<1>3. IInv /\ DInv => DominatorsSound
  BY ExactSound
<1> QED BY <1>1, <1>2, <1>3, Invariance, PTL DEF Spec
=============================================================================
