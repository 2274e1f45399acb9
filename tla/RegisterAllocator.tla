------------------------- MODULE RegisterAllocator -------------------------
(***************************************************************************)
(* RegisterAllocator::build of src/src/codegen/x86-64/register-allocator:  *)
(* graph colouring, one basic block after the other.  A block enters with  *)
(* the live ranges the liveness propagator computed; its nodes are pushed  *)
(* on a stack while their degree is below the number of registers          *)
(* (otherwise the node of the greatest degree is spilled), and popped to   *)
(* be coloured.  What earlier blocks decided is kept in registers.         *)
(*                                                                         *)
(* The vector `graph' is the set of its nodes with the rank the sort gave  *)
(* them: removal keeps the relative order, and only "the first node such   *)
(* that" is ever asked of it.                                              *)
(***************************************************************************)
EXTENDS Naturals, Sequences, FiniteSets

CONSTANTS
  Ids,                 \* names of the virtual registers of a function
  Precision,           \* those of type Single or Double
  Registers,           \* the vector of general registers, in order
  PrecisionRegisters,  \* the vector of xmm registers, in order
  MaxParamReg,         \* how many general registers carry parameters
  MaxParamPReg,        \* how many xmm registers carry parameters
  Count,               \* RegisterGroup::Count, "no register"
  Functions            \* the functions that may be compiled

Distinct(s) == \A i, j \in DOMAIN s : s[i] = s[j] => i = j

ASSUME IdsAssumption == IsFiniteSet(Ids) /\ Precision \subseteq Ids

\* register_allocator.cpp:15 throws when a vector has fewer than two.
ASSUME RegistersAssumption ==
  /\ Registers \in Seq(STRING) /\ Len(Registers) >= 2 /\ Distinct(Registers)
  /\ PrecisionRegisters \in Seq(STRING) /\ Len(PrecisionRegisters) >= 2
  /\ Distinct(PrecisionRegisters)
  /\ Count \notin STRING

ASSUME ParamAssumption == MaxParamReg \in Nat /\ MaxParamPReg \in Nat

(***************************************************************************)
(* A block of a function: the ids of m_rangeVector in the order of their   *)
(* first range, the ranges of each, and the ids that must live in memory   *)
(* (pointed or dereferenced, Struct, Pointer, or of scale > 1).            *)
(***************************************************************************)
Interval == Nat \X Nat
BlockType == [vector : Seq(Ids), ranges : [Ids -> SUBSET Interval], memory : SUBSET Ids]
FunctionType == [args : Seq(Ids), blocks : Seq(BlockType)]

ASSUME FunctionsAssumption ==
  \A f \in Functions :
    /\ f \in FunctionType
    /\ Distinct(f.args)
    /\ \A b \in DOMAIN f.blocks : Distinct(f.blocks[b].vector)

VARIABLES
  fn,         \* the function being compiled
  blk,        \* index of the block being coloured
  phase,      \* "enter", "simplify", "select" or "done"
  graph,      \* the nodes in the vector graph
  rank,       \* position the sort gave to each node
  conn,       \* m_connections of each node
  tag,        \* m_tag of each node
  stack,      \* the vector stack
  spills,     \* the vector spills
  registers,  \* result: m_registers, a partial function
  spilled     \* result: m_spills

vars == <<fn, blk, phase, graph, rank, conn, tag, stack, spills, registers, spilled>>

-----------------------------------------------------------------------------
\* The last register of each vector is taken away for the code generator.
Available(n) ==
  LET all == IF n \in Precision THEN PrecisionRegisters ELSE Registers
  IN  SubSeq(all, 1, Len(all) - 1)

Tags(n) == {Available(n)[i] : i \in DOMAIN Available(n)}

Block == fn.blocks[blk]
Visited == {Block.vector[i] : i \in DOMAIN Block.vector}
Position(n) == CHOOSE i \in DOMAIN Block.vector : Block.vector[i] = n

(***************************************************************************)
(* Parameters take the first registers of their class, in the order of     *)
(* function.m_args, counting only those the block mentions.                *)
(***************************************************************************)
SameClass(n, m) == n \in Precision <=> m \in Precision
ParamLimit(n) == IF n \in Precision THEN MaxParamPReg ELSE MaxParamReg
IsParam(n) == n \in Visited /\ \E i \in DOMAIN fn.args : fn.args[i] = n

ParamIndex(n) ==
  LET me == CHOOSE i \in DOMAIN fn.args : fn.args[i] = n
  IN  Cardinality({i \in DOMAIN fn.args :
        i < me /\ fn.args[i] \in Visited /\ SameClass(fn.args[i], n)})

InRegister(n) ==
  IsParam(n) /\ ParamIndex(n) < ParamLimit(n) /\ ParamIndex(n) < Len(Available(n))
OnStack(n) == IsParam(n) /\ ~InRegister(n)

PreTag_ParamsOnly(n) == IF InRegister(n) THEN Available(n)[ParamIndex(n) + 1] ELSE Count

\* The tag a node has before colouring: what an earlier block gave it wins.
PreTag(n) ==
  IF n \in DOMAIN registers THEN registers[n]
  ELSE IF InRegister(n) THEN Available(n)[ParamIndex(n) + 1]
  ELSE Count

PreSpilled(n) ==
  n \notin DOMAIN registers /\ (OnStack(n) \/ (n \in Block.memory /\ ~InRegister(n)))

Nodes == {n \in Visited : ~PreSpilled(n)}
Untagged(n) == PreTag(n) = Count

(***************************************************************************)
(* getOverlaps: m is a connection of n when an end of a range of n falls   *)
(* in a range of m.  It is not symmetric: a range of n that strictly       *)
(* contains that of m is not seen from n.  Ids spilled earlier in the scan *)
(* have left m_ranges, those spilled later are still there.                *)
(***************************************************************************)
EndWithin(my, cmp) ==
  \/ cmp[1] <= my[1] /\ my[1] <= cmp[2]
  \/ cmp[1] <= my[2] /\ my[2] <= cmp[2]

Overlaps(n) ==
  {m \in Visited \ {n} :
     /\ PreSpilled(m) => Position(m) > Position(n)
     /\ m \in Precision => n \in Precision
     /\ \E my \in Block.ranges[n], cmp \in Block.ranges[m] : EndWithin(my, cmp)}

Before_TaggedFirst(n, m, overlaps) ==
  IF Untagged(n) # Untagged(m) THEN Untagged(m)
  ELSE Cardinality(overlaps[n]) > Cardinality(overlaps[m])

\* The comparator of the sort: nodes without a tag first, then by degree.
Before(n, m, overlaps) ==
  IF Untagged(n) # Untagged(m) THEN Untagged(n)
  ELSE Cardinality(overlaps[n]) > Cardinality(overlaps[m])

Orders(nodes, overlaps) ==
  LET before == {p \in nodes \X nodes : Before(p[1], p[2], overlaps)}
  IN  {r \in [nodes -> 1..Cardinality(nodes)] :
         /\ \A n, m \in nodes : r[n] = r[m] => n = m
         /\ \A p \in before : r[p[1]] < r[p[2]]}

Degree(n) == Cardinality(conn[n])
LowDegree_OffByOne(n) == Degree(n) <= Len(Available(n))
LowDegree(n) == Degree(n) < Len(Available(n))

-----------------------------------------------------------------------------
Init ==
  /\ fn \in Functions
  /\ blk = 1
  /\ phase = "enter"
  /\ graph = {} /\ spills = {} /\ spilled = {}
  /\ rank = [n \in Ids |-> 0]
  /\ conn = [n \in Ids |-> {}]
  /\ tag = [n \in Ids |-> Count]
  /\ stack = <<>>
  /\ registers = [n \in {} |-> Count]

(***************************************************************************)
(* Lines 25-104: assign parameters, make the nodes, sort the graph.  Nodes *)
(* the comparator does not order come out of std::sort in any order.       *)
(***************************************************************************)
EnterBlock ==
  /\ phase = "enter" /\ blk <= Len(fn.blocks)
  /\ phase' = "simplify"
  /\ graph' = Nodes
  /\ conn' = [n \in Ids |-> IF n \in graph' THEN Overlaps(n) ELSE {}]
  /\ tag' = [n \in Ids |-> IF n \in Nodes THEN PreTag(n) ELSE Count]
  /\ \E r \in Orders(Nodes, conn') :
       rank' = [n \in Ids |-> IF n \in Nodes THEN r[n] ELSE 0]
  /\ stack' = <<>>
  /\ spills' = Visited \ Nodes
  /\ UNCHANGED <<fn, blk, registers, spilled>>

\* removeFromGraph
Remove_KeepsNode(n) ==
  /\ graph' = graph
  /\ conn' = [m \in Ids |-> IF m \in graph \ {n} THEN conn[m] \ {n} ELSE conn[m]]
Remove(n) ==
  /\ graph' = graph \ {n}
  /\ conn' = [m \in Ids |-> IF m \in graph \ {n} THEN conn[m] \ {n} ELSE conn[m]]

\* Lines 108-115: push the first node whose degree is low enough.
Push(n) ==
  /\ phase = "simplify" /\ n \in graph
  /\ LowDegree(n)
  /\ \A m \in graph : LowDegree(m) => rank[n] <= rank[m]
  /\ stack' = Append(stack, n)
  /\ Remove(n)
  /\ UNCHANGED <<fn, blk, phase, rank, tag, spills, registers, spilled>>

\* getMostRelevantNode: the first node of greatest degree.
MostRelevant_AboveLimit(n) ==
  /\ Degree(n) > Len(Available(n))
  /\ \A m \in graph : Degree(m) < Degree(n) \/ (Degree(m) = Degree(n) /\ rank[n] <= rank[m])
MostRelevant(n) ==
  \A m \in graph : Degree(m) < Degree(n) \/ (Degree(m) = Degree(n) /\ rank[n] <= rank[m])

\* Lines 117-121: when there is none, spill the first of greatest degree.
Spill(n) ==
  /\ phase = "simplify" /\ n \in graph
  /\ \A m \in graph : ~LowDegree(m)
  /\ MostRelevant(n)
  /\ spills' = spills \cup {n}
  /\ Remove(n)
  /\ UNCHANGED <<fn, blk, phase, rank, tag, stack, registers, spilled>>

StartSelect ==
  /\ phase = "simplify" /\ graph = {}
  /\ phase' = "select"
  /\ UNCHANGED <<fn, blk, graph, rank, conn, tag, stack, spills, registers, spilled>>

\* tryTag accepts a register when no connection in the graph has it.
Free_FirstUnchecked(n, i) == i = 1 \/ \A m \in conn[n] \cap graph : tag[m] # Available(n)[i]
Free(n, i) == \A m \in conn[n] \cap graph : tag[m] # Available(n)[i]

FirstFree(n, i) == Free(n, i) /\ \A j \in 1..(i - 1) : ~Free(n, j)

Pop(n) ==
  /\ phase = "select" /\ stack # <<>>
  /\ n = stack[Len(stack)]
  /\ graph' = graph \cup {n}
  /\ stack' = SubSeq(stack, 1, Len(stack) - 1)
  /\ UNCHANGED <<fn, blk, phase, rank, conn, spills, registers, spilled>>

\* Lines 128-131 and 133-149: a node with a tag keeps it, unchecked, and so
\* does (without one) a node for which no register is free.
KeepTag(n) ==
  /\ Pop(n)
  /\ tag[n] # Count \/ \A i \in DOMAIN Available(n) : ~Free(n, i)
  /\ UNCHANGED tag

\* Lines 133-161: any other node takes the first free register of its class.
TakeTag(n, i) ==
  /\ Pop(n)
  /\ tag[n] = Count /\ FirstFree(n, i)
  /\ tag' = [tag EXCEPT ![n] = Available(n)[i]]

NextBlock_Down == blk' = blk - 1 /\ phase' = IF blk = 1 THEN "done" ELSE "enter"
NextBlock == blk' = blk + 1 /\ phase' = IF blk = Len(fn.blocks) THEN "done" ELSE "enter"

\* Lines 164-168: unordered_map::insert keeps the entry that is there.
FinishBlock ==
  /\ phase = "select" /\ stack = <<>>
  /\ registers' = [n \in DOMAIN registers \cup graph |->
                     IF n \in DOMAIN registers THEN registers[n] ELSE tag[n]]
  /\ spilled' = spilled \cup spills
  /\ graph' = {}
  /\ spills' = {}
  /\ NextBlock
  /\ UNCHANGED <<fn, rank, conn, tag, stack>>

\* The loop over the blocks has ended and build has returned.
Return == phase = "done" /\ UNCHANGED vars

Next ==
  \/ EnterBlock
  \/ \E n \in Ids : Push(n)
  \/ \E n \in Ids : Spill(n)
  \/ StartSelect
  \/ \E n \in Ids : KeepTag(n)
  \/ \E n \in Ids : \E i \in DOMAIN Available(n) : TakeTag(n, i)
  \/ FinishBlock
  \/ Return

Spec == Init /\ [][Next]_vars
FairSpec == Spec /\ WF_vars(Next)

-----------------------------------------------------------------------------
AllTags == {Registers[i] : i \in DOMAIN Registers}
             \cup {PrecisionRegisters[i] : i \in DOMAIN PrecisionRegisters}

\* Every variable has its type (register_allocator.cpp:22-30).
TypeOK ==
  /\ fn \in Functions
  /\ blk \in Nat \ {0}
  /\ phase \in {"enter", "simplify", "select", "done"}
  /\ graph \subseteq Ids /\ spills \subseteq Ids /\ spilled \subseteq Ids
  /\ rank \in [Ids -> Nat]
  /\ conn \in [Ids -> SUBSET Ids]
  /\ tag \in [Ids -> AllTags \cup {Count}]
  /\ stack \in Seq(Ids)
  /\ DOMAIN registers \subseteq Ids
  /\ registers \in [DOMAIN registers -> AllTags \cup {Count}]

Stacked == {stack[i] : i \in DOMAIN stack}

(***************************************************************************)
(* Two ranges that were free to choose, and each of which sees the other   *)
(* in its overlaps, never get the same register, whatever was spilled or   *)
(* precoloured around them (register_allocator.cpp:106-162).               *)
(***************************************************************************)
MutualOverlap(n, m) == n \in Overlaps(m) /\ m \in Overlaps(n)
MutualOverlapsDiffer ==
  phase = "select" =>
    \A n, m \in graph :
      tag[n] = tag[m] => ~(Untagged(n) /\ Untagged(m) /\ MutualOverlap(n, m))

(***************************************************************************)
(* A node that was pushed always finds a free register when it is popped:  *)
(* no node leaves the select loop with the tag Count, which code_generator *)
(* .cpp:102 would look up (register_allocator.cpp:109, 133-149).           *)
(***************************************************************************)
PushedGetsRegister ==
  phase = "select" => \A n \in graph : tag[n] # Count

(***************************************************************************)
(* No live range is lost or counted twice while a block is coloured: each  *)
(* id the block mentions is in the graph, on the stack or spilled, and in  *)
(* exactly one of them (register_allocator.cpp:73-122).                    *)
(***************************************************************************)
EachRangeOnce ==
  phase \in {"simplify", "select"} =>
    /\ Visited = graph \cup Stacked \cup spills
    /\ graph \cap Stacked = {} /\ graph \cap spills = {} /\ Stacked \cap spills = {}
    /\ Distinct(stack)

(***************************************************************************)
(* A range keeps one register in every block: a colour a block works with  *)
(* is the one an earlier block recorded (register_allocator.cpp:85-86).    *)
(***************************************************************************)
OneRegisterPerRange ==
  phase = "select" =>
    \A n \in graph \cap DOMAIN registers : tag[n] = registers[n]

(***************************************************************************)
(* When every node of a block starts with a low degree, the order of the   *)
(* sort colours the precoloured ranges first: a range that was free to     *)
(* choose takes no register of a precoloured one it mutually overlaps      *)
(* (register_allocator.cpp:96-104 with 108-115).                           *)
(***************************************************************************)
Quiet == \A n \in Nodes : Cardinality(Overlaps(n)) < Len(Available(n))
QuietBlocksRespectPrecoloured ==
  phase = "select" =>
    \A n, m \in graph :
      tag[n] = tag[m] => ~(Untagged(n) /\ MutualOverlap(n, m) /\ Quiet)

(***************************************************************************)
(* The allocator comes to its end for every function: each turn of the     *)
(* two loops removes a node (register_allocator.cpp:106, 124).             *)
(***************************************************************************)
Terminates == <>(phase = "done")
=============================================================================
