---------------------- MODULE RegisterAllocator_proofs ----------------------
(***************************************************************************)
(* The colouring of a block, proved for every function and every number    *)
(* of registers: types, no range lost, every pushed node coloured, mutual  *)
(* overlaps in different registers, one register per range.                *)
(***************************************************************************)
EXTENDS RegisterAllocator, FiniteSetTheorems, TLAPS

\* Nodes popped from the stack after (above) position i.
Above(i) == {stack[j] : j \in (i + 1)..Len(stack)}

Colouring == phase \in {"simplify", "select"}

(***************************************************************************)
(* What a node on the stack remembers: its tag is still the one it came    *)
(* with, its degree was low, and its connections hold every overlap that   *)
(* will be coloured before it is.                                          *)
(***************************************************************************)
StackInv ==
  Colouring =>
    \A i \in DOMAIN stack, n \in Ids :
      stack[i] = n =>
        /\ tag[n] = PreTag(n)
        /\ LowDegree(n)
        /\ Overlaps(n) \cap (Above(i) \cup graph) \subseteq conn[n]

\* A node still in the graph sees every overlap that is still there.
GraphInv ==
  phase = "simplify" =>
    \A n \in graph :
      /\ tag[n] = PreTag(n)
      /\ Overlaps(n) \cap graph \subseteq conn[n]

\* A block being coloured is one of the function's blocks.
BlockInv == Colouring => blk \in DOMAIN fn.blocks

\* What a finished block recorded is a register.
ResultInv == \A n \in DOMAIN registers : registers[n] # Count

IInv ==
  /\ TypeOK
  /\ BlockInv
  /\ EachRangeOnce
  /\ StackInv
  /\ GraphInv
  /\ ResultInv
  /\ MutualOverlapsDiffer
  /\ PushedGetsRegister
  /\ OneRegisterPerRange

-----------------------------------------------------------------------------
\* A sequence without its last element is a sequence of the elements before it.
LEMMA DropLast ==
  ASSUME NEW s \in Seq(STRING), Len(s) >= 2, Distinct(s)
  PROVE  LET f == SubSeq(s, 1, Len(s) - 1)
         IN  /\ Len(f) = Len(s) - 1
             /\ DOMAIN f = 1..Len(f)
             /\ \A i \in DOMAIN f : i \in DOMAIN s /\ f[i] = s[i]
             /\ Distinct(f)
<1> DEFINE f == SubSeq(s, 1, Len(s) - 1)
<1>1. Len(f) = Len(s) - 1 /\ DOMAIN f = 1..Len(f)
  OBVIOUS
<1>2. \A i \in DOMAIN f : i \in DOMAIN s /\ f[i] = s[i]
  BY <1>1
<1>3. Distinct(f)
  BY <1>2 DEF Distinct
<1> QED BY <1>1, <1>2, <1>3

\* The registers of a class that a node may take: not empty, distinct, and tags.
LEMMA AvailableType ==
  ASSUME NEW n
  PROVE  /\ Len(Available(n)) \in Nat
         /\ DOMAIN Available(n) = 1..Len(Available(n))
         /\ \A i \in DOMAIN Available(n) : Available(n)[i] \in AllTags
         /\ Distinct(Available(n))
<1>1. CASE n \in Precision
  <2>1. Available(n) = SubSeq(PrecisionRegisters, 1, Len(PrecisionRegisters) - 1)
    BY <1>1 DEF Available
  <2>2. Len(PrecisionRegisters) - 1 \in Nat
    BY RegistersAssumption
  <2> QED BY <2>1, <2>2, DropLast, RegistersAssumption DEF AllTags
<1>2. CASE n \notin Precision
  <2>1. Available(n) = SubSeq(Registers, 1, Len(Registers) - 1)
    BY <1>2 DEF Available
  <2>2. Len(Registers) - 1 \in Nat
    BY RegistersAssumption
  <2> QED BY <2>1, <2>2, DropLast, RegistersAssumption DEF AllTags
<1> QED BY <1>1, <1>2

\* RegisterGroup::Count is none of the registers.
LEMMA CountIsNoTag == Count \notin AllTags
BY RegistersAssumption DEF AllTags

-----------------------------------------------------------------------------
\* The nodes of a block, their overlaps and their tags before colouring.
LEMMA VisitedType ==
  ASSUME TypeOK, blk \in DOMAIN fn.blocks
  PROVE  /\ Visited \subseteq Ids
         /\ IsFiniteSet(Visited)
         /\ Nodes \subseteq Visited
         /\ \A n : Overlaps(n) \subseteq Visited \ {n}
<1>1. fn \in FunctionType
  BY FunctionsAssumption DEF TypeOK
<1>2. Block.vector \in Seq(Ids)
  <2>1. fn.blocks \in Seq(BlockType)
    BY <1>1 DEF FunctionType
  <2>2. Block \in BlockType
    BY <2>1 DEF Block
  <2> QED BY <2>2 DEF BlockType
<1>3. Visited \subseteq Ids
  BY <1>2 DEF Visited
<1>4. IsFiniteSet(Visited)
  BY <1>3, FS_Subset, IdsAssumption
<1> QED BY <1>3, <1>4 DEF Nodes, Overlaps

\* The index of a parameter among those of its class is a natural number.
LEMMA ParamIndexType ==
  ASSUME TypeOK, NEW n \in Ids
  PROVE  ParamIndex(n) \in Nat
<1> DEFINE me == CHOOSE i \in DOMAIN fn.args : fn.args[i] = n
           earlier == {i \in DOMAIN fn.args :
                         i < me /\ fn.args[i] \in Visited /\ SameClass(fn.args[i], n)}
<1>1. fn.args \in Seq(Ids)
  BY FunctionsAssumption DEF TypeOK, FunctionType
<1>2. DOMAIN fn.args = 1..Len(fn.args) /\ Len(fn.args) \in Nat
  BY <1>1
<1>3. IsFiniteSet(1..Len(fn.args))
  <2>1. 1 \in Int /\ Len(fn.args) \in Int
    BY <1>2
  <2> QED BY <2>1, FS_Interval
<1>4. earlier \in SUBSET (1..Len(fn.args))
  BY <1>2
<1>5. IsFiniteSet(earlier)
  BY <1>3, <1>4, FS_Subset
<1>6. Cardinality(earlier) \in Nat
  BY <1>5, FS_CardinalityType
<1> QED BY <1>6 DEF ParamIndex

\* The tag a node has before colouring is a register or Count.
LEMMA PreTagType ==
  ASSUME TypeOK, NEW n \in Ids
  PROVE  PreTag(n) \in AllTags \cup {Count}
<1>1. CASE n \in DOMAIN registers
  BY <1>1 DEF PreTag, TypeOK
<1>2. CASE n \notin DOMAIN registers /\ InRegister(n)
  <2>1. ParamIndex(n) \in Nat /\ ParamIndex(n) < Len(Available(n))
    BY <1>2, ParamIndexType DEF InRegister
  <2>2. ParamIndex(n) + 1 \in DOMAIN Available(n)
    BY <2>1, AvailableType
  <2> QED BY <1>2, <2>2, AvailableType DEF PreTag
<1>3. CASE n \notin DOMAIN registers /\ ~InRegister(n)
  BY <1>3 DEF PreTag
<1> QED BY <1>1, <1>2, <1>3

\* Within a block nothing that the nodes were made from changes.
LEMMA BlockStable ==
  ASSUME UNCHANGED <<fn, blk, registers>>
  PROVE  /\ Visited' = Visited
         /\ \A n : Overlaps(n)' = Overlaps(n)
         /\ \A n : PreTag(n)' = PreTag(n)
BY DEF Visited, Block, Overlaps, PreTag, PreSpilled, Position, OnStack, InRegister,
       IsParam, ParamIndex, ParamLimit, SameClass, Available

-----------------------------------------------------------------------------
\* Pigeonhole: a node of low degree leaves one of its registers free.
LEMMA LowDegreeHasFree ==
  ASSUME TypeOK, NEW n \in Ids, LowDegree(n)
  PROVE  \E i \in DOMAIN Available(n) : Free(n, i)
<1> DEFINE A == Available(n)
           near == conn[n] \cap graph
           f == [i \in DOMAIN A |-> CHOOSE m \in near : tag[m] = A[i]]
<1> SUFFICES ASSUME \A i \in DOMAIN A : \E m \in near : tag[m] = A[i]
             PROVE  FALSE
  BY DEF Free
<1>1. IsFiniteSet(conn[n]) /\ IsFiniteSet(near)
      /\ Cardinality(near) <= Cardinality(conn[n])
      /\ Cardinality(near) \in Nat /\ Cardinality(conn[n]) \in Nat
  <2>1. IsFiniteSet(conn[n])
    BY FS_Subset, IdsAssumption DEF TypeOK
  <2>2. IsFiniteSet(near) /\ Cardinality(near) <= Cardinality(conn[n])
    BY <2>1, FS_Intersection
  <2> QED BY <2>1, <2>2, FS_CardinalityType
<1>2. IsFiniteSet(DOMAIN A) /\ Cardinality(DOMAIN A) = Len(A)
  <2>1. DOMAIN A = 1..Len(A) /\ Len(A) \in Nat
    BY AvailableType
  <2>2. PICK k \in Nat : k = Len(A)
    BY <2>1
  <2>3. 1 \in Int /\ k \in Int
    OBVIOUS
  <2>4. IsFiniteSet(1..k) /\ Cardinality(1..k) = IF 1 > k THEN 0 ELSE k - 1 + 1
    BY <2>3, FS_Interval
  <2> HIDE DEF A
  <2> QED BY <2>1, <2>2, <2>4
<1>3. Cardinality(near) < Cardinality(DOMAIN A)
  <2>1. Cardinality(conn[n]) < Len(A)
    BY DEF LowDegree, Degree
  <2>2. Len(A) \in Nat
    BY AvailableType
  <2> HIDE DEF A, near
  <2> QED BY <1>1, <1>2, <2>1, <2>2
<1>4. f \in [DOMAIN A -> near] /\ \A i \in DOMAIN A : tag[f[i]] = A[i]
  OBVIOUS
<1>5. PICK i, j \in DOMAIN A : i # j /\ f[i] = f[j]
  <2> HIDE DEF A, near, f
  <2> QED BY <1>1, <1>2, <1>3, <1>4, FS_PigeonHole
<1>6. A[i] = A[j]
  BY <1>4, <1>5
<1>7. Distinct(A)
  BY AvailableType
<1> QED BY <1>5, <1>6, <1>7 DEF Distinct

-----------------------------------------------------------------------------
\* The result maps are empty when build starts.
LEMMA InitInv == Init => IInv
<1> SUFFICES ASSUME Init PROVE IInv
  OBVIOUS
<1>1. TypeOK
  BY DEF Init, TypeOK
<1>2. phase = "enter" /\ DOMAIN registers = {}
  BY DEF Init
<1> QED
  BY <1>1, <1>2 DEF IInv, BlockInv, EachRangeOnce, StackInv, GraphInv, ResultInv,
     MutualOverlapsDiffer, PushedGetsRegister, OneRegisterPerRange, Colouring

\* Making the nodes of a block establishes the parts about its graph (lines 25-104).
LEMMA EnterBlockInv ==
  ASSUME IInv, EnterBlock
  PROVE  IInv'
<1>1. blk \in DOMAIN fn.blocks
  <2>1. fn \in FunctionType /\ blk \in Nat \ {0} /\ blk <= Len(fn.blocks)
    BY FunctionsAssumption DEF IInv, TypeOK, EnterBlock
  <2>2. fn.blocks \in Seq(BlockType)
    BY <2>1 DEF FunctionType
  <2> QED BY <2>1, <2>2
<1>2. TypeOK
  BY DEF IInv
<1>3. /\ Visited \subseteq Ids /\ Nodes \subseteq Visited
      /\ \A n : Overlaps(n) \subseteq Visited \ {n}
  BY <1>1, <1>2, VisitedType
<1>4. UNCHANGED <<fn, blk, registers>> /\ phase' = "simplify" /\ graph' = Nodes
      /\ stack' = <<>> /\ spills' = Visited \ Nodes /\ UNCHANGED spilled
  BY DEF EnterBlock
<1>5. conn' = [n \in Ids |-> IF n \in Nodes THEN Overlaps(n) ELSE {}]
  BY DEF EnterBlock
<1>6. tag' = [n \in Ids |-> IF n \in Nodes THEN PreTag(n) ELSE Count]
  BY DEF EnterBlock
<1>7. rank' \in [Ids -> Nat]
  <2>1. PICK r \in Orders(Nodes, conn') :
          rank' = [n \in Ids |-> IF n \in Nodes THEN r[n] ELSE 0]
    BY DEF EnterBlock
  <2>2. r \in [Nodes -> 1..Cardinality(Nodes)]
    BY DEF Orders
  <2>3. 1..Cardinality(Nodes) \subseteq Nat
    <3>1. IsFiniteSet(Nodes)
      BY <1>3, FS_Subset, IdsAssumption
    <3>2. Cardinality(Nodes) \in Nat
      BY <3>1, FS_CardinalityType
    <3> QED BY <3>2
  <2>4. \A n \in Nodes : r[n] \in Nat
    BY <2>2, <2>3
  <2> QED BY <2>1, <2>4
<1>8. TypeOK'
  <2>1. tag' \in [Ids -> AllTags \cup {Count}]
    BY <1>6, <1>2, PreTagType
  <2>2. conn' \in [Ids -> SUBSET Ids]
    BY <1>5, <1>3
  <2>3. stack' \in Seq(Ids)
    BY <1>4
  <2>4. graph' \subseteq Ids /\ spills' \subseteq Ids
    BY <1>3, <1>4
  <2> QED BY <1>2, <1>4, <1>7, <2>1, <2>2, <2>3, <2>4 DEF TypeOK
<1>9. /\ Visited' = Visited
      /\ \A n : Overlaps(n)' = Overlaps(n)
      /\ \A n : PreTag(n)' = PreTag(n)
  BY <1>4, BlockStable
<1>10. Stacked' = {} /\ DOMAIN stack' = {}
  BY <1>4 DEF Stacked
<1>11. EachRangeOnce'
  BY <1>3, <1>4, <1>9, <1>10 DEF EachRangeOnce, Distinct
<1>12. StackInv'
  BY <1>10 DEF StackInv
<1>13. GraphInv'
  BY <1>3, <1>4, <1>5, <1>6, <1>9 DEF GraphInv
<1>14. BlockInv' /\ ResultInv'
  BY <1>1, <1>4 DEF BlockInv, ResultInv, IInv
<1> QED
  BY <1>4, <1>8, <1>11, <1>12, <1>13, <1>14
     DEF IInv, MutualOverlapsDiffer, PushedGetsRegister, OneRegisterPerRange

\* removeFromGraph touches the connections of the nodes that stay.
LEMMA RemoveFacts ==
  ASSUME TypeOK, NEW n \in graph, Remove(n)
  PROVE  /\ graph' = graph \ {n} /\ graph' \subseteq Ids
         /\ conn' \in [Ids -> SUBSET Ids]
         /\ \A m \in Ids : m \notin graph' => conn'[m] = conn[m]
         /\ \A m \in graph' : conn'[m] = conn[m] \ {n}
BY DEF Remove, TypeOK

\* Pushing a node of low degree keeps the invariant (lines 108-115).
LEMMA PushInv ==
  ASSUME IInv, NEW n \in Ids, Push(n)
  PROVE  IInv'
<1> USE DEF Push
<1>1. TypeOK /\ n \in graph /\ phase = "simplify" /\ Colouring
  BY DEF IInv, Colouring
<1>2. UNCHANGED <<fn, blk, phase, rank, tag, spills, registers, spilled>>
  OBVIOUS
<1>3. /\ graph' = graph \ {n} /\ graph' \subseteq Ids
      /\ conn' \in [Ids -> SUBSET Ids]
      /\ \A m \in Ids : m \notin graph' => conn'[m] = conn[m]
      /\ \A m \in graph' : conn'[m] = conn[m] \ {n}
  BY <1>1, RemoveFacts
<1>4. /\ stack \in Seq(Ids) /\ stack' = Append(stack, n) /\ stack' \in Seq(Ids)
      /\ Len(stack') = Len(stack) + 1 /\ Len(stack) \in Nat
      /\ DOMAIN stack = 1..Len(stack) /\ DOMAIN stack' = 1..(Len(stack) + 1)
      /\ \A i \in DOMAIN stack : stack'[i] = stack[i]
      /\ stack'[Len(stack) + 1] = n
  BY <1>1 DEF TypeOK
<1>5. TypeOK'
  BY <1>1, <1>2, <1>3, <1>4 DEF TypeOK
<1>6. /\ Visited' = Visited
      /\ \A m : Overlaps(m)' = Overlaps(m)
      /\ \A m : PreTag(m)' = PreTag(m)
  BY <1>2, BlockStable
<1>7. Stacked' = Stacked \cup {n}
  BY <1>4 DEF Stacked
<1>8. EachRangeOnce /\ Distinct(stack) /\ n \notin Stacked
  BY <1>1 DEF IInv, EachRangeOnce
<1>9. EachRangeOnce'
  <2>1. Distinct(stack')
    BY <1>4, <1>8 DEF Distinct, Stacked
  <2> QED BY <1>1, <1>2, <1>3, <1>6, <1>7, <1>8, <2>1 DEF EachRangeOnce
<1>10. StackInv'
  <2> SUFFICES ASSUME NEW i \in DOMAIN stack', NEW m \in Ids, stack'[i] = m
               PROVE  /\ tag'[m] = PreTag(m)'
                      /\ LowDegree(m)'
                      /\ Overlaps(m)' \cap (Above(i)' \cup graph') \subseteq conn'[m]
    BY DEF StackInv
  <2>1. CASE i \in DOMAIN stack
    <3>1. m = stack[i] /\ m \in Stacked
      BY <1>4, <2>1 DEF Stacked
    <3>2. /\ tag[m] = PreTag(m)
          /\ LowDegree(m)
          /\ Overlaps(m) \cap (Above(i) \cup graph) \subseteq conn[m]
      BY <1>1, <2>1, <3>1 DEF IInv, StackInv
    <3>3. conn'[m] = conn[m]
      BY <1>1, <1>3, <1>8, <3>1 DEF EachRangeOnce
    <3>4. Above(i)' \cup graph' \subseteq Above(i) \cup graph
      BY <1>1, <1>3, <1>4, <2>1 DEF Above
    <3> QED BY <1>2, <1>6, <3>2, <3>3, <3>4 DEF LowDegree, Degree
  <2>2. CASE i = Len(stack) + 1
    <3>1. m = n /\ Above(i)' = {}
      BY <1>4, <2>2 DEF Above
    <3>2. conn'[n] = conn[n]
      BY <1>1, <1>3 DEF TypeOK
    <3>3. tag[n] = PreTag(n) /\ Overlaps(n) \cap graph \subseteq conn[n]
      BY <1>1 DEF IInv, GraphInv
    <3> QED BY <1>2, <1>3, <1>6, <3>1, <3>2, <3>3 DEF LowDegree, Degree
  <2> QED BY <1>4, <2>1, <2>2
<1>11. GraphInv'
  <2> SUFFICES ASSUME NEW m \in graph'
               PROVE  tag'[m] = PreTag(m)' /\ Overlaps(m)' \cap graph' \subseteq conn'[m]
    BY DEF GraphInv
  <2>1. m \in graph /\ tag[m] = PreTag(m) /\ Overlaps(m) \cap graph \subseteq conn[m]
    BY <1>1, <1>3 DEF IInv, GraphInv
  <2> QED BY <1>2, <1>3, <1>6, <2>1
<1>12. BlockInv' /\ ResultInv'
  BY <1>2 DEF IInv, BlockInv, ResultInv, Colouring
<1> QED
  BY <1>1, <1>2, <1>5, <1>9, <1>10, <1>11, <1>12
     DEF IInv, MutualOverlapsDiffer, PushedGetsRegister, OneRegisterPerRange

\* Spilling the most relevant node keeps the invariant (lines 117-121).
LEMMA SpillInv ==
  ASSUME IInv, NEW n \in Ids, Spill(n)
  PROVE  IInv'
<1> USE DEF Spill
<1>1. TypeOK /\ n \in graph /\ phase = "simplify" /\ Colouring
  BY DEF IInv, Colouring
<1>2. UNCHANGED <<fn, blk, phase, rank, tag, stack, registers, spilled>>
      /\ spills' = spills \cup {n}
  OBVIOUS
<1>3. /\ graph' = graph \ {n} /\ graph' \subseteq Ids
      /\ conn' \in [Ids -> SUBSET Ids]
      /\ \A m \in Ids : m \notin graph' => conn'[m] = conn[m]
      /\ \A m \in graph' : conn'[m] = conn[m] \ {n}
  BY <1>1, RemoveFacts
<1>4. TypeOK'
  BY <1>1, <1>2, <1>3 DEF TypeOK
<1>5. /\ Visited' = Visited
      /\ \A m : Overlaps(m)' = Overlaps(m)
      /\ \A m : PreTag(m)' = PreTag(m)
  BY <1>2, BlockStable
<1>6. Stacked' = Stacked
  BY <1>2 DEF Stacked
<1>7. EachRangeOnce
  BY DEF IInv
<1>8. EachRangeOnce'
  BY <1>1, <1>2, <1>3, <1>5, <1>6, <1>7 DEF EachRangeOnce
<1>9. StackInv'
  <2> SUFFICES ASSUME NEW i \in DOMAIN stack', NEW m \in Ids, stack'[i] = m
               PROVE  /\ tag'[m] = PreTag(m)'
                      /\ LowDegree(m)'
                      /\ Overlaps(m)' \cap (Above(i)' \cup graph') \subseteq conn'[m]
    BY DEF StackInv
  <2>1. m = stack[i] /\ i \in DOMAIN stack /\ m \in Stacked
    BY <1>2 DEF Stacked
  <2>2. /\ tag[m] = PreTag(m)
        /\ LowDegree(m)
        /\ Overlaps(m) \cap (Above(i) \cup graph) \subseteq conn[m]
    BY <1>1, <2>1 DEF IInv, StackInv
  <2>3. conn'[m] = conn[m]
    BY <1>1, <1>3, <1>7, <2>1 DEF EachRangeOnce
  <2>4. Above(i)' = Above(i)
    BY <1>2 DEF Above
  <2> QED BY <1>2, <1>3, <1>5, <2>2, <2>3, <2>4 DEF LowDegree, Degree
<1>10. GraphInv'
  <2> SUFFICES ASSUME NEW m \in graph'
               PROVE  tag'[m] = PreTag(m)' /\ Overlaps(m)' \cap graph' \subseteq conn'[m]
    BY DEF GraphInv
  <2>1. m \in graph /\ tag[m] = PreTag(m) /\ Overlaps(m) \cap graph \subseteq conn[m]
    BY <1>1, <1>3 DEF IInv, GraphInv
  <2> QED BY <1>2, <1>3, <1>5, <2>1
<1>11. BlockInv' /\ ResultInv'
  BY <1>2 DEF IInv, BlockInv, ResultInv, Colouring
<1> QED
  BY <1>1, <1>2, <1>4, <1>8, <1>9, <1>10, <1>11
     DEF IInv, MutualOverlapsDiffer, PushedGetsRegister, OneRegisterPerRange

\* The step from the first loop to the second keeps the invariant.
LEMMA StartSelectInv ==
  ASSUME IInv, StartSelect
  PROVE  IInv'
<1>1. /\ phase = "simplify" /\ phase' = "select" /\ graph = {} /\ graph' = {}
      /\ UNCHANGED <<fn, blk, graph, rank, conn, tag, stack, spills, registers, spilled>>
  BY DEF StartSelect
<1>2. /\ Visited' = Visited
      /\ \A m : Overlaps(m)' = Overlaps(m)
      /\ \A m : PreTag(m)' = PreTag(m)
  BY <1>1, BlockStable
<1>3. TypeOK' /\ BlockInv' /\ ResultInv'
  BY <1>1 DEF IInv, TypeOK, BlockInv, ResultInv, Colouring
<1>4. EachRangeOnce'
  BY <1>1, <1>2 DEF IInv, EachRangeOnce, Stacked
<1>5. StackInv'
  <2> SUFFICES ASSUME NEW i \in DOMAIN stack', NEW m \in Ids, stack'[i] = m
               PROVE  /\ tag'[m] = PreTag(m)'
                      /\ LowDegree(m)'
                      /\ Overlaps(m)' \cap (Above(i)' \cup graph') \subseteq conn'[m]
    BY DEF StackInv
  <2>1. /\ tag[m] = PreTag(m)
        /\ LowDegree(m)
        /\ Overlaps(m) \cap (Above(i) \cup graph) \subseteq conn[m]
    BY <1>1 DEF IInv, StackInv, Colouring
  <2> QED BY <1>1, <1>2, <2>1 DEF LowDegree, Degree, Above
<1> QED
  BY <1>1, <1>3, <1>4, <1>5
     DEF IInv, GraphInv, MutualOverlapsDiffer, PushedGetsRegister, OneRegisterPerRange

-----------------------------------------------------------------------------
\* What popping n does, whatever tag it ends with.
LEMMA PopFacts ==
  ASSUME IInv, NEW n \in Ids, Pop(n)
  PROVE  /\ TypeOK /\ phase = "select" /\ phase' = "select" /\ Colouring
         /\ graph' = graph \cup {n} /\ n \notin graph
         /\ UNCHANGED <<fn, blk, phase, rank, conn, spills, registers, spilled>>
         /\ stack' \in Seq(Ids) /\ Len(stack) \in DOMAIN stack /\ stack[Len(stack)] = n
         /\ DOMAIN stack' = DOMAIN stack \ {Len(stack)}
         /\ \A i \in DOMAIN stack' : stack'[i] = stack[i] /\ stack[i] # n
         /\ Visited' = Visited
         /\ \A m : Overlaps(m)' = Overlaps(m)
         /\ \A m : PreTag(m)' = PreTag(m)
         /\ BlockInv' /\ EachRangeOnce' /\ GraphInv' /\ ResultInv'
         /\ tag[n] = PreTag(n) /\ LowDegree(n) /\ Overlaps(n) \cap graph \subseteq conn[n]
         /\ \A i \in DOMAIN stack' : Above(i)' \cup graph' = Above(i) \cup graph
<1> USE DEF Pop
<1>1. TypeOK /\ phase = "select" /\ phase' = "select" /\ Colouring
  BY DEF IInv, Colouring
<1>2. UNCHANGED <<fn, blk, phase, rank, conn, spills, registers, spilled>>
      /\ graph' = graph \cup {n}
  OBVIOUS
<1>3. EachRangeOnce /\ Distinct(stack)
  BY <1>1 DEF IInv, EachRangeOnce
<1>4. /\ stack \in Seq(Ids) /\ Len(stack) \in Nat \ {0}
      /\ DOMAIN stack = 1..Len(stack)
  BY <1>1 DEF TypeOK
<1>5. /\ stack' \in Seq(Ids) /\ DOMAIN stack' = 1..(Len(stack) - 1)
      /\ \A i \in DOMAIN stack' : stack'[i] = stack[i]
  BY <1>4
<1>6. /\ Len(stack) \in DOMAIN stack /\ stack[Len(stack)] = n
      /\ DOMAIN stack' = DOMAIN stack \ {Len(stack)}
  BY <1>4, <1>5
<1>7. \A i \in DOMAIN stack' : stack[i] # n
  BY <1>3, <1>6 DEF Distinct
<1>8. n \in Stacked /\ n \notin graph
  BY <1>1, <1>3, <1>6 DEF Stacked, EachRangeOnce
<1>9. /\ Visited' = Visited
      /\ \A m : Overlaps(m)' = Overlaps(m)
      /\ \A m : PreTag(m)' = PreTag(m)
  BY <1>2, BlockStable
<1>10. Stacked' = Stacked \ {n}
  BY <1>5, <1>6, <1>7 DEF Stacked
<1>11. EachRangeOnce'
  <2>1. Distinct(stack')
    BY <1>3, <1>5, <1>6 DEF Distinct
  <2> QED BY <1>1, <1>2, <1>3, <1>8, <1>9, <1>10, <2>1 DEF EachRangeOnce
<1>12. BlockInv' /\ GraphInv' /\ ResultInv'
  BY <1>1, <1>2 DEF IInv, BlockInv, GraphInv, ResultInv, Colouring
<1>13. tag[n] = PreTag(n) /\ LowDegree(n) /\ Overlaps(n) \cap graph \subseteq conn[n]
  BY <1>1, <1>6 DEF IInv, StackInv
<1>14. \A i \in DOMAIN stack' : Above(i)' \cup graph' = Above(i) \cup graph
  <2> TAKE i \in DOMAIN stack'
  <2>1. Above(i) = Above(i)' \cup {n}
    BY <1>4, <1>5, <1>6 DEF Above
  <2> QED BY <1>2, <2>1
<1> QED
  BY <1>1, <1>2, <1>5, <1>6, <1>7, <1>8, <1>9, <1>11, <1>12, <1>13, <1>14

\* The nodes left on the stack are as they were.
LEMMA PopStackInv ==
  ASSUME IInv, NEW n \in Ids, Pop(n), \A m \in Ids \ {n} : tag'[m] = tag[m]
  PROVE  StackInv'
<1> SUFFICES ASSUME NEW i \in DOMAIN stack', NEW m \in Ids, stack'[i] = m
             PROVE  /\ tag'[m] = PreTag(m)'
                    /\ LowDegree(m)'
                    /\ Overlaps(m)' \cap (Above(i)' \cup graph') \subseteq conn'[m]
  BY DEF StackInv
<1>1. i \in DOMAIN stack /\ stack[i] = m /\ m # n /\ Colouring
  BY PopFacts
<1>2. /\ tag[m] = PreTag(m)
      /\ LowDegree(m)
      /\ Overlaps(m) \cap (Above(i) \cup graph) \subseteq conn[m]
  BY <1>1 DEF IInv, StackInv
<1>3. Above(i)' \cup graph' = Above(i) \cup graph
  BY PopFacts
<1>4. conn' = conn /\ Overlaps(m)' = Overlaps(m) /\ PreTag(m)' = PreTag(m)
  BY PopFacts
<1> QED BY <1>1, <1>2, <1>3, <1>4 DEF LowDegree, Degree

\* Popping a node whose tag stays as it is keeps the invariant (lines 128-131).
LEMMA KeepTagInv ==
  ASSUME IInv, NEW n \in Ids, KeepTag(n)
  PROVE  IInv'
<1>1. Pop(n) /\ tag' = tag
  BY DEF KeepTag
<1>2. TypeOK /\ phase = "select" /\ phase' = "select"
      /\ graph' = graph \cup {n} /\ n \notin graph /\ stack' \in Seq(Ids)
      /\ UNCHANGED <<fn, blk, phase, rank, conn, spills, registers, spilled>>
  BY <1>1, PopFacts
<1>3. TypeOK'
  BY <1>1, <1>2 DEF TypeOK
<1>4. StackInv'
  BY <1>1, PopStackInv
\* The alternative "no register is free" of the guard never holds.
<1>5. tag[n] # Count /\ tag[n] = PreTag(n) /\ ~Untagged(n)
  <2>1. LowDegree(n) /\ tag[n] = PreTag(n)
    BY <1>1, PopFacts
  <2>2. \E i \in DOMAIN Available(n) : Free(n, i)
    BY <1>2, <2>1, LowDegreeHasFree
  <2> QED BY <2>1, <2>2 DEF KeepTag, Untagged
<1>6. \A m : Overlaps(m)' = Overlaps(m) /\ PreTag(m)' = PreTag(m)
  BY <1>1, PopFacts
<1>7. MutualOverlapsDiffer'
  <2> SUFFICES ASSUME NEW m \in graph', NEW k \in graph', tag'[m] = tag'[k],
                      Untagged(m)', Untagged(k)', MutualOverlap(m, k)'
               PROVE  FALSE
    BY DEF MutualOverlapsDiffer
  <2>1. Untagged(m) /\ Untagged(k) /\ MutualOverlap(m, k)
    BY <1>6 DEF Untagged, MutualOverlap
  <2>2. m \in graph /\ k \in graph
    BY <1>2, <1>5, <2>1
  <2> QED BY <1>1, <1>2, <2>1, <2>2 DEF IInv, MutualOverlapsDiffer
<1>8. PushedGetsRegister'
  BY <1>1, <1>2, <1>5 DEF IInv, PushedGetsRegister
<1>9. OneRegisterPerRange'
  BY <1>1, <1>2, <1>5 DEF IInv, OneRegisterPerRange, PreTag
<1>10. BlockInv' /\ EachRangeOnce' /\ GraphInv' /\ ResultInv'
  BY <1>1, PopFacts
<1> QED BY <1>3, <1>4, <1>7, <1>8, <1>9, <1>10 DEF IInv

\* Popping a node and giving it the first free register keeps the invariant
\* (lines 133-161).
LEMMA TakeTagInv ==
  ASSUME IInv, NEW n \in Ids, NEW i \in DOMAIN Available(n), TakeTag(n, i)
  PROVE  IInv'
<1> DEFINE t == Available(n)[i]
<1>1. Pop(n) /\ tag[n] = Count /\ Free(n, i) /\ tag' = [tag EXCEPT ![n] = t]
  BY DEF TakeTag, FirstFree
<1>2. TypeOK /\ phase = "select" /\ phase' = "select"
      /\ graph' = graph \cup {n} /\ n \notin graph /\ stack' \in Seq(Ids)
      /\ UNCHANGED <<fn, blk, phase, rank, conn, spills, registers, spilled>>
  BY <1>1, PopFacts
<1>3. t \in AllTags /\ t # Count
  BY AvailableType, CountIsNoTag
<1>4. tag'[n] = t /\ \A m \in Ids \ {n} : tag'[m] = tag[m]
  <2>1. tag \in [Ids -> AllTags \cup {Count}]
    BY <1>2 DEF TypeOK
  <2> HIDE DEF t
  <2> QED BY <1>1, <2>1
<1>5. TypeOK'
  <2>1. tag' \in [Ids -> AllTags \cup {Count}]
    BY <1>1, <1>2, <1>3 DEF TypeOK
  <2> QED BY <1>2, <2>1 DEF TypeOK
<1>6. StackInv'
  BY <1>1, <1>4, PopStackInv
<1>7. \A m : Overlaps(m)' = Overlaps(m) /\ PreTag(m)' = PreTag(m)
  BY <1>1, PopFacts
<1>8. graph \subseteq Ids \ {n}
  BY <1>2 DEF TypeOK
\* The register was free among the overlaps of n that are coloured.
<1>9. \A m \in graph : MutualOverlap(n, m) => tag[m] # t
  <2>1. Overlaps(n) \cap graph \subseteq conn[n]
    BY <1>1, PopFacts
  <2> QED BY <1>1, <2>1 DEF Free, MutualOverlap
<1>10. MutualOverlapsDiffer'
  <2> SUFFICES ASSUME NEW m \in graph', NEW k \in graph', tag'[m] = tag'[k],
                      Untagged(m)', Untagged(k)', MutualOverlap(m, k)'
               PROVE  FALSE
    BY DEF MutualOverlapsDiffer
  <2>1. Untagged(m) /\ Untagged(k) /\ MutualOverlap(m, k) /\ MutualOverlap(k, m)
    BY <1>7 DEF Untagged, MutualOverlap
  <2>2. m # k
    BY <2>1 DEF MutualOverlap, Overlaps
  <2>3. CASE m \in graph /\ k \in graph
    BY <1>2, <1>4, <1>8, <2>1, <2>3 DEF IInv, MutualOverlapsDiffer
  <2>4. CASE m = n /\ k \in graph
    BY <1>4, <1>8, <1>9, <2>1, <2>4
  <2>5. CASE k = n /\ m \in graph
    BY <1>4, <1>8, <1>9, <2>1, <2>5
  <2> QED BY <1>2, <2>2, <2>3, <2>4, <2>5
<1>11. PushedGetsRegister'
  BY <1>2, <1>3, <1>4, <1>8 DEF IInv, PushedGetsRegister
<1>12. OneRegisterPerRange'
  <2>1. tag[n] = PreTag(n)
    BY <1>1, PopFacts
  <2>2. n \notin DOMAIN registers
    BY <1>1, <2>1 DEF IInv, ResultInv, PreTag
  <2> QED BY <1>2, <1>4, <1>8, <2>2 DEF IInv, OneRegisterPerRange
<1>13. BlockInv' /\ EachRangeOnce' /\ GraphInv' /\ ResultInv'
  BY <1>1, PopFacts
<1> QED BY <1>5, <1>6, <1>10, <1>11, <1>12, <1>13 DEF IInv

\* Recording the decisions of a block keeps the invariant (lines 164-168).
LEMMA FinishBlockInv ==
  ASSUME IInv, FinishBlock
  PROVE  IInv'
<1> USE DEF FinishBlock, NextBlock
<1>1. TypeOK /\ phase = "select" /\ phase' \in {"enter", "done"}
  BY DEF IInv
<1>2. registers' = [n \in DOMAIN registers \cup graph |->
                      IF n \in DOMAIN registers THEN registers[n] ELSE tag[n]]
  OBVIOUS
<1>3. DOMAIN registers' = DOMAIN registers \cup graph
      /\ \A n \in DOMAIN registers' :
           registers'[n] = IF n \in DOMAIN registers THEN registers[n] ELSE tag[n]
  BY <1>2
<1>4. ResultInv'
  BY <1>1, <1>3 DEF IInv, ResultInv, PushedGetsRegister
<1>5. TypeOK'
  <2>1. DOMAIN registers' \subseteq Ids
    BY <1>1, <1>3 DEF TypeOK
  <2>2. registers' \in [DOMAIN registers' -> AllTags \cup {Count}]
    BY <1>1, <1>2, <1>3 DEF TypeOK
  <2>3. blk' \in Nat \ {0}
    BY <1>1 DEF TypeOK
  <2> QED BY <1>1, <2>1, <2>2, <2>3 DEF TypeOK
<1> QED
  BY <1>1, <1>4, <1>5 DEF IInv, BlockInv, EachRangeOnce, StackInv, GraphInv,
     MutualOverlapsDiffer, PushedGetsRegister, OneRegisterPerRange, Colouring

\* The invariant speaks of the variables of the allocator only.
LEMMA StutterInv ==
  ASSUME IInv, UNCHANGED vars
  PROVE  IInv'
<1>1. UNCHANGED <<fn, blk, phase, graph, rank, conn, tag, stack, spills, registers, spilled>>
  BY DEF vars
<1>2. /\ Visited' = Visited
      /\ \A m : Overlaps(m)' = Overlaps(m)
      /\ \A m : PreTag(m)' = PreTag(m)
  BY <1>1, BlockStable
<1>3. TypeOK' /\ BlockInv' /\ ResultInv' /\ PushedGetsRegister' /\ OneRegisterPerRange'
  BY <1>1 DEF IInv, TypeOK, BlockInv, ResultInv, Colouring, PushedGetsRegister,
     OneRegisterPerRange
<1>4. EachRangeOnce' /\ GraphInv'
  BY <1>1, <1>2 DEF IInv, EachRangeOnce, Stacked, GraphInv
<1>5. StackInv'
  BY <1>1, <1>2 DEF IInv, StackInv, LowDegree, Degree, Above, Colouring
<1>6. MutualOverlapsDiffer'
  BY <1>1, <1>2 DEF IInv, MutualOverlapsDiffer, MutualOverlap, Untagged
<1> QED BY <1>3, <1>4, <1>5, <1>6 DEF IInv

-----------------------------------------------------------------------------
(***************************************************************************)
(* The inductive invariant holds in every state of the allocator.          *)
(***************************************************************************)
THEOREM Invariance == Spec => []IInv
<1>1. IInv /\ [Next]_vars => IInv'
  <2> SUFFICES ASSUME IInv, [Next]_vars PROVE IInv'
    OBVIOUS
  <2>1. CASE EnterBlock
    BY <2>1, EnterBlockInv
  <2>2. ASSUME NEW n \in Ids, Push(n) PROVE IInv'
    BY <2>2, PushInv
  <2>3. ASSUME NEW n \in Ids, Spill(n) PROVE IInv'
    BY <2>3, SpillInv
  <2>4. CASE StartSelect
    BY <2>4, StartSelectInv
  <2>5. ASSUME NEW n \in Ids, KeepTag(n) PROVE IInv'
    BY <2>5, KeepTagInv
  <2>6. ASSUME NEW n \in Ids, NEW i \in DOMAIN Available(n), TakeTag(n, i) PROVE IInv'
    BY <2>6, TakeTagInv
  <2>7. CASE FinishBlock
    BY <2>7, FinishBlockInv
  <2>8. CASE Return
    BY <2>8, StutterInv DEF Return
  <2>9. CASE UNCHANGED vars
    BY <2>9, StutterInv
  <2> QED
    BY <2>1, <2>2, <2>3, <2>4, <2>5, <2>6, <2>7, <2>8, <2>9 DEF Next
<1> QED BY <1>1, InitInv, PTL DEF Spec

\* Every variable of the allocator keeps its type.
THEOREM TypeCorrect == Spec => []TypeOK
<1>1. IInv => TypeOK
  BY DEF IInv
<1> QED BY <1>1, Invariance, PTL

\* Ranges that were free to choose and overlap both ways differ in register.
THEOREM MutualOverlapsSafe == Spec => []MutualOverlapsDiffer
<1>1. IInv => MutualOverlapsDiffer
  BY DEF IInv
<1> QED BY <1>1, Invariance, PTL

\* A node of low degree never fails to find a register.
THEOREM PushedAlwaysColoured == Spec => []PushedGetsRegister
<1>1. IInv => PushedGetsRegister
  BY DEF IInv
<1> QED BY <1>1, Invariance, PTL

\* Simplification partitions the ranges of the block.
THEOREM NoRangeLost == Spec => []EachRangeOnce
<1>1. IInv => EachRangeOnce
  BY DEF IInv
<1> QED BY <1>1, Invariance, PTL

\* The colour of a range is the same in all the blocks that colour it.
THEOREM OneRegisterAcrossBlocks == Spec => []OneRegisterPerRange
<1>1. IInv => OneRegisterPerRange
  BY DEF IInv
<1> QED BY <1>1, Invariance, PTL

-----------------------------------------------------------------------------
(***************************************************************************)
(* What a block gains when every node starts with a low degree.  While it  *)
(* is simplified, the nodes left see no more than their overlaps, so all   *)
(* of them stay of low degree and leave in the order of the sort: those    *)
(* without a tag go down the stack first.                                  *)
(***************************************************************************)
QuietSimplify ==
  phase = "simplify" /\ Quiet =>
    /\ graph \subseteq Nodes
    /\ \A n \in graph : conn[n] \subseteq Overlaps(n)
    /\ \A n, m \in graph : Untagged(n) /\ ~Untagged(m) => rank[n] < rank[m]
    /\ \A n \in Stacked, m \in graph : ~Untagged(n) => ~Untagged(m)

QuietStack ==
  Colouring /\ Quiet =>
    \A i, j \in DOMAIN stack : i < j /\ ~Untagged(stack[i]) => ~Untagged(stack[j])

\* So while it is coloured, the nodes with a tag come back first.
QuietSelect ==
  phase = "select" /\ Quiet =>
    /\ \A n \in graph, i \in DOMAIN stack : Untagged(n) => Untagged(stack[i])
    /\ \A n, m \in graph :
         Untagged(n) /\ ~Untagged(m) /\ MutualOverlap(n, m) => tag[n] # tag[m]

QuietInv == QuietSimplify /\ QuietStack /\ QuietSelect

\* Whether a block is quiet is settled when it is entered.
LEMMA QuietStable ==
  ASSUME UNCHANGED <<fn, blk, registers>>
  PROVE  /\ Quiet' = Quiet
         /\ Nodes' = Nodes
         /\ \A n : Untagged(n)' = Untagged(n)
         /\ \A n, m : MutualOverlap(n, m)' = MutualOverlap(n, m)
         /\ \A n : Overlaps(n)' = Overlaps(n)
<1>1. /\ Visited' = Visited
      /\ \A n : Overlaps(n)' = Overlaps(n)
      /\ \A n : PreTag(n)' = PreTag(n)
  BY BlockStable
<1>2. Nodes' = Nodes
  BY DEF Nodes, Visited, Block, PreSpilled, OnStack, InRegister,
         IsParam, ParamIndex, ParamLimit, SameClass, Available
<1>3. \A n : Available(n)' = Available(n)
  BY DEF Available
<1>4. \A n : Untagged(n)' = Untagged(n)
  BY <1>1 DEF Untagged
<1>5. \A n, m : MutualOverlap(n, m)' = MutualOverlap(n, m)
  BY <1>1 DEF MutualOverlap
<1>6. Quiet' = Quiet
  BY <1>1, <1>2, <1>3 DEF Quiet
<1> QED BY <1>1, <1>2, <1>4, <1>5, <1>6

\* In a quiet block no node of the graph is ever too connected to be pushed.
LEMMA QuietLowDegree ==
  ASSUME IInv, QuietInv, phase = "simplify", Quiet, NEW n \in graph
  PROVE  LowDegree(n)
<1>1. TypeOK /\ blk \in DOMAIN fn.blocks
  BY DEF IInv, BlockInv, Colouring
<1>2. n \in Nodes /\ conn[n] \subseteq Overlaps(n)
  BY DEF QuietInv, QuietSimplify
<1>3. IsFiniteSet(Overlaps(n))
  BY <1>1, VisitedType, FS_Subset
<1>4. /\ Cardinality(conn[n]) \in Nat /\ Cardinality(Overlaps(n)) \in Nat
      /\ Cardinality(conn[n]) <= Cardinality(Overlaps(n))
  BY <1>2, <1>3, FS_Subset, FS_CardinalityType
<1>5. Len(Available(n)) \in Nat /\ Cardinality(Overlaps(n)) < Len(Available(n))
  BY <1>2, AvailableType DEF Quiet
<1> QED BY <1>4, <1>5 DEF LowDegree, Degree

LEMMA EnterBlockQuiet ==
  ASSUME IInv, EnterBlock
  PROVE  QuietInv'
<1>1. UNCHANGED <<fn, blk, registers>> /\ phase' = "simplify" /\ graph' = Nodes
      /\ stack' = <<>>
      /\ conn' = [n \in Ids |-> IF n \in Nodes THEN Overlaps(n) ELSE {}]
  BY DEF EnterBlock
<1>2. Nodes' = Nodes /\ (\A n : Untagged(n)' = Untagged(n))
      /\ \A n : Overlaps(n)' = Overlaps(n)
  BY <1>1, QuietStable
<1>3. Nodes \subseteq Ids
  <2>1. TypeOK /\ fn.blocks \in Seq(BlockType) /\ blk \in Nat \ {0} /\ blk <= Len(fn.blocks)
    BY FunctionsAssumption DEF IInv, TypeOK, EnterBlock, FunctionType
  <2>2. blk \in DOMAIN fn.blocks
    BY <2>1
  <2> QED BY <2>1, <2>2, VisitedType
<1>4. PICK r \in Orders(Nodes, conn') :
        rank' = [n \in Ids |-> IF n \in Nodes THEN r[n] ELSE 0]
  BY DEF EnterBlock
<1>5. ASSUME NEW n \in Nodes, NEW m \in Nodes, Untagged(n), ~Untagged(m)
      PROVE  rank'[n] < rank'[m]
  <2>1. Before(n, m, conn')
    BY <1>5 DEF Before
  <2>2. <<n, m>> \in {p \in Nodes \X Nodes : Before(p[1], p[2], conn')}
    BY <2>1
  <2>3. r[n] < r[m]
    BY <2>2 DEF Orders
  <2> QED BY <1>3, <1>4, <2>3
<1>6. Stacked' = {} /\ DOMAIN stack' = {}
  BY <1>1 DEF Stacked
<1>7. QuietSimplify'
  BY <1>1, <1>2, <1>3, <1>5, <1>6 DEF QuietSimplify
<1> QED BY <1>1, <1>6, <1>7 DEF QuietInv, QuietStack, QuietSelect

LEMMA PushQuiet ==
  ASSUME IInv, QuietInv, NEW n \in Ids, Push(n)
  PROVE  QuietInv'
<1>1. /\ TypeOK /\ n \in graph /\ phase = "simplify" /\ phase' = "simplify" /\ Remove(n)
      /\ UNCHANGED <<fn, blk, registers, rank>>
  BY DEF Push, IInv
<1>2. /\ graph' = graph \ {n}
      /\ \A m \in graph' : conn'[m] = conn[m] \ {n}
  BY <1>1, RemoveFacts
<1>3. /\ Quiet' = Quiet /\ Nodes' = Nodes
      /\ \A m : Untagged(m)' = Untagged(m)
      /\ \A m : Overlaps(m)' = Overlaps(m)
  BY <1>1, QuietStable
<1>4. /\ stack \in Seq(Ids) /\ stack' = Append(stack, n)
      /\ Len(stack) \in Nat
      /\ DOMAIN stack = 1..Len(stack) /\ DOMAIN stack' = 1..(Len(stack) + 1)
      /\ \A i \in DOMAIN stack : stack'[i] = stack[i]
      /\ stack'[Len(stack) + 1] = n
  BY <1>1 DEF TypeOK, Push
<1>5. Stacked' = Stacked \cup {n}
  BY <1>4 DEF Stacked
<1> SUFFICES ASSUME Quiet PROVE QuietInv'
  BY <1>1, <1>3 DEF QuietInv, QuietSimplify, QuietStack, QuietSelect
<1>6. /\ graph \subseteq Nodes
      /\ \A m \in graph : conn[m] \subseteq Overlaps(m)
      /\ \A k, m \in graph : Untagged(k) /\ ~Untagged(m) => rank[k] < rank[m]
      /\ \A k \in Stacked, m \in graph : ~Untagged(k) => ~Untagged(m)
  BY <1>1 DEF QuietInv, QuietSimplify
\* n is first in the order, so when it has a tag every node left has one.
<1>7. ~Untagged(n) => \A m \in graph : ~Untagged(m)
  <2> SUFFICES ASSUME ~Untagged(n), NEW m \in graph, Untagged(m) PROVE FALSE
    OBVIOUS
  <2>1. LowDegree(m)
    BY <1>1, QuietLowDegree
  <2>2. rank[n] <= rank[m]
    BY <2>1 DEF Push
  <2>3. rank[m] < rank[n]
    BY <1>1, <1>6
  <2>4. rank[n] \in Nat /\ rank[m] \in Nat
    BY <1>1 DEF TypeOK
  <2> QED BY <2>2, <2>3, <2>4
<1>8. QuietSimplify'
  BY <1>1, <1>2, <1>3, <1>5, <1>6, <1>7 DEF QuietSimplify
<1>9. QuietStack'
  <2> SUFFICES ASSUME NEW i \in DOMAIN stack', NEW j \in DOMAIN stack', i < j,
                      ~Untagged(stack'[i])
               PROVE  ~Untagged(stack'[j])
    BY <1>3 DEF QuietStack
  <2>1. i \in DOMAIN stack /\ stack[i] = stack'[i] /\ stack[i] \in Stacked
    BY <1>4 DEF Stacked
  <2>2. CASE j \in DOMAIN stack
    BY <1>1, <1>4, <2>1, <2>2 DEF QuietInv, QuietStack, Colouring
  <2>3. CASE j = Len(stack) + 1
    BY <1>1, <1>4, <1>6, <2>1, <2>3
  <2> QED BY <1>4, <2>2, <2>3
<1> QED BY <1>1, <1>8, <1>9 DEF QuietInv, QuietSelect

\* In a quiet block nothing is spilled while the graph is simplified.
LEMMA SpillQuiet ==
  ASSUME IInv, QuietInv, NEW n \in Ids, Spill(n)
  PROVE  QuietInv'
<1>1. /\ phase = "simplify" /\ phase' = "simplify" /\ n \in graph /\ ~LowDegree(n)
      /\ UNCHANGED <<fn, blk, registers>>
  BY DEF Spill
<1>2. ~Quiet
  BY <1>1, QuietLowDegree
<1>3. ~Quiet'
  BY <1>1, <1>2, QuietStable
<1> QED BY <1>3 DEF QuietInv, QuietSimplify, QuietStack, QuietSelect

LEMMA StartSelectQuiet ==
  ASSUME IInv, QuietInv, StartSelect
  PROVE  QuietInv'
<1>1. /\ phase = "simplify" /\ phase' = "select" /\ graph' = {}
      /\ UNCHANGED <<fn, blk, registers, stack>>
  BY DEF StartSelect
<1>2. Quiet' = Quiet /\ \A m : Untagged(m)' = Untagged(m)
  BY <1>1, QuietStable
<1>3. QuietStack'
  BY <1>1, <1>2 DEF QuietInv, QuietStack, Colouring
<1> QED BY <1>1, <1>3 DEF QuietInv, QuietSimplify, QuietSelect

\* What popping leaves to show: the new pairs of the graph differ in register.
LEMMA PopQuiet ==
  ASSUME IInv, QuietInv, NEW n \in Ids, Pop(n),
         \A m \in graph : tag'[m] = tag[m],
         Untagged(n) => \A m \in graph : m \in Overlaps(n) => tag'[n] # tag[m]
  PROVE  QuietInv'
<1>1. /\ TypeOK /\ phase = "select" /\ phase' = "select" /\ Colouring
      /\ graph' = graph \cup {n}
      /\ UNCHANGED <<fn, blk, registers>>
      /\ Len(stack) \in DOMAIN stack /\ stack[Len(stack)] = n
      /\ DOMAIN stack' = DOMAIN stack \ {Len(stack)}
      /\ \A i \in DOMAIN stack' : stack'[i] = stack[i]
  BY PopFacts
<1>2. DOMAIN stack = 1..Len(stack) /\ Len(stack) \in Nat
  BY <1>1 DEF TypeOK
<1>3. /\ Quiet' = Quiet
      /\ \A m : Untagged(m)' = Untagged(m)
      /\ \A k, m : MutualOverlap(k, m)' = MutualOverlap(k, m)
  BY <1>1, QuietStable
<1> SUFFICES ASSUME Quiet PROVE QuietInv'
  BY <1>1, <1>3 DEF QuietInv, QuietSimplify, QuietStack, QuietSelect
<1>4. \A i, j \in DOMAIN stack : i < j /\ ~Untagged(stack[i]) => ~Untagged(stack[j])
  BY <1>1 DEF QuietInv, QuietStack
<1>5. /\ \A m \in graph, i \in DOMAIN stack : Untagged(m) => Untagged(stack[i])
      /\ \A k, m \in graph :
           Untagged(k) /\ ~Untagged(m) /\ MutualOverlap(k, m) => tag[k] # tag[m]
  BY <1>1 DEF QuietInv, QuietSelect
<1>6. QuietStack'
  BY <1>1, <1>3, <1>4 DEF QuietStack
<1>7. ASSUME NEW m \in graph', NEW i \in DOMAIN stack', Untagged(m)
      PROVE  Untagged(stack'[i])
  <2>1. i \in DOMAIN stack /\ i < Len(stack) /\ stack'[i] = stack[i]
    BY <1>1, <1>2
  <2>2. CASE m \in graph
    BY <1>5, <1>7, <2>1, <2>2
  <2>3. CASE m = n
    BY <1>1, <1>4, <1>7, <2>1, <2>3
  <2> QED BY <1>1, <2>2, <2>3
<1>8. ASSUME NEW k \in graph', NEW m \in graph', Untagged(k), ~Untagged(m),
             MutualOverlap(k, m)
      PROVE  tag'[k] # tag'[m]
  <2>1. CASE k \in graph /\ m \in graph
    BY <1>5, <1>8, <2>1
  <2>2. CASE k = n /\ m \in graph
    BY <1>8, <2>2 DEF MutualOverlap
  <2>3. CASE k \in graph /\ m = n
    BY <1>1, <1>5, <1>8, <2>3
  <2> QED BY <1>1, <1>8, <2>1, <2>2, <2>3
<1>9. QuietSelect'
  BY <1>3, <1>7, <1>8 DEF QuietSelect
<1> QED BY <1>1, <1>6, <1>9 DEF QuietInv, QuietSimplify

LEMMA KeepTagQuiet ==
  ASSUME IInv, QuietInv, NEW n \in Ids, KeepTag(n)
  PROVE  QuietInv'
<1>1. Pop(n) /\ tag' = tag
  BY DEF KeepTag
<1>2. ~Untagged(n)
  <2>1. TypeOK /\ LowDegree(n) /\ tag[n] = PreTag(n)
    BY <1>1, PopFacts
  <2>2. \E i \in DOMAIN Available(n) : Free(n, i)
    BY <2>1, LowDegreeHasFree
  <2> QED BY <2>1, <2>2 DEF KeepTag, Untagged
<1> QED BY <1>1, <1>2, PopQuiet

LEMMA TakeTagQuiet ==
  ASSUME IInv, QuietInv, NEW n \in Ids, NEW i \in DOMAIN Available(n), TakeTag(n, i)
  PROVE  QuietInv'
<1> DEFINE t == Available(n)[i]
<1>1. Pop(n) /\ Free(n, i) /\ tag' = [tag EXCEPT ![n] = t]
  BY DEF TakeTag, FirstFree
<1>2. n \notin graph /\ tag \in [Ids -> AllTags \cup {Count}] /\ graph \subseteq Ids
      /\ Overlaps(n) \cap graph \subseteq conn[n]
  BY <1>1, PopFacts DEF TypeOK
<1>3. tag'[n] = t /\ \A m \in graph : tag'[m] = tag[m]
  <2> HIDE DEF t
  <2> QED BY <1>1, <1>2
<1>4. \A m \in graph : m \in Overlaps(n) => tag'[n] # tag[m]
  BY <1>1, <1>2, <1>3 DEF Free
<1> QED BY <1>1, <1>3, <1>4, PopQuiet

LEMMA FinishBlockQuiet ==
  ASSUME FinishBlock
  PROVE  QuietInv'
<1>1. phase' \notin {"simplify", "select"}
  BY DEF FinishBlock, NextBlock
<1> QED BY <1>1 DEF QuietInv, QuietSimplify, QuietStack, QuietSelect, Colouring

LEMMA StutterQuiet ==
  ASSUME QuietInv, UNCHANGED vars
  PROVE  QuietInv'
<1>1. UNCHANGED <<fn, blk, phase, graph, rank, conn, tag, stack, registers>>
  BY DEF vars
<1>2. /\ Quiet' = Quiet /\ Nodes' = Nodes
      /\ \A m : Untagged(m)' = Untagged(m)
      /\ \A m : Overlaps(m)' = Overlaps(m)
      /\ \A k, m : MutualOverlap(k, m)' = MutualOverlap(k, m)
  BY <1>1, QuietStable
<1>3. QuietSimplify'
  BY <1>1, <1>2 DEF QuietInv, QuietSimplify, Stacked
<1>4. QuietStack'
  BY <1>1, <1>2 DEF QuietInv, QuietStack, Colouring
<1>5. QuietSelect'
  BY <1>1, <1>2 DEF QuietInv, QuietSelect
<1> QED BY <1>3, <1>4, <1>5 DEF QuietInv

(***************************************************************************)
(* In a block whose nodes all start with a low degree, a range that was    *)
(* free to choose avoids the precoloured ranges it mutually overlaps: the  *)
(* sort of lines 96-104 brings those back from the stack before it.        *)
(***************************************************************************)
THEOREM QuietBlocksSafe == Spec => []QuietBlocksRespectPrecoloured
<1>1. Init => QuietInv
  BY DEF Init, QuietInv, QuietSimplify, QuietStack, QuietSelect, Colouring
<1>2. IInv /\ QuietInv /\ [Next]_vars => QuietInv'
  <2> SUFFICES ASSUME IInv, QuietInv, [Next]_vars PROVE QuietInv'
    OBVIOUS
  <2>1. CASE EnterBlock
    BY <2>1, EnterBlockQuiet
  <2>2. ASSUME NEW n \in Ids, Push(n) PROVE QuietInv'
    BY <2>2, PushQuiet
  <2>3. ASSUME NEW n \in Ids, Spill(n) PROVE QuietInv'
    BY <2>3, SpillQuiet
  <2>4. CASE StartSelect
    BY <2>4, StartSelectQuiet
  <2>5. ASSUME NEW n \in Ids, KeepTag(n) PROVE QuietInv'
    BY <2>5, KeepTagQuiet
  <2>6. ASSUME NEW n \in Ids, NEW i \in DOMAIN Available(n), TakeTag(n, i) PROVE QuietInv'
    BY <2>6, TakeTagQuiet
  <2>7. CASE FinishBlock
    BY <2>7, FinishBlockQuiet
  <2>8. CASE Return
    BY <2>8, StutterQuiet DEF Return
  <2>9. CASE UNCHANGED vars
    BY <2>9, StutterQuiet
  <2> QED
    BY <2>1, <2>2, <2>3, <2>4, <2>5, <2>6, <2>7, <2>8, <2>9 DEF Next
<1>3. IInv /\ QuietInv => QuietBlocksRespectPrecoloured
  <2> SUFFICES ASSUME IInv, QuietInv, phase = "select", NEW n \in graph, NEW m \in graph,
                      tag[n] = tag[m], Untagged(n), MutualOverlap(n, m), Quiet
               PROVE  FALSE
    BY DEF QuietBlocksRespectPrecoloured
  <2>1. CASE Untagged(m)
    BY <2>1 DEF IInv, MutualOverlapsDiffer
  <2>2. CASE ~Untagged(m)
    BY <2>2 DEF QuietInv, QuietSelect
  <2> QED BY <2>1, <2>2
<1> QED BY <1>1, <1>2, <1>3, Invariance, PTL DEF Spec
=============================================================================
