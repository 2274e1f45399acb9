------------------------- MODULE MoveResolver_proofs -------------------------
(***************************************************************************)
(* The move resolver, proved for every call: the positions it counts are   *)
(* those of the line it builds, stack arguments end up from right to left  *)
(* where a register argument was left to order and the sort was stable,    *)
(* loops leave the stack as it was, and moves without a cycle deliver what *)
(* their sources held before the call, and the labels that go through r15. *)
(***************************************************************************)
EXTENDS MoveResolver, VectorLemmas

-----------------------------------------------------------------------------
\* The numbers of a sequence (or a family) of instructions.
Numbers(s) == {s[i].n : i \in DOMAIN s}
DistinctNumbers(s) == \A i, j \in DOMAIN s : s[i].n = s[j].n => i = j

Working == phase \in {"graph", "follow", "swap", "place"}
Ready == phase \in {"restore", "run", "done"}

\* What will be the result, and what waits to be put into it.
Line == IF phase \in {"graph", "follow", "swap"} THEN moves ELSE result
Entries == [i \in DOMAIN indexed |-> indexed[i].instr]

(***************************************************************************)
(* Nothing is lost or doubled: each instruction of the call is in the line *)
(* or among the entries, known by its number.                              *)
(***************************************************************************)
PartsInv ==
  /\ Working => /\ DistinctNumbers(Entries)
                /\ Numbers(Line) \cap Numbers(Entries) = {}
                /\ Numbers(Line) \cup Numbers(Entries) = Numbers(call)
  /\ Working \/ Ready => DistinctNumbers(Line)
  /\ Ready => Numbers(Line) = Numbers(call)

\* Instructions are those of the call, but for the readers of a broken loop.
Given(m) == \E i \in DOMAIN call : m = call[i]
Redirected(m) ==
  Cyclic /\ \E i \in DOMAIN call : call[i].kind = "mov" /\ m = [call[i] EXCEPT !.src = Slot]

OriginInv ==
  /\ Working => \A i \in DOMAIN indexed : Given(indexed[i].instr)
  /\ Working \/ Ready => \A i \in DOMAIN Line : Given(Line[i]) \/ Redirected(Line[i])

\* The vector from holds moves that change something, and there is one.
MovesInv ==
  phase \in {"graph", "follow", "swap"} =>
    moves # <<>> /\ \A i \in DOMAIN moves : moves[i].kind = "mov" /\ moves[i].dst # moves[i].src

\* The chain follows the moves from one operand to the next.
ChainInv ==
  phase = "follow" =>
    /\ Len(chain) >= 2
    /\ \A k \in 1..(Len(chain) - 1) :
         \E i \in DOMAIN moves : moves[i].src = chain[k] /\ moves[i].dst = chain[k + 1]

\* Loops are broken only where there are cycles, and mended in the end.
LoopInv ==
  /\ \E n \in Nat :
       /\ Len(pushed) <= n
       /\ Len(out) = n + (n - Len(pushed))
       /\ \A i \in DOMAIN out : out[i].kind = IF i <= n THEN "push" ELSE "pop"
       /\ ~Ready => n = Len(pushed)
  /\ phase \in {"run", "done"} => pushed = <<>>
  /\ spills = (RegSize + 8) * Len(pushed)
  /\ \A i \in DOMAIN out : out[i].kind = "push" => out[i].dst = Slot /\ out[i].src \in Written
  /\ \A i \in DOMAIN out : out[i].kind = "pop" => out[i].dst \in Written
  /\ pushed # <<>> \/ out # <<>> => Cyclic

(***************************************************************************)
(* An entry is never put behind the end of the line: what comes before its *)
(* position is in the line already, or is put there first.                 *)
(***************************************************************************)
Before(s, a) == {s[i].instr.n : i \in {j \in DOMAIN s : s[j].at < a}}
PlaceInv ==
  Working =>
    \A i \in DOMAIN indexed :
      indexed[i].at <= Cardinality(Numbers(Line)) + Cardinality(Before(indexed, indexed[i].at))

\* The pushes wait in the order of the call.  A stable sort leaves them in it, and
\* they come to stand in the reverse of it; without moves they stand as they waited.
Forward(s) ==
  \A k, l \in DOMAIN s :
    s[k].kind = "push" /\ s[l].kind = "push" /\ k < l => s[k].n < s[l].n
Reversed(s) ==
  \A k, l \in DOMAIN s :
    s[k].kind = "push" /\ s[l].kind = "push" /\ k < l => s[k].n > s[l].n
Stable == Entered <= StableLength

PushInv ==
  /\ Working =>
       \A i \in DOMAIN indexed :
         indexed[i].instr.kind = "push" =>
           /\ indexed[i].at = 0
           /\ \A j \in DOMAIN indexed :
                indexed[j].instr.kind = "push" /\ i < j =>
                  indexed[i].instr.n < indexed[j].instr.n
           /\ Stable =>
                \A k \in DOMAIN Line :
                  Line[k].kind = "push" => Line[k].n < indexed[i].instr.n
  /\ phase = "place" => moves # <<>> /\ (Stable => Reversed(result))
  /\ Ready => IF moves = <<>> THEN Forward(result) ELSE Stable => Reversed(result)

\* Moves taken out touch no operand of another move, and no label goes through them.
Alone(m) ==
  /\ m.dst # Spill /\ m.src # Spill
  /\ \/ m.dst = m.src
     \/ \A i \in DOMAIN call :
          call[i].kind = "mov" /\ i # m.n => call[i].src # m.dst /\ call[i].dst # m.src
AloneInv ==
  Working => \A i \in DOMAIN indexed : indexed[i].instr.kind = "mov" => Alone(indexed[i].instr)

(***************************************************************************)
(* The moves through r15 keep to the order of the call: those into it      *)
(* among themselves, and one out of it that keeps its label with them.     *)
(***************************************************************************)
Into(m) == m.kind = "mov" /\ m.dst = Spill
Through(m) == m.kind = "mov" /\ (m.dst = Spill \/ (m.src = Spill /\ KeepsLabel(m.n)))
Labels(s) ==
  \A k, l \in DOMAIN s : Into(s[k]) /\ Through(s[l]) => (k < l <=> s[k].n < s[l].n)
LabelInv == ~Cyclic /\ (Working \/ Ready) => Labels(Line)

\* No move stands in front of one that reads the parameter register it writes.
InOrder(s) ==
  \A k, l \in DOMAIN s :
    s[k].kind = "mov" /\ s[l].kind = "mov" /\ k < l /\ s[k].dst # Spill /\ s[l].src = s[k].dst =>
      s[k].src = s[k].dst
OrderInv == ~Cyclic /\ (phase = "place" \/ Ready) => InOrder(result)

(***************************************************************************)
(* The processor: what the moves have written, what they have still to     *)
(* read, and what r15 holds between a move into it and the next one out.   *)
(***************************************************************************)
Delivered(m) == KeepsLabel(m.n) => store[m.dst] = Argument(m.n)
Waiting(m) == m.src \in AllRegs \ {Spill} => store[m.src] = m.src
Holding(m) ==
  m.src = Spill /\ KeepsLabel(m.n) =>
    \A j \in DOMAIN result : result[j].n = m.n - 1 /\ j < pc => store[Spill] = Argument(m.n)

RunInv ==
  /\ phase \notin {"run", "done"} =>
       pc = 1 /\ stack = <<>> /\ store = [l \in Locations |-> l]
  /\ phase = "done" => pc > Len(Text)
  /\ phase \in {"run", "done"} /\ ~Cyclic /\ SmallCopies =>
       \A k \in DOMAIN result :
         result[k].kind = "mov" /\ result[k].dst # Spill =>
           IF k < pc THEN Delivered(result[k]) ELSE Waiting(result[k]) /\ Holding(result[k])

\* How much is on the stack: the arguments, then the registers of the loops.
Done == {k \in DOMAIN result : k < pc /\ result[k].kind = "push"}
HeightInv ==
  phase \in {"run", "done"} =>
    \E n \in Nat :
      /\ Len(out) = n + n
      /\ \A i \in DOMAIN out : out[i].kind = IF i <= n THEN "push" ELSE "pop"
      /\ Len(stack) = Cardinality(Done)
           + (IF pc <= Len(result) + 1 THEN 0
              ELSE IF pc <= Len(result) + n + 1 THEN pc - Len(result) - 1
              ELSE Len(result) + n + n + 1 - pc)

\* Nothing has happened before the instructions are separated.
StartInv ==
  phase = "separate" => visited = {} /\ pushed = <<>> /\ out = <<>>

IInv ==
  /\ TypeOK /\ StartInv
  /\ PartsInv /\ OriginInv /\ MovesInv
  /\ ChainInv /\ LoopInv
  /\ PlaceInv /\ PushInv
  /\ AloneInv /\ OrderInv /\ LabelInv
  /\ RunInv /\ HeightInv

-----------------------------------------------------------------------------
\* The call that is being resolved.
LEMMA CallFacts ==
  ASSUME TypeOK
  PROVE  /\ call \in Seq(InstructionType) /\ Len(call) \in Nat
         /\ DOMAIN call = 1..Len(call)
         /\ \A i \in DOMAIN call : call[i] \in InstructionType
         /\ DistinctNumbers(call)
         /\ \A i \in DOMAIN call : call[i].n = i
<1>1. call \in Calls
  BY DEF TypeOK
<1>2. call \in Seq(InstructionType)
  BY <1>1, CallsAssumption
<1>3. \A i \in DOMAIN call : call[i].n = i
  BY <1>1, CallsAssumption
<1> QED BY <1>2, <1>3 DEF DistinctNumbers

\* No two moves write the same parameter register, and a label goes through r15 at once.
LEMMA PairFacts ==
  ASSUME TypeOK, NEW i \in DOMAIN call, call[i].kind = "mov"
  PROVE  /\ \A j \in DOMAIN call :
              call[j].kind = "mov" /\ call[j].dst = call[i].dst => i = j \/ call[i].dst = Spill
         /\ call[i].dst = Spill =>
              call[i].src \in Values /\ i + 1 \in DOMAIN call /\ call[i + 1].kind = "mov"
                /\ call[i + 1].src = Spill
         /\ call[i].src = Spill =>
              i - 1 \in DOMAIN call /\ call[i - 1].kind = "mov" /\ call[i - 1].dst = Spill
<1>1. call \in Calls
  BY DEF TypeOK
<1> QED BY <1>1, CallsAssumption

\* The kind of an instruction tells what its operands are.
LEMMA InstructionFacts ==
  /\ \A m \in InstructionType :
       /\ m \in AnyInstruction
       /\ m.src \in Sources /\ m.src # Slot
  /\ \A m \in AnyInstruction :
       /\ m.kind \in {"mov", "stay", "first", "push"} /\ m.n \in Nat
       /\ m.src \in Sources \cup {Slot} /\ m.dst \in Written \cup Cells
       /\ m.kind = "mov" => m.dst \in Written
       /\ m.kind # "mov" => m.src \in Sources
  /\ Slot \notin Sources /\ Written \subseteq AllRegs /\ Spill \notin ParamSet
<1>1. Slot \notin Sources /\ Spill \notin ParamSet
  BY OperandsAssumption DEF Sources
<1>2. Written \subseteq AllRegs
  BY DEF Written, AllRegs
<1> QED BY <1>1, <1>2 DEF InstructionType, AnyInstruction, Written

AllMovs == {i \in DOMAIN call : call[i].kind = "mov"}
Taken == {i \in AllMovs : Isolated(call[i], [j \in AllMovs |-> call[j]])}
Others == DOMAIN call \ AllMovs

\* Lines 92-109: from which instruction of the call every element comes.
LEMMA SeparateFacts ==
  ASSUME TypeOK, Separate
  PROVE  /\ \E h \in [DOMAIN moves' -> DOMAIN call] :
              /\ \A k \in DOMAIN moves' : h[k] \in AllMovs \ Taken /\ moves'[k] = call[h[k]]
              /\ \A i \in AllMovs \ Taken : \E k \in DOMAIN moves' : h[k] = i
              /\ \A k, l \in DOMAIN moves' : h[k] = h[l] => k = l
              /\ \A k, l \in DOMAIN moves' : k < l => h[k] < h[l]
         /\ \E g \in [DOMAIN indexed' -> DOMAIN call] :
              /\ \A x \in DOMAIN indexed' :
                   /\ g[x] \in Others \cup Taken
                   /\ indexed'[x].instr = call[g[x]]
                   /\ indexed'[x].at = IF g[x] \in Others THEN Position(g[x])
                                       ELSE Cardinality(Below(AllMovs, g[x]))
              /\ \A i \in Others \cup Taken : \E x \in DOMAIN indexed' : g[x] = i
              /\ \A x, y \in DOMAIN indexed' : g[x] = g[y] => x = y
              /\ \A x, y \in DOMAIN indexed' :
                   g[x] \in Others /\ g[y] \in Others /\ x < y => g[x] < g[y]
         /\ moves' \in Seq(InstructionType)
         /\ indexed' \in Seq([at : Nat, instr : InstructionType])
         /\ DOMAIN indexed' = 1..Len(indexed') /\ Len(indexed') \in Nat
<1> DEFINE T == [at : Nat, instr : InstructionType]
           first == [i \in DOMAIN call |-> [at |-> Position(i), instr |-> call[i]]]
           second == [i \in DOMAIN call |->
                        [at |-> Cardinality(Below(AllMovs, i)), instr |-> call[i]]]
           a == Cardinality(Others)
           b == Cardinality(Taken)
           c == Cardinality(AllMovs \ Taken)
<1>1. /\ call \in Seq(InstructionType) /\ Len(call) \in Nat /\ DOMAIN call = 1..Len(call)
      /\ \A i \in DOMAIN call : call[i] \in InstructionType
  BY CallFacts
<1>2. /\ moves' = Kept(call, AllMovs \ Taken)
      /\ indexed' = Kept(first, Others) \o Kept(second, Taken)
  BY DEF Separate, AllMovs, Taken, Others, Below
<1>3. AllMovs \subseteq DOMAIN call /\ Taken \subseteq AllMovs /\ Others \subseteq DOMAIN call
      /\ Others \cap Taken = {}
  BY DEF AllMovs, Taken, Others
<1>4. first \in Seq(T) /\ DOMAIN first = DOMAIN call
  <2>1. \A i \in DOMAIN call : Position(i) \in Nat
    BY <1>1 DEF Position
  <2>2. first \in [1..Len(call) -> T]
    BY <1>1, <2>1
  <2> QED BY <1>1, <2>2
<1>5. second \in Seq(T) /\ DOMAIN second = DOMAIN call
  <2>1. \A i \in DOMAIN call : Cardinality(Below(AllMovs, i)) \in Nat
    <3> TAKE i \in DOMAIN call
    <3>1. AllMovs \in SUBSET (1..Len(call)) /\ Below(AllMovs, i) \in SUBSET (1..Len(call))
      BY <1>1, <1>3 DEF Below
    <3> QED BY <1>1, <3>1, BelowFacts
  <2>2. second \in [1..Len(call) -> T]
    BY <1>1, <2>1
  <2> QED BY <1>1, <2>2
<1>6. /\ c \in Nat /\ moves' \in Seq(InstructionType) /\ DOMAIN moves' = 1..c
      /\ \A k \in 1..c : Nth(AllMovs \ Taken, k) \in AllMovs \ Taken
                           /\ moves'[k] = call[Nth(AllMovs \ Taken, k)]
      /\ \A i \in AllMovs \ Taken : \E k \in 1..c : Nth(AllMovs \ Taken, k) = i
      /\ \A k, l \in 1..c : k < l => Nth(AllMovs \ Taken, k) < Nth(AllMovs \ Taken, l)
  <2> DEFINE S == AllMovs \ Taken
  <2>1. S \in SUBSET DOMAIN call
    BY <1>3
  <2>2. moves' = Kept(call, S)
    BY <1>2
  <2> HIDE DEF S
  <2>3. /\ Cardinality(S) \in Nat /\ moves' \in Seq(InstructionType)
        /\ DOMAIN moves' = 1..Cardinality(S)
        /\ \A k \in 1..Cardinality(S) : Nth(S, k) \in S /\ moves'[k] = call[Nth(S, k)]
        /\ \A i \in S : \E k \in 1..Cardinality(S) : Nth(S, k) = i
        /\ \A k, l \in 1..Cardinality(S) : k < l => Nth(S, k) < Nth(S, l)
    BY <1>1, <2>1, <2>2, KeptFacts
  <2> QED BY <2>3 DEF S
<1>7. \E h \in [DOMAIN moves' -> DOMAIN call] :
        /\ \A k \in DOMAIN moves' : h[k] \in AllMovs \ Taken /\ moves'[k] = call[h[k]]
        /\ \A i \in AllMovs \ Taken : \E k \in DOMAIN moves' : h[k] = i
        /\ \A k, l \in DOMAIN moves' : h[k] = h[l] => k = l
        /\ \A k, l \in DOMAIN moves' : k < l => h[k] < h[l]
  <2> DEFINE h == [k \in 1..c |-> Nth(AllMovs \ Taken, k)]
  <2>1. h \in [DOMAIN moves' -> DOMAIN call]
    BY <1>3, <1>6
  <2>2. \A k \in DOMAIN moves' : h[k] \in AllMovs \ Taken /\ moves'[k] = call[h[k]]
    BY <1>6
  <2>3. \A i \in AllMovs \ Taken : \E k \in DOMAIN moves' : h[k] = i
    BY <1>6
  <2>4. \A k, l \in DOMAIN moves' : h[k] = h[l] => k = l
    <3> SUFFICES ASSUME NEW k \in 1..c, NEW l \in 1..c, h[k] = h[l], k # l PROVE FALSE
      BY <1>6
    <3>1. k \in Nat /\ l \in Nat /\ (k < l \/ l < k)
      <4> HIDE DEF c
      <4> QED BY <1>6
    <3>2. h[k] \in Nat /\ h[l] \in Nat
      <4>1. k \in DOMAIN moves' /\ l \in DOMAIN moves'
        BY <1>6
      <4> HIDE DEF h
      <4>2. h[k] \in DOMAIN call /\ h[l] \in DOMAIN call
        BY <2>1, <4>1
      <4> QED BY <1>1, <4>2
    <3>3. h[k] < h[l] \/ h[l] < h[k]
      BY <1>6, <3>1
    <3> HIDE DEF h
    <3> QED BY <3>2, <3>3
  <2>5. \A k, l \in DOMAIN moves' : k < l => h[k] < h[l]
    BY <1>6
  <2> HIDE DEF h
  <2> QED BY <2>1, <2>2, <2>3, <2>4, <2>5
<1>8. /\ a \in Nat /\ Kept(first, Others) \in Seq(T)
      /\ Len(Kept(first, Others)) = a
      /\ \A k \in 1..a : Nth(Others, k) \in Others
                           /\ Kept(first, Others)[k] = first[Nth(Others, k)]
      /\ \A i \in Others : \E k \in 1..a : Nth(Others, k) = i
      /\ \A k, l \in 1..a : k < l => Nth(Others, k) < Nth(Others, l)
  <2> HIDE DEF T, first
  <2> QED BY <1>3, <1>4, KeptFacts
<1>9. /\ b \in Nat /\ Kept(second, Taken) \in Seq(T)
      /\ Len(Kept(second, Taken)) = b
      /\ \A k \in 1..b : Nth(Taken, k) \in Taken
                           /\ Kept(second, Taken)[k] = second[Nth(Taken, k)]
      /\ \A i \in Taken : \E k \in 1..b : Nth(Taken, k) = i
      /\ \A k, l \in 1..b : k < l => Nth(Taken, k) < Nth(Taken, l)
  <2>1. Taken \in SUBSET DOMAIN second
    BY <1>3, <1>5
  <2> HIDE DEF T, second
  <2> QED BY <1>5, <2>1, KeptFacts
<1>10. /\ indexed' \in Seq(T) /\ Len(indexed') = a + b /\ DOMAIN indexed' = 1..(a + b)
       /\ \A k \in 1..a : indexed'[k] = Kept(first, Others)[k]
       /\ \A k \in (a + 1)..(a + b) : indexed'[k] = Kept(second, Taken)[k - a]
  <2> DEFINE p == Kept(first, Others)
             q == Kept(second, Taken)
  <2>1. p \in Seq(T) /\ q \in Seq(T) /\ indexed' = p \o q /\ Len(p) = a /\ Len(q) = b
    BY <1>2, <1>8, <1>9
  <2> HIDE DEF p, q, T, a, b
  <2>2. a \in Nat /\ b \in Nat
    BY <1>8, <1>9
  <2>3. /\ indexed' \in Seq(T) /\ Len(indexed') = a + b /\ DOMAIN indexed' = 1..(a + b)
        /\ \A k \in 1..a : indexed'[k] = p[k]
        /\ \A k \in (a + 1)..(a + b) : indexed'[k] = q[k - a]
    <3>1. indexed' \in Seq(T) /\ Len(indexed') = a + b
      BY <2>1, ConcatFacts
    <3>2. DOMAIN indexed' = 1..(a + b)
      BY <3>1
    <3>3. \A k \in 1..(a + b) : indexed'[k] = IF k <= a THEN p[k] ELSE q[k - a]
      BY <2>1, ConcatFacts
    <3>4. \A k \in 1..a : k \in 1..(a + b) /\ k <= a
      BY <2>2
    <3>5. \A k \in (a + 1)..(a + b) : k \in 1..(a + b) /\ ~(k <= a)
      BY <2>2
    <3> QED BY <3>1, <3>2, <3>3, <3>4, <3>5
  <2> QED BY <2>3 DEF p, q
<1> DEFINE g == [x \in 1..(a + b) |-> IF x <= a THEN Nth(Others, x) ELSE Nth(Taken, x - a)]
<1>11. \A x \in 1..(a + b) :
         \/ x \in 1..a /\ g[x] = Nth(Others, x) /\ g[x] \in Others
         \/ x \in (a + 1)..(a + b) /\ x - a \in 1..b /\ g[x] = Nth(Taken, x - a)
              /\ g[x] \in Taken
  <2> TAKE x \in 1..(a + b)
  <2>1. a \in Nat /\ b \in Nat
    BY <1>8, <1>9
  <2>2. \/ x \in 1..a /\ x <= a
        \/ x \in (a + 1)..(a + b) /\ x - a \in 1..b /\ ~(x <= a)
    <3> HIDE DEF a, b
    <3> QED BY <2>1
  <2> QED BY <1>8, <1>9, <2>2
<1>12. \A x \in DOMAIN indexed' :
         /\ g[x] \in Others \cup Taken
         /\ indexed'[x].instr = call[g[x]]
         /\ indexed'[x].at = IF g[x] \in Others THEN Position(g[x])
                             ELSE Cardinality(Below(AllMovs, g[x]))
  <2> SUFFICES ASSUME NEW x \in 1..(a + b)
               PROVE  /\ g[x] \in Others \cup Taken
                      /\ indexed'[x].instr = call[g[x]]
                      /\ indexed'[x].at = IF g[x] \in Others THEN Position(g[x])
                                          ELSE Cardinality(Below(AllMovs, g[x]))
    BY <1>10
  <2>1. CASE x \in 1..a /\ g[x] = Nth(Others, x) /\ g[x] \in Others
    <3>1. indexed'[x] = first[g[x]]
      <4> HIDE DEF first, second, a, b, g
      <4>1. indexed'[x] = Kept(first, Others)[x]
        BY <1>10, <2>1
      <4>2. Kept(first, Others)[x] = first[Nth(Others, x)]
        BY <1>8, <2>1
      <4> QED BY <2>1, <4>1, <4>2
    <3>2. g[x] \in DOMAIN call
      BY <1>3, <2>1
    <3>3. indexed'[x] = [at |-> Position(g[x]), instr |-> call[g[x]]]
      BY <3>1, <3>2
    <3> HIDE DEF g
    <3> QED BY <2>1, <3>3
  <2>2. CASE x \in (a + 1)..(a + b) /\ x - a \in 1..b /\ g[x] = Nth(Taken, x - a)
               /\ g[x] \in Taken
    <3>1. indexed'[x] = second[g[x]]
      <4> HIDE DEF first, second, a, b, g
      <4>1. indexed'[x] = Kept(second, Taken)[x - a]
        BY <1>10, <2>2
      <4>2. Kept(second, Taken)[x - a] = second[Nth(Taken, x - a)]
        BY <1>9, <2>2
      <4> QED BY <2>2, <4>1, <4>2
    <3>2. g[x] \in DOMAIN call /\ g[x] \notin Others
      BY <1>3, <2>2
    <3>3. indexed'[x] = [at |-> Cardinality(Below(AllMovs, g[x])), instr |-> call[g[x]]]
      BY <3>1, <3>2
    <3> HIDE DEF g
    <3> QED BY <2>2, <3>2, <3>3
  <2> QED BY <1>11, <2>1, <2>2
<1>13. g \in [DOMAIN indexed' -> DOMAIN call]
  BY <1>3, <1>10, <1>12
<1>14. \A i \in Others \cup Taken : \E x \in DOMAIN indexed' : g[x] = i
  <2> TAKE i \in Others \cup Taken
  <2>1. a \in Nat /\ b \in Nat
    BY <1>8, <1>9
  <2>2. CASE i \in Others
    <3>1. PICK k \in 1..a : Nth(Others, k) = i
      BY <1>8, <2>2
    <3>2. k \in 1..(a + b) /\ k <= a
      <4> HIDE DEF a, b
      <4> QED BY <2>1
    <3> QED BY <1>10, <3>1, <3>2
  <2>3. CASE i \in Taken
    <3>1. PICK k \in 1..b : Nth(Taken, k) = i
      BY <1>9, <2>3
    <3>2. k + a \in 1..(a + b) /\ ~(k + a <= a) /\ (k + a) - a = k
      <4> HIDE DEF a, b
      <4> QED BY <2>1
    <3>3. g[k + a] = i
      BY <3>1, <3>2
    <3> QED BY <1>10, <3>2, <3>3
  <2> QED BY <2>2, <2>3
<1>15. \A x, y \in DOMAIN indexed' :
         g[x] \in Others /\ g[y] \in Others /\ x < y => g[x] < g[y]
  <2> SUFFICES ASSUME NEW x \in 1..(a + b), NEW y \in 1..(a + b),
                      g[x] \in Others, g[y] \in Others, x < y
               PROVE  g[x] < g[y]
    BY <1>10
  <2>1. x \in 1..a /\ y \in 1..a /\ g[x] = Nth(Others, x) /\ g[y] = Nth(Others, y)
    <3> HIDE DEF g
    <3> QED BY <1>3, <1>11
  <2> HIDE DEF g
  <2> QED BY <1>8, <2>1
<1>16. \A x, y \in DOMAIN indexed' : g[x] = g[y] => x = y
  <2> SUFFICES ASSUME NEW x \in 1..(a + b), NEW y \in 1..(a + b), g[x] = g[y], x # y
               PROVE  FALSE
    BY <1>10
  <2>1. a \in Nat /\ b \in Nat
    BY <1>8, <1>9
  <2>2. x \in Nat /\ y \in Nat /\ (x < y \/ y < x)
    <3> HIDE DEF a, b, g
    <3> QED BY <2>1
  <2>3. g[x] \in Nat /\ g[y] \in Nat
    <3>1. g[x] \in DOMAIN call /\ g[y] \in DOMAIN call
      BY <1>10, <1>13
    <3> HIDE DEF g
    <3> QED BY <1>1, <3>1
  <2>4. CASE g[x] \in Others
    <3>1. g[x] < g[y] \/ g[y] < g[x]
      <4> HIDE DEF g
      <4> QED BY <1>10, <1>15, <2>2, <2>4
    <3> HIDE DEF g
    <3> QED BY <2>3, <3>1
  <2>5. CASE g[x] \notin Others
    <3>1. /\ x - a \in 1..b /\ g[x] = Nth(Taken, x - a)
          /\ y - a \in 1..b /\ g[y] = Nth(Taken, y - a)
      <4> HIDE DEF g
      <4> QED BY <1>11, <2>5
    <3>2. x - a < y - a \/ y - a < x - a
      <4> HIDE DEF a, b, g
      <4> QED BY <2>1, <2>2
    <3>3. g[x] < g[y] \/ g[y] < g[x]
      <4> HIDE DEF g
      <4> QED BY <1>9, <3>1, <3>2
    <3> HIDE DEF g
    <3> QED BY <2>3, <3>3
  <2> QED BY <2>4, <2>5
<1>17. \E e \in [DOMAIN indexed' -> DOMAIN call] :
         /\ \A x \in DOMAIN indexed' :
              /\ e[x] \in Others \cup Taken
              /\ indexed'[x].instr = call[e[x]]
              /\ indexed'[x].at = IF e[x] \in Others THEN Position(e[x])
                                  ELSE Cardinality(Below(AllMovs, e[x]))
         /\ \A i \in Others \cup Taken : \E x \in DOMAIN indexed' : e[x] = i
         /\ \A x, y \in DOMAIN indexed' : e[x] = e[y] => x = y
         /\ \A x, y \in DOMAIN indexed' :
              e[x] \in Others /\ e[y] \in Others /\ x < y => e[x] < e[y]
  <2> HIDE DEF g
  <2> QED BY <1>12, <1>13, <1>14, <1>15, <1>16
<1>18. /\ indexed' \in Seq([at : Nat, instr : InstructionType])
       /\ DOMAIN indexed' = 1..Len(indexed') /\ Len(indexed') \in Nat
  BY <1>10
<1> QED BY <1>6, <1>7, <1>17, <1>18

-----------------------------------------------------------------------------
\* The numbers in a sequence are no more than its elements.
LEMMA NumbersFacts ==
  ASSUME NEW s, NEW n \in Nat, DOMAIN s = 1..n
  PROVE  IsFiniteSet(Numbers(s)) /\ Cardinality(Numbers(s)) \in Nat /\ Cardinality(Numbers(s)) <= n
<1> DEFINE f == [i \in 1..n |-> s[i].n]
<1>1. f \in Surjection(1..n, Numbers(s))
  BY DEF Surjection, Numbers
<1>2. IsFiniteSet(1..n) /\ Cardinality(1..n) = n
  <2>1. 1 \in Int /\ n \in Int
    OBVIOUS
  <2>2. IsFiniteSet(1..n) /\ Cardinality(1..n) = IF 1 > n THEN 0 ELSE n - 1 + 1
    BY <2>1, FS_Interval
  <2> QED BY <2>2
<1>3. IsFiniteSet(Numbers(s)) /\ Cardinality(Numbers(s)) <= Cardinality(1..n)
  <2> HIDE DEF f
  <2> QED BY <1>1, <1>2, FS_Surjection
<1>4. Cardinality(Numbers(s)) \in Nat
  BY <1>3, FS_CardinalityType
<1> QED BY <1>2, <1>3, <1>4

\* The numbers of a call are its places.
LEMMA CallNumbers ==
  ASSUME TypeOK
  PROVE  /\ Numbers(call) = DOMAIN call
         /\ \A S \in SUBSET DOMAIN call : IsFiniteSet(S) /\ Cardinality(S) \in Nat
<1>1. /\ DOMAIN call = 1..Len(call) /\ Len(call) \in Nat
      /\ \A i \in DOMAIN call : call[i].n = i
  BY CallFacts
<1>2. Numbers(call) = DOMAIN call
  BY <1>1 DEF Numbers
<1>3. \A S \in SUBSET DOMAIN call : IsFiniteSet(S) /\ Cardinality(S) \in Nat
  BY <1>1, BelowFacts
<1> QED BY <1>2, <1>3

\* countOperand: a move it counts once for each of its operands stands alone.
LEMMA TakenAlone ==
  ASSUME TypeOK, NEW i \in Taken
  PROVE  Alone(call[i])
<1> DEFINE s == [j \in AllMovs |-> call[j]]
           m == call[i]
           dsts(o) == {j \in DOMAIN s : s[j].dst = o}
           srcs(o) == {j \in DOMAIN s : s[j].src = o}
<1>1. DOMAIN call = 1..Len(call) /\ Len(call) \in Nat
  BY CallFacts
<1>2. i \in AllMovs /\ DOMAIN s = AllMovs /\ AllMovs \subseteq DOMAIN call
      /\ \A j \in AllMovs : s[j] = call[j]
  BY DEF Taken, AllMovs
<1>3. \A o : /\ IsFiniteSet(dsts(o)) /\ Cardinality(dsts(o)) \in Nat
             /\ IsFiniteSet(srcs(o)) /\ Cardinality(srcs(o)) \in Nat
  <2> TAKE o
  <2>1. dsts(o) \in SUBSET (1..Len(call)) /\ srcs(o) \in SUBSET (1..Len(call))
    BY <1>1, <1>2
  <2> HIDE DEF dsts, srcs
  <2> QED BY <1>1, <2>1, BelowFacts
<1>4. s[i] = m /\ m.kind = "mov" /\ m.n = i /\ i \in DOMAIN call
  BY <1>2, CallFacts DEF AllMovs
<1>5. m.dst # m.src => CountOperand(m.dst, s) = 1 /\ CountOperand(m.src, s) = 1
  BY <1>2 DEF Taken, Isolated
<1>6. \A o : CountOperand(o, s) = Cardinality(dsts(o)) + Cardinality(srcs(o))
  BY DEF CountOperand
<1>7. \A o : (dsts(o) # {} => srcs(o) = {} \/ CountOperand(o, s) # 1)
             /\ (srcs(o) # {} => dsts(o) = {} \/ CountOperand(o, s) # 1)
  <2> TAKE o
  <2>1. /\ Cardinality(dsts(o)) = 0 <=> dsts(o) = {}
        /\ Cardinality(srcs(o)) = 0 <=> srcs(o) = {}
    <3> HIDE DEF dsts, srcs
    <3> QED BY <1>3, FS_EmptySet
  <2> HIDE DEF dsts, srcs, s
  <2> QED BY <1>3, <1>6, <2>1
<1>8. dsts(m.dst) # {} /\ srcs(m.src) # {}
  BY <1>2, <1>4
<1>9. m.dst # m.src => srcs(m.dst) = {} /\ dsts(m.src) = {}
  <2> HIDE DEF dsts, srcs, s, m
  <2> QED BY <1>5, <1>7, <1>8
<1>10. m.dst # m.src =>
         \A j \in DOMAIN call :
           call[j].kind = "mov" /\ j # m.n => call[j].src # m.dst /\ call[j].dst # m.src
  <2> SUFFICES ASSUME m.dst # m.src, NEW j \in DOMAIN call, call[j].kind = "mov"
               PROVE  call[j].src # m.dst /\ call[j].dst # m.src
    OBVIOUS
  <2>1. j \in AllMovs /\ s[j] = call[j]
    BY <1>2 DEF AllMovs
  <2> QED BY <1>2, <1>9, <2>1
<1>11. m.dst # Spill
  <2> SUFFICES ASSUME m.dst = Spill PROVE FALSE
    OBVIOUS
  <2>1. /\ m.src \in Values /\ i + 1 \in DOMAIN call /\ call[i + 1].kind = "mov"
        /\ call[i + 1].src = Spill
    BY <1>4, PairFacts
  <2>2. m.dst # m.src
    BY <2>1, OperandsAssumption DEF AllRegs, Written
  <2>3. i + 1 \in AllMovs /\ s[i + 1].src = m.dst
    BY <1>2, <2>1 DEF AllMovs
  <2> QED BY <1>2, <1>9, <2>2, <2>3
<1>12. m.src # Spill
  <2> SUFFICES ASSUME m.src = Spill PROVE FALSE
    OBVIOUS
  <2>1. i - 1 \in DOMAIN call /\ call[i - 1].kind = "mov" /\ call[i - 1].dst = Spill
    BY <1>4, PairFacts
  <2>2. m.dst # m.src
    BY <1>11
  <2>3. i - 1 \in AllMovs /\ s[i - 1].dst = m.src
    BY <1>2, <2>1 DEF AllMovs
  <2> QED BY <1>2, <1>9, <2>2, <2>3
<1> HIDE DEF m
<1> QED BY <1>10, <1>11, <1>12 DEF Alone, m

-----------------------------------------------------------------------------
\* The call stays as it was handed over.
LEMMA CallStable ==
  ASSUME call' = call
  PROVE  /\ Cyclic' = Cyclic
         /\ \A m : Given(m)' = Given(m)
         /\ \A m : Redirected(m)' = Redirected(m)
         /\ \A m : Alone(m)' = Alone(m)
         /\ \A s : Labels(s)' = Labels(s)
         /\ SmallCopies' = SmallCopies
         /\ \A i : KeepsLabel(i)' = KeepsLabel(i) /\ Argument(i)' = Argument(i)
<1>1. Cyclic' = Cyclic
  BY DEF Cyclic, Movs
<1>2. \A m : Given(m)' = Given(m)
  BY DEF Given
<1>3. \A m : Redirected(m)' = Redirected(m)
  BY <1>1 DEF Redirected
<1>4. \A m : Alone(m)' = Alone(m)
  BY DEF Alone
<1>5. \A i : KeepsLabel(i)' = KeepsLabel(i) /\ Argument(i)' = Argument(i)
  BY DEF KeepsLabel, Argument
<1>6. \A s : Labels(s)' = Labels(s)
  BY <1>5 DEF Labels, Into, Through
<1>7. SmallCopies' = SmallCopies
  BY DEF SmallCopies
<1> QED BY <1>1, <1>2, <1>3, <1>4, <1>5, <1>6, <1>7

\* What an instruction of the line or an entry can be.
LEMMA OriginType ==
  ASSUME TypeOK, NEW m, Given(m) \/ Redirected(m)
  PROVE  /\ m \in AnyInstruction
         /\ Given(m) => m \in InstructionType
         /\ ~Given(m) => m.kind = "mov" /\ m.src = Slot /\ Cyclic
         /\ m.n \in DOMAIN call /\ m.dst = call[m.n].dst /\ m.kind = call[m.n].kind
         /\ Given(m) => m = call[m.n]
<1>1. \A i \in DOMAIN call : call[i] \in InstructionType
  BY CallFacts
<1>2. CASE Given(m)
  <2>1. PICK i \in DOMAIN call : m = call[i]
    BY <1>2 DEF Given
  <2>2. m.n = i
    BY <2>1, CallFacts
  <2> QED BY <1>1, <1>2, <2>1, <2>2, InstructionFacts
<1>3. CASE Redirected(m) /\ ~Given(m)
  <2>1. PICK i \in DOMAIN call : call[i].kind = "mov" /\ m = [call[i] EXCEPT !.src = Slot]
    BY <1>3 DEF Redirected
  <2>2. call[i] \in [kind : {"mov"}, n : Nat, dst : Written, src : Sources]
    BY <1>1, <2>1 DEF InstructionType
  <2>3. /\ m \in [kind : {"mov"}, n : Nat, dst : Written, src : Sources \cup {Slot}]
        /\ m.dst = call[i].dst /\ m.kind = "mov" /\ m.src = Slot /\ m.n = call[i].n
    BY <2>1, <2>2
  <2>4. m.n = i
    BY <2>3, CallFacts
  <2> QED BY <1>3, <2>1, <2>3, <2>4 DEF AnyInstruction, Redirected
<1> QED BY <1>2, <1>3

\* A call is handed over before anything else happens.
LEMMA InitInv == Init => IInv
<1> SUFFICES ASSUME Init PROVE IInv
  OBVIOUS
<1> USE DEF Init
<1>1. TypeOK
  <2>1. store \in [Locations -> Locations \cup Values \cup {Slot}]
    OBVIOUS
  <2>2. pc \in 1..(Len(Text) + 1)
    BY DEF Text
  <2>3. spills \in Nat /\ phase \in Phases
    BY DEF Phases
  <2> QED BY <2>1, <2>2, <2>3 DEF TypeOK
<1>2. LoopInv
  <2>1. 0 \in Nat /\ Len(pushed) = 0 /\ Len(out) = 0 /\ DOMAIN out = {}
    OBVIOUS
  <2>2. spills = (RegSize + 8) * Len(pushed)
    BY <2>1, OperandsAssumption
  <2>3. \E n \in Nat :
          /\ Len(pushed) <= n
          /\ Len(out) = n + (n - Len(pushed))
          /\ \A i \in DOMAIN out : out[i].kind = IF i <= n THEN "push" ELSE "pop"
          /\ ~Ready => n = Len(pushed)
    BY <2>1
  <2> QED BY <2>1, <2>2, <2>3 DEF LoopInv
<1>3. RunInv /\ HeightInv /\ StartInv
  BY DEF RunInv, HeightInv, StartInv
<1>4. PartsInv /\ OriginInv /\ MovesInv /\ ChainInv
  BY DEF PartsInv, OriginInv, MovesInv, ChainInv, Working, Ready
<1>5. PlaceInv /\ PushInv /\ AloneInv /\ OrderInv /\ LabelInv
  BY DEF PlaceInv, PushInv, AloneInv, OrderInv, LabelInv, Working, Ready
<1> QED BY <1>1, <1>2, <1>3, <1>4, <1>5 DEF IInv

-----------------------------------------------------------------------------
(***************************************************************************)
(* After the instructions were taken apart: which are in the vector from,  *)
(* which are entries, and in which order the pushes wait.                  *)
(***************************************************************************)
Apart(s, e) ==
  /\ DistinctNumbers(s) /\ DistinctNumbers(e)
  /\ Numbers(s) = AllMovs \ Taken
  /\ Numbers(e) = Others \cup Taken
  /\ Numbers(s) \cap Numbers(e) = {} /\ Numbers(s) \cup Numbers(e) = Numbers(call)
  /\ \A k \in DOMAIN s : Given(s[k]) /\ s[k].kind = "mov" /\ s[k].dst # s[k].src
  /\ \A k, l \in DOMAIN s : k < l => s[k].n < s[l].n
  /\ \A x \in DOMAIN e : Given(e[x]) /\ (e[x].kind = "mov" => Alone(e[x]))
  /\ \A x, y \in DOMAIN e :
       e[x].kind = "push" /\ e[y].kind = "push" /\ x < y => e[x].n < e[y].n

LEMMA SeparateApart ==
  ASSUME TypeOK, Separate
  PROVE  Apart(moves', [x \in DOMAIN indexed' |-> indexed'[x].instr])
<1> DEFINE e == [x \in DOMAIN indexed' |-> indexed'[x].instr]
           s == moves'
<1>1. /\ DOMAIN call = 1..Len(call) /\ Len(call) \in Nat
      /\ \A i \in DOMAIN call : call[i] \in InstructionType /\ call[i].n = i
  BY CallFacts
<1>2. /\ AllMovs \subseteq DOMAIN call /\ Taken \subseteq AllMovs /\ Others \subseteq DOMAIN call
      /\ Others \cap AllMovs = {} /\ Others \cup AllMovs = DOMAIN call
      /\ \A i \in AllMovs : call[i].kind = "mov"
      /\ \A i \in Others : call[i].kind # "mov"
  BY DEF AllMovs, Taken, Others
<1>3. PICK h \in [DOMAIN s -> DOMAIN call] :
        /\ \A k \in DOMAIN s : h[k] \in AllMovs \ Taken /\ s[k] = call[h[k]]
        /\ \A i \in AllMovs \ Taken : \E k \in DOMAIN s : h[k] = i
        /\ \A k, l \in DOMAIN s : h[k] = h[l] => k = l
        /\ \A k, l \in DOMAIN s : k < l => h[k] < h[l]
  BY SeparateFacts
<1>4. PICK g \in [DOMAIN e -> DOMAIN call] :
        /\ \A x \in DOMAIN e : g[x] \in Others \cup Taken /\ e[x] = call[g[x]]
        /\ \A i \in Others \cup Taken : \E x \in DOMAIN e : g[x] = i
        /\ \A x, y \in DOMAIN e : g[x] = g[y] => x = y
        /\ \A x, y \in DOMAIN e : g[x] \in Others /\ g[y] \in Others /\ x < y => g[x] < g[y]
  <2>1. DOMAIN e = DOMAIN indexed' /\ \A x \in DOMAIN indexed' : e[x] = indexed'[x].instr
    OBVIOUS
  <2>2. PICK g \in [DOMAIN indexed' -> DOMAIN call] :
          /\ \A x \in DOMAIN indexed' :
               g[x] \in Others \cup Taken /\ indexed'[x].instr = call[g[x]]
          /\ \A i \in Others \cup Taken : \E x \in DOMAIN indexed' : g[x] = i
          /\ \A x, y \in DOMAIN indexed' : g[x] = g[y] => x = y
          /\ \A x, y \in DOMAIN indexed' :
               g[x] \in Others /\ g[y] \in Others /\ x < y => g[x] < g[y]
    BY SeparateFacts
  <2> HIDE DEF e
  <2> QED BY <2>1, <2>2
<1> HIDE DEF e, s
<1>5. DistinctNumbers(s) /\ DistinctNumbers(e)
  BY <1>1, <1>3, <1>4 DEF DistinctNumbers
<1>6. Numbers(s) = AllMovs \ Taken
  <2>1. \A k \in DOMAIN s : s[k].n = h[k]
    BY <1>1, <1>3
  <2> QED BY <1>3, <2>1 DEF Numbers
<1>7. Numbers(e) = Others \cup Taken
  <2>1. \A x \in DOMAIN e : e[x].n = g[x]
    BY <1>1, <1>4
  <2> QED BY <1>4, <2>1 DEF Numbers
<1>8. Numbers(s) \cap Numbers(e) = {}
  BY <1>2, <1>6, <1>7
<1>9. Numbers(s) \cup Numbers(e) = Numbers(call)
  BY <1>2, <1>6, <1>7, CallNumbers
<1>10. ASSUME NEW k \in DOMAIN s
       PROVE  Given(s[k]) /\ s[k].kind = "mov" /\ s[k].dst # s[k].src
  <2>1. h[k] \in AllMovs \ Taken /\ s[k] = call[h[k]]
    BY <1>3
  <2>2. call[h[k]].dst # call[h[k]].src
    BY <2>1 DEF Taken, Isolated
  <2> QED BY <1>2, <2>1, <2>2 DEF Given
<1>11. ASSUME NEW x \in DOMAIN e
       PROVE  Given(e[x]) /\ (e[x].kind = "mov" => Alone(e[x]))
  <2>1. g[x] \in Others \cup Taken /\ e[x] = call[g[x]] /\ g[x] \in DOMAIN call
    BY <1>4
  <2>2. e[x].kind = "mov" => g[x] \in Taken
    BY <1>2, <2>1
  <2>3. e[x].kind = "mov" => Alone(e[x])
    BY <2>1, <2>2, TakenAlone
  <2> QED BY <2>1, <2>3 DEF Given
<1>12. ASSUME NEW x \in DOMAIN e, NEW y \in DOMAIN e,
              e[x].kind = "push", e[y].kind = "push", x < y
       PROVE  e[x].n < e[y].n
  <2>1. e[x] = call[g[x]] /\ e[y] = call[g[y]] /\ g[x] \in DOMAIN call /\ g[y] \in DOMAIN call
    BY <1>4
  <2>2. g[x] \in Others /\ g[y] \in Others
    BY <1>2, <1>12, <2>1
  <2>3. g[x] < g[y]
    BY <1>4, <1>12, <2>2
  <2>4. e[x].n = g[x] /\ e[y].n = g[y]
    BY <1>1, <2>1
  <2> QED BY <2>3, <2>4
<1>13. \A k, l \in DOMAIN s : k < l => s[k].n < s[l].n
  BY <1>1, <1>3
<1>14. Apart(s, e)
  BY <1>5, <1>6, <1>7, <1>8, <1>9, <1>10, <1>11, <1>12, <1>13 DEF Apart
<1> QED BY <1>14 DEF s, e

\* What stands before an entry in the call is in the vector from, or comes before it.
LEMMA SeparatePlaces ==
  ASSUME TypeOK, Separate, NEW x \in DOMAIN indexed'
  PROVE  /\ indexed'[x].at \in Nat
         /\ indexed'[x].instr.kind = "push" => indexed'[x].at = 0
         /\ indexed'[x].at <= Cardinality(Numbers(moves'))
                                   + Cardinality(Before(indexed', indexed'[x].at))
<1> DEFINE n == indexed'[x].at
           before == {indexed'[i].instr.n : i \in {j \in DOMAIN indexed' : indexed'[j].at < n}}
<1>1. /\ DOMAIN call = 1..Len(call) /\ Len(call) \in Nat
      /\ \A i \in DOMAIN call : call[i].n = i
  BY CallFacts
<1>2. /\ AllMovs \subseteq DOMAIN call /\ Taken \subseteq AllMovs /\ Others \subseteq DOMAIN call
      /\ Others \cap AllMovs = {} /\ Others \cup AllMovs = DOMAIN call
      /\ \A i \in AllMovs : call[i].kind = "mov"
  BY DEF AllMovs, Taken, Others
<1>3. PICK g \in [DOMAIN indexed' -> DOMAIN call] :
        /\ \A y \in DOMAIN indexed' :
             /\ g[y] \in Others \cup Taken
             /\ indexed'[y].instr = call[g[y]]
             /\ indexed'[y].at = IF g[y] \in Others THEN Position(g[y])
                                 ELSE Cardinality(Below(AllMovs, g[y]))
        /\ \A i \in Others \cup Taken : \E y \in DOMAIN indexed' : g[y] = i
  BY SeparateFacts
<1>4. /\ IsFiniteSet(AllMovs)
      /\ \A i \in AllMovs : Cardinality(Below(AllMovs, i)) \in Nat
      /\ \A i, j \in AllMovs : i < j =>
           Cardinality(Below(AllMovs, i)) < Cardinality(Below(AllMovs, j))
  <2>1. AllMovs \in SUBSET (1..Len(call))
    BY <1>1, <1>2
  <2>2. /\ IsFiniteSet(AllMovs)
        /\ \A i \in AllMovs : Cardinality(Below(AllMovs, i)) \in 0..(Cardinality(AllMovs) - 1)
        /\ \A i, j \in AllMovs : i < j =>
             Cardinality(Below(AllMovs, i)) < Cardinality(Below(AllMovs, j))
        /\ Cardinality(AllMovs) \in Nat
    BY <1>1, <2>1, BelowFacts
  <2>3. \A c \in Nat : \A m \in 0..(c - 1) : m \in Nat
    OBVIOUS
  <2> QED BY <2>2, <2>3
<1>5. \A i \in DOMAIN call :
        /\ Position(i) \in Nat /\ (call[i].kind \in {"push", "first"} => Position(i) = 0)
        /\ (call[i].kind \notin {"push", "first"} => Position(i) = i - 1)
  BY <1>1 DEF Position
<1>6. \A i \in AllMovs : Cardinality(Below(AllMovs, i)) <= i - 1
  <2> TAKE i \in AllMovs
  <2>1. i \in Nat /\ i - 1 \in Nat /\ i \in 1..Len(call)
    BY <1>1, <1>2
  <2>2. Below(AllMovs, i) \in SUBSET (1..(i - 1))
    BY <1>1, <1>2, <2>1 DEF Below
  <2>3. IsFiniteSet(1..(i - 1)) /\ Cardinality(1..(i - 1)) = i - 1
    <3>1. 1 \in Int /\ i - 1 \in Int
      BY <2>1
    <3>2. IsFiniteSet(1..(i - 1))
          /\ Cardinality(1..(i - 1)) = IF 1 > i - 1 THEN 0 ELSE (i - 1) - 1 + 1
      BY <3>1, FS_Interval
    <3> QED BY <2>1, <3>2
  <2>4. Cardinality(Below(AllMovs, i)) <= Cardinality(1..(i - 1))
    BY <2>2, <2>3, FS_Subset
  <2> QED BY <2>3, <2>4
<1>7. /\ g[x] \in DOMAIN call /\ g[x] \in Others \cup Taken
      /\ indexed'[x].instr = call[g[x]]
      /\ n = IF g[x] \in Others THEN Position(g[x]) ELSE Cardinality(Below(AllMovs, g[x]))
  BY <1>3
<1>8. n \in Nat
  BY <1>2, <1>4, <1>5, <1>7
<1>9. indexed'[x].instr.kind = "push" => n = 0
  BY <1>2, <1>5, <1>7
<1>10. Numbers(moves') = AllMovs \ Taken
  BY SeparateApart DEF Apart
<1>11. /\ IsFiniteSet(Numbers(moves')) /\ Cardinality(Numbers(moves')) \in Nat
       /\ IsFiniteSet(before) /\ Cardinality(before) \in Nat
  <2>1. Numbers(moves') \in SUBSET DOMAIN call
    BY <1>2, <1>10
  <2>2. before \in SUBSET DOMAIN call
    BY <1>1, <1>3
  <2> HIDE DEF before
  <2> QED BY <2>1, <2>2, CallNumbers
\* Whatever comes below n in the call is in one of the two sets.
<1>12. ASSUME NEW S \in SUBSET DOMAIN call, Cardinality(S) = n,
              \A i \in S : i \in Others => Position(i) < n,
              \A i \in S : i \in Taken => Cardinality(Below(AllMovs, i)) < n
       PROVE  n <= Cardinality(Numbers(moves')) + Cardinality(before)
  <2>1. ASSUME NEW i \in S
        PROVE  i \in Numbers(moves') \cup before
    <3>1. CASE i \in AllMovs \ Taken
      BY <1>10, <3>1
    <3>2. CASE i \in Others \cup Taken
      <4>1. PICK y \in DOMAIN indexed' : g[y] = i
        BY <1>3, <3>2
      <4>2. indexed'[y].at < n /\ indexed'[y].instr.n = i
        <5> HIDE DEF n
        <5> QED BY <1>1, <1>2, <1>3, <1>12, <3>2, <4>1
      <4> QED BY <4>2
    <3> QED BY <1>2, <3>1, <3>2
  <2>2. S \subseteq Numbers(moves') \cup before
    BY <2>1
  <2> HIDE DEF before, n
  <2>3. /\ IsFiniteSet(Numbers(moves') \cup before)
        /\ Cardinality(Numbers(moves') \cup before)
             = Cardinality(Numbers(moves')) + Cardinality(before)
                 - Cardinality(Numbers(moves') \cap before)
    BY <1>11, FS_Union
  <2>4. Cardinality(Numbers(moves') \cap before) \in Nat
    BY <1>11, FS_Intersection, FS_CardinalityType
  <2>5. Cardinality(S) <= Cardinality(Numbers(moves') \cup before)
    BY <2>2, <2>3, FS_Subset
  <2> QED BY <1>8, <1>11, <1>12, <2>3, <2>4, <2>5
<1>13. n <= Cardinality(Numbers(moves')) + Cardinality(before)
  <2>1. CASE indexed'[x].instr.kind \in {"push", "first"}
    <3>1. n = 0
      BY <1>2, <1>5, <1>7, <2>1
    <3> HIDE DEF n, before
    <3> QED BY <1>11, <3>1
  <2>2. CASE indexed'[x].instr.kind \notin {"push", "first"} /\ g[x] \in Others
    <3> DEFINE i == g[x]
               S == 1..(i - 1)
    <3>1. n = i - 1 /\ i \in 1..Len(call) /\ i \in Nat
      BY <1>1, <1>5, <1>7, <2>2
    <3> HIDE DEF n, i
    <3>2. Cardinality(S) = n
      <4>1. 1 \in Int /\ i - 1 \in Int
        BY <3>1
      <4>2. Cardinality(S) = IF 1 > i - 1 THEN 0 ELSE (i - 1) - 1 + 1
        BY <4>1, FS_Interval
      <4> QED BY <3>1, <4>2
    <3>3. S \in SUBSET DOMAIN call
      BY <1>1, <3>1
    <3>4. \A j \in S : j < i /\ j \in Nat /\ j - 1 < i - 1
      BY <3>1
    <3>5. \A j \in S : j \in Others => Position(j) < n
      <4> TAKE j \in S
      <4>1. Position(j) = j - 1 \/ Position(j) = 0
        BY <1>5, <3>3
      <4>2. 0 < i - 1
        BY <3>1
      <4> QED BY <3>1, <3>4, <4>1, <4>2
    <3>6. \A j \in S : j \in Taken => Cardinality(Below(AllMovs, j)) < n
      <4> SUFFICES ASSUME NEW j \in S, j \in Taken PROVE Cardinality(Below(AllMovs, j)) < n
        OBVIOUS
      <4>1. /\ Cardinality(Below(AllMovs, j)) <= j - 1
            /\ Cardinality(Below(AllMovs, j)) \in Nat
        BY <1>2, <1>4, <1>6
      <4>2. j - 1 < i - 1 /\ j \in Nat
        BY <3>4
      <4> QED BY <3>1, <4>1, <4>2
    <3> HIDE DEF S, before
    <3> QED BY <1>12, <3>2, <3>3, <3>5, <3>6
  <2>3. CASE g[x] \in Taken
    <3> DEFINE S == Below(AllMovs, g[x])
    <3>1. n = Cardinality(S)
      BY <1>2, <1>7, <2>3
    <3>2. S \in SUBSET DOMAIN call /\ S \subseteq AllMovs
      BY <1>2 DEF Below
    <3>3. \A j \in S : j < g[x] /\ j \notin Others
      BY <1>2, <3>2 DEF Below
    <3>4. \A j \in S : j \in Taken => Cardinality(Below(AllMovs, j)) < n
      BY <1>2, <1>4, <2>3, <3>1, <3>2, <3>3
    <3> HIDE DEF S, n, before
    <3> QED BY <1>12, <3>1, <3>2, <3>3, <3>4
  <2> QED BY <1>7, <2>1, <2>2, <2>3
<1>14. before = Before(indexed', n)
  BY DEF Before
<1> QED BY <1>8, <1>9, <1>13, <1>14

\* Moves in the order of the call are as their labels want them.
LEMMA CallOrderLabels ==
  ASSUME NEW n \in Nat, NEW s, DOMAIN s = 1..n, \A k \in 1..n : s[k].n \in Nat,
         \A k, l \in 1..n : k < l => s[k].n < s[l].n
  PROVE  Labels(s)
<1> SUFFICES ASSUME NEW k \in 1..n, NEW l \in 1..n
             PROVE  k < l <=> s[k].n < s[l].n
  BY DEF Labels
<1>1. k < l \/ k = l \/ l < k
  OBVIOUS
<1>2. s[k].n \in Nat /\ s[l].n \in Nat
  OBVIOUS
<1>3. CASE k < l
  BY <1>3
<1>4. CASE k = l
  BY <1>2, <1>4
<1>5. CASE l < k
  <2>1. s[l].n < s[k].n
    BY <1>5
  <2> QED BY <1>2, <1>5, <2>1
<1> QED BY <1>1, <1>3, <1>4, <1>5

\* Taking the instructions apart establishes the invariant (lines 85-115).
LEMMA SeparateInv ==
  ASSUME IInv, Separate
  PROVE  IInv'
<1> DEFINE e == [x \in DOMAIN indexed' |-> indexed'[x].instr]
<1>1. /\ TypeOK /\ phase = "separate" /\ visited = {} /\ pushed = <<>> /\ out = <<>>
      /\ pc = 1 /\ stack = <<>> /\ store = [l \in Locations |-> l]
  BY DEF IInv, Separate, StartInv, RunInv
<1>2. /\ call' = call /\ chain' = chain /\ visited' = {} /\ pushed' = <<>> /\ out' = <<>>
      /\ spills' = spills /\ pc' = 1 /\ stack' = <<>> /\ store' = store
      /\ \/ moves' = <<>> /\ phase' = "run" /\ result' = e
         \/ moves' # <<>> /\ phase' = "graph" /\ result' = result
  BY <1>1 DEF Separate, processor
<1>3. Apart(moves', e)
  BY <1>1, SeparateApart
<1>4. /\ moves' \in Seq(AnyInstruction)
      /\ DOMAIN indexed' = 1..Len(indexed') /\ Len(indexed') \in Nat
  <2>1. moves' \in Seq(InstructionType) /\ DOMAIN indexed' = 1..Len(indexed')
        /\ Len(indexed') \in Nat
    BY <1>1, SeparateFacts
  <2> QED BY <2>1, InstructionFacts
<1>5. \A x \in DOMAIN indexed' :
        /\ indexed'[x].at \in Nat /\ e[x] = indexed'[x].instr
        /\ e[x] \in InstructionType /\ e[x] \in AnyInstruction
        /\ indexed'[x].instr.kind = "push" => indexed'[x].at = 0
        /\ indexed'[x].at <= Cardinality(Numbers(moves'))
                               + Cardinality(Before(indexed', indexed'[x].at))
  <2> TAKE x \in DOMAIN indexed'
  <2>1. Given(e[x])
    BY <1>3 DEF Apart
  <2>2. e[x] \in InstructionType /\ e[x] \in AnyInstruction
    <3> HIDE DEF e
    <3> QED BY <1>1, <2>1, OriginType
  <2> QED BY <1>1, <2>2, SeparatePlaces
<1>6. e \in Seq(AnyInstruction) /\ DOMAIN e = DOMAIN indexed'
  BY <1>4, <1>5
<1>7. indexed' \in Seq([at : Nat, instr : AnyInstruction])
  <2>1. indexed' \in Seq([at : Nat, instr : InstructionType])
    BY <1>1, SeparateFacts
  <2>2. [at : Nat, instr : InstructionType] \subseteq [at : Nat, instr : AnyInstruction]
    BY InstructionFacts
  <2> QED BY <2>1, <2>2, SeqSubset
<1> HIDE DEF e
<1>8. TypeOK'
  <2>1. result' \in Seq(AnyInstruction) /\ phase' \in Phases
    BY <1>1, <1>2, <1>6 DEF TypeOK, Phases
  <2>2. pc' \in 1..(Len(Text)' + 1)
    <3>1. Text' = result' \o <<>>
      BY <1>2 DEF Text
    <3>2. Len(Text') \in Nat
      BY <2>1, <3>1
    <3> QED BY <1>2, <3>2
  <2>3. pushed' \in Seq(Written) /\ stack' \in Seq(Locations \cup Values \cup {Slot})
        /\ visited' \subseteq DOMAIN moves'
        /\ out' \in Seq([kind : {"push", "pop"}, dst : Written \cup {Slot},
                         src : Written \cup {Slot}])
    BY <1>2
  <2>4. call' \in Calls /\ chain' \in Seq(Sources \cup {Slot}) /\ spills' \in Nat
        /\ store' \in [Locations -> Locations \cup Values \cup {Slot}]
    BY <1>1, <1>2 DEF TypeOK
  <2> QED BY <1>4, <1>7, <2>1, <2>2, <2>3, <2>4 DEF TypeOK
<1>9. /\ Cyclic' = Cyclic
      /\ \A m : Given(m)' = Given(m)
      /\ \A m : Redirected(m)' = Redirected(m)
      /\ \A m : Alone(m)' = Alone(m)
      /\ \A s : Labels(s)' = Labels(s)
  BY <1>2, CallStable
<1>10. Entries' = e
  BY DEF Entries, e
<1>11. LoopInv'
  <2>1. spills = (RegSize + 8) * Len(pushed)
    BY DEF IInv, LoopInv
  <2>2. 0 \in Nat /\ Len(pushed') = 0 /\ Len(out') = 0 /\ DOMAIN out' = {}
    BY <1>2
  <2>3. \E n \in Nat :
          /\ Len(pushed') <= n
          /\ Len(out') = n + (n - Len(pushed'))
          /\ \A i \in DOMAIN out' : out'[i].kind = IF i <= n THEN "push" ELSE "pop"
          /\ n = Len(pushed')
    BY <2>2
  <2> QED BY <1>1, <1>2, <2>1, <2>2, <2>3 DEF LoopInv
<1>12. CASE moves' # <<>> /\ phase' = "graph" /\ result' = result
  <2>1. Line' = moves' /\ Working' /\ ~Ready'
    BY <1>12 DEF Line, Working, Ready
  <2>2. PartsInv'
    <3>1. /\ DistinctNumbers(Line') /\ DistinctNumbers(Entries')
          /\ Numbers(Line') \cap Numbers(Entries') = {}
          /\ Numbers(Line') \cup Numbers(Entries') = Numbers(call')
      BY <1>2, <1>3, <1>10, <2>1 DEF Apart
    <3> QED BY <2>1, <3>1 DEF PartsInv
  <2>3. OriginInv'
    BY <1>3, <1>5, <1>6, <1>9, <2>1 DEF OriginInv, Apart
  <2>4. MovesInv'
    BY <1>3, <1>12 DEF MovesInv, Apart
  <2>5. PlaceInv'
    BY <1>5, <2>1 DEF PlaceInv
  <2>6. PushInv'
    <3>1. \A i \in DOMAIN moves' : moves'[i].kind # "push"
      BY <1>3 DEF Apart
    <3>2. \A i, j \in DOMAIN indexed' :
            indexed'[i].instr.kind = "push" /\ indexed'[j].instr.kind = "push" /\ i < j =>
              indexed'[i].instr.n < indexed'[j].instr.n
      <4> SUFFICES ASSUME NEW i \in DOMAIN indexed', NEW j \in DOMAIN indexed', i < j,
                          indexed'[i].instr.kind = "push", indexed'[j].instr.kind = "push"
                   PROVE  indexed'[i].instr.n < indexed'[j].instr.n
        OBVIOUS
      <4>1. e[i] = indexed'[i].instr /\ e[j] = indexed'[j].instr
        BY <1>5
      <4>2. i \in DOMAIN e /\ j \in DOMAIN e /\ e[i].kind = "push" /\ e[j].kind = "push"
        BY <1>6, <4>1
      <4>3. e[i].n < e[j].n
        BY <1>3, <4>2 DEF Apart
      <4> QED BY <4>1, <4>3
    <3> QED BY <1>5, <1>12, <2>1, <3>1, <3>2 DEF PushInv
  <2>7. AloneInv'
    BY <1>3, <1>5, <1>6, <1>9 DEF AloneInv, Apart
  <2>8. StartInv' /\ ChainInv' /\ OrderInv' /\ RunInv' /\ HeightInv'
    BY <1>1, <1>2, <1>12, <2>1 DEF StartInv, ChainInv, OrderInv, RunInv, HeightInv
  <2>9. LabelInv'
    <3>1. /\ Len(moves') \in Nat /\ DOMAIN moves' = 1..Len(moves')
          /\ \A k \in DOMAIN moves' : moves'[k] \in AnyInstruction
      BY <1>4
    <3>2. \A k \in DOMAIN moves' : moves'[k].n \in Nat
      BY <3>1, InstructionFacts
    <3>3. \A k, l \in DOMAIN moves' : k < l => moves'[k].n < moves'[l].n
      BY <1>3 DEF Apart
    <3>4. PICK s : s = moves'
      OBVIOUS
    <3>5. Labels(s)
      BY <3>1, <3>2, <3>3, <3>4, CallOrderLabels
    <3>6. Labels(s)'
      BY <1>9, <3>5
    <3> QED BY <2>1, <3>4, <3>6 DEF LabelInv
  <2> QED BY <1>8, <1>11, <2>2, <2>3, <2>4, <2>5, <2>6, <2>7, <2>8, <2>9 DEF IInv
<1>13. CASE moves' = <<>> /\ phase' = "run" /\ result' = e
  <2>1. Line' = e /\ ~Working' /\ Ready'
    BY <1>13 DEF Line, Working, Ready
  <2>2. PartsInv'
    <3>1. Numbers(moves') = {}
      BY <1>13 DEF Numbers
    <3>2. Numbers(e) = Numbers(call)
      BY <1>3, <3>1 DEF Apart
    <3>3. DistinctNumbers(Line') /\ Numbers(Line') = Numbers(call')
      BY <1>2, <1>3, <2>1, <3>2 DEF Apart
    <3> QED BY <2>1, <3>3 DEF PartsInv
  <2>3. OriginInv'
    BY <1>3, <1>9, <2>1 DEF OriginInv, Apart
  <2>4. MovesInv' /\ PlaceInv' /\ PushInv' /\ AloneInv' /\ StartInv' /\ ChainInv'
    <3>1. \A k, l \in DOMAIN result' :
            result'[k].kind = "push" /\ result'[l].kind = "push" /\ k < l =>
              result'[k].n < result'[l].n
      BY <1>3, <1>13 DEF Apart
    <3>2. PushInv'
      BY <1>13, <2>1, <3>1 DEF PushInv, Forward
    <3> QED BY <1>13, <2>1, <3>2 DEF MovesInv, PlaceInv, AloneInv, StartInv, ChainInv
  <2>5. InOrder(e)
    <3> SUFFICES ASSUME NEW k \in DOMAIN e, NEW l \in DOMAIN e, k < l,
                        e[k].kind = "mov", e[l].kind = "mov", e[l].src = e[k].dst
                 PROVE  e[k].src = e[k].dst
      BY DEF InOrder
    <3>1. Alone(e[k]) /\ Given(e[l]) /\ DistinctNumbers(e)
      BY <1>3 DEF Apart
    <3>2. k # l
      <4>1. k \in Nat /\ l \in Nat
        BY <1>4, <1>6
      <4> QED BY <4>1
    <3>3. e[l].n # e[k].n
      BY <3>1, <3>2 DEF DistinctNumbers
    <3>4. e[l].n \in DOMAIN call /\ e[l] = call[e[l].n]
      BY <1>1, <3>1, OriginType
    <3> QED BY <3>1, <3>3, <3>4 DEF Alone
  <2>6. OrderInv'
    BY <1>13, <2>5 DEF OrderInv, InOrder
  <2>7. RunInv'
    <3>1. \A k \in DOMAIN result' : k \in Nat /\ ~(k < 1)
      BY <1>4, <1>6, <1>13
    <3>2. \A o \in AllRegs : store'[o] = o
      BY <1>1, <1>2 DEF Locations
    <3> QED BY <1>2, <1>13, <3>1, <3>2 DEF RunInv, Waiting, Holding
  <2>8. HeightInv'
    <3>1. Done' = {}
      BY <1>2, <1>4, <1>6, <1>13 DEF Done
    <3>2. Cardinality(Done') = 0
      BY <3>1, FS_EmptySet
    <3>3. Len(result') \in Nat /\ pc' <= Len(result') + 1 /\ Len(stack') = 0 /\ Len(out') = 0
          /\ DOMAIN out' = {}
      BY <1>2, <1>6, <1>13
    <3> QED BY <3>2, <3>3 DEF HeightInv
  <2>9. LabelInv'
    <3>1. \A k \in DOMAIN e : e[k].kind = "mov" => e[k].dst # Spill
      BY <1>3 DEF Apart, Alone
    <3>2. \A k \in DOMAIN Line' : ~Into(Line'[k])
      BY <2>1, <3>1 DEF Into
    <3> QED BY <3>2 DEF LabelInv, Labels, Into
  <2> QED BY <1>8, <1>11, <2>2, <2>3, <2>4, <2>6, <2>7, <2>8, <2>9 DEF IInv
<1> QED BY <1>2, <1>12, <1>13

-----------------------------------------------------------------------------
\* The first and the last of a set of positions.
LEMMA LeastFacts ==
  ASSUME NEW S \in SUBSET Nat, S # {}
  PROVE  Least(S) \in S /\ \A j \in S : Least(S) <= j
<1>1. \E i \in S : \A j \in S : i <= j
  BY LeastNatural
<1> QED BY <1>1 DEF Least

LEMMA GreatestFacts ==
  ASSUME NEW n \in Nat, NEW S \in SUBSET (1..n), S # {}
  PROVE  Greatest(S) \in S /\ \A j \in S : j <= Greatest(S)
<1> DEFINE T == {m \in Nat : n - m \in S}
<1>1. T \in SUBSET Nat /\ \A i \in S : n - i \in T /\ n - (n - i) = i
  OBVIOUS
<1>2. T # {}
  BY <1>1
<1>3. PICK m \in T : \A k \in T : m <= k
  <2> HIDE DEF T
  <2> QED BY <1>1, <1>2, LeastNatural
<1>4. n - m \in S /\ m \in Nat
  OBVIOUS
<1>5. \A j \in S : j <= n - m
  <2> TAKE j \in S
  <2>1. j \in Nat /\ n - j \in T
    BY <1>1
  <2> HIDE DEF T
  <2>2. m <= n - j
    BY <1>3, <2>1
  <2> QED BY <1>4, <2>1, <2>2
<1> QED BY <1>4, <1>5 DEF Greatest

\* Looking for a loop leaves the instructions and the processor alone.
LEMMA GraphFrame ==
  ASSUME IInv, phase \in {"graph", "follow", "swap"}, phase' \in {"graph", "follow", "swap"},
         UNCHANGED <<call, moves, indexed, pushed, out, result, spills, pc, store, stack>>
  PROVE  /\ StartInv' /\ PartsInv' /\ OriginInv' /\ MovesInv' /\ LoopInv' /\ PlaceInv'
         /\ PushInv' /\ AloneInv' /\ OrderInv' /\ LabelInv' /\ RunInv' /\ HeightInv'
<1>1. /\ Working /\ Working' /\ ~Ready /\ ~Ready' /\ Line' = Line /\ Entries' = Entries
      /\ phase' # "place" /\ Stable' = Stable
  BY DEF Working, Ready, Line, Entries, Stable, Entered
<1>2. /\ Cyclic' = Cyclic
      /\ \A m : Given(m)' = Given(m)
      /\ \A m : Redirected(m)' = Redirected(m)
      /\ \A m : Alone(m)' = Alone(m)
      /\ \A s : Labels(s)' = Labels(s)
  BY CallStable
<1>3. PartsInv'
  <2>1. /\ DistinctNumbers(Line) /\ DistinctNumbers(Entries)
        /\ Numbers(Line) \cap Numbers(Entries) = {}
        /\ Numbers(Line) \cup Numbers(Entries) = Numbers(call)
    BY <1>1 DEF IInv, PartsInv
  <2>2. /\ DistinctNumbers(Line') /\ DistinctNumbers(Entries')
        /\ Numbers(Line') \cap Numbers(Entries') = {}
        /\ Numbers(Line') \cup Numbers(Entries') = Numbers(call')
    BY <1>1, <2>1
  <2> QED BY <1>1, <2>2 DEF PartsInv
<1>4. OriginInv'
  BY <1>1, <1>2 DEF IInv, OriginInv
<1>5. MovesInv' /\ StartInv'
  BY DEF IInv, MovesInv, StartInv
<1>6. LoopInv'
  BY <1>1, <1>2 DEF IInv, LoopInv
<1>7. PlaceInv'
  BY <1>1 DEF IInv, PlaceInv
<1>8. PushInv'
  BY <1>1, <1>2 DEF IInv, PushInv
<1>9. AloneInv'
  BY <1>1, <1>2 DEF IInv, AloneInv
<1>10. OrderInv' /\ RunInv' /\ HeightInv'
  BY <1>1 DEF IInv, OrderInv, RunInv, HeightInv
<1>11. LabelInv'
  <2>1. ~Cyclic => Labels(moves)
    BY <1>1 DEF IInv, LabelInv, Line
  <2>2. ~Cyclic' => Labels(moves)'
    BY <1>2, <2>1
  <2> QED BY <1>1, <2>2 DEF LabelInv, Line
<1> QED BY <1>3, <1>4, <1>5, <1>6, <1>7, <1>8, <1>9, <1>10, <1>11

\* The chain starts with the last move (lines 175-179).
LEMMA BuildGraphInv ==
  ASSUME IInv, BuildGraph
  PROVE  IInv'
<1>1. /\ TypeOK /\ phase = "graph" /\ phase' = "follow" /\ visited' = {}
      /\ chain' = <<moves[Len(moves)].src, moves[Len(moves)].dst>>
      /\ UNCHANGED <<call, moves, indexed, pushed, out, result, spills, pc, store, stack>>
  BY DEF IInv, BuildGraph, processor
<1>2. /\ moves \in Seq(AnyInstruction) /\ Len(moves) \in DOMAIN moves
      /\ moves[Len(moves)] \in AnyInstruction /\ moves[Len(moves)].kind = "mov"
  <2>1. moves \in Seq(AnyInstruction) /\ moves # <<>>
        /\ \A i \in DOMAIN moves : moves[i].kind = "mov"
    BY <1>1 DEF IInv, TypeOK, MovesInv
  <2>2. Len(moves) \in DOMAIN moves
    BY <2>1
  <2> QED BY <2>1, <2>2
<1>3. moves[Len(moves)].src \in Sources \cup {Slot} /\ moves[Len(moves)].dst \in Sources
  BY <1>2, InstructionFacts DEF Sources
<1>4. chain' \in Seq(Sources \cup {Slot}) /\ Len(chain') = 2
      /\ chain'[1] = moves[Len(moves)].src /\ chain'[2] = moves[Len(moves)].dst
  BY <1>1, <1>3
<1>5. ChainInv'
  <2>1. \A k \in 1..(Len(chain') - 1) : k = 1
    BY <1>4
  <2> QED BY <1>1, <1>2, <1>4, <2>1 DEF ChainInv
<1>6. TypeOK'
  BY <1>1, <1>4 DEF TypeOK, Phases, Text
<1> QED BY <1>1, <1>5, <1>6, GraphFrame DEF IInv

\* And goes on with the last move that reads its end (lines 183-190).
LEMMA FollowInv ==
  ASSUME IInv, Follow
  PROVE  IInv'
<1> DEFINE i == Greatest(Readers)
<1>1. /\ TypeOK /\ phase = "follow" /\ phase' = "follow" /\ Readers # {}
      /\ visited' = visited \cup {i} /\ chain' = Append(chain, moves[i].dst)
      /\ UNCHANGED <<call, moves, indexed, pushed, out, result, spills, pc, store, stack>>
  BY DEF IInv, Follow, processor
<1>2. moves \in Seq(AnyInstruction) /\ chain \in Seq(Sources \cup {Slot})
      /\ visited \subseteq DOMAIN moves /\ DOMAIN moves = 1..Len(moves) /\ Len(moves) \in Nat
  BY <1>1 DEF TypeOK
<1>3. i \in Readers
  <2>1. Readers \in SUBSET (1..Len(moves))
    BY <1>2 DEF Readers
  <2> QED BY <1>1, <1>2, <2>1, GreatestFacts
<1>4. i \in DOMAIN moves /\ moves[i].src = chain[Len(chain)]
  BY <1>3 DEF Readers
<1> HIDE DEF i
<1>5. moves[i] \in AnyInstruction /\ moves[i].kind = "mov" /\ moves[i].dst \in Sources \cup {Slot}
  <2>1. moves[i] \in AnyInstruction /\ moves[i].kind = "mov"
    BY <1>1, <1>2, <1>4 DEF IInv, MovesInv
  <2> QED BY <2>1, InstructionFacts DEF Sources
<1>6. /\ chain' \in Seq(Sources \cup {Slot}) /\ Len(chain') = Len(chain) + 1
      /\ Len(chain) \in Nat /\ chain'[Len(chain) + 1] = moves[i].dst
      /\ \A k \in 1..Len(chain) : chain'[k] = chain[k]
  <2> DEFINE d == moves[i].dst
  <2>1. d \in Sources \cup {Slot} /\ chain' = Append(chain, d)
    BY <1>1, <1>5
  <2> HIDE DEF d
  <2>2. /\ chain' \in Seq(Sources \cup {Slot}) /\ Len(chain') = Len(chain) + 1
        /\ Len(chain) \in Nat /\ chain'[Len(chain) + 1] = d
        /\ \A k \in 1..Len(chain) : chain'[k] = chain[k]
    BY <1>2, <2>1
  <2> QED BY <2>2 DEF d
<1>7. ChainInv'
  <2>1. Len(chain) >= 2
        /\ \A k \in 1..(Len(chain) - 1) :
             \E j \in DOMAIN moves : moves[j].src = chain[k] /\ moves[j].dst = chain[k + 1]
    BY <1>1 DEF IInv, ChainInv
  <2>2. ASSUME NEW k \in 1..(Len(chain') - 1)
        PROVE  \E j \in DOMAIN moves : moves[j].src = chain'[k] /\ moves[j].dst = chain'[k + 1]
    <3>1. CASE k = Len(chain)
      <4>1. Len(chain) \in 1..Len(chain)
        BY <1>6, <2>1
      <4>2. chain'[k] = chain[Len(chain)] /\ chain'[k + 1] = moves[i].dst
        BY <1>6, <3>1, <4>1
      <4> QED BY <1>4, <4>2
    <3>2. CASE k # Len(chain)
      <4>1. k \in 1..(Len(chain) - 1) /\ k \in 1..Len(chain) /\ k + 1 \in 1..Len(chain)
        BY <1>6, <3>2
      <4>2. chain'[k] = chain[k] /\ chain'[k + 1] = chain[k + 1]
        BY <1>6, <4>1
      <4> QED BY <2>1, <4>1, <4>2
    <3> QED BY <3>1, <3>2
  <2>3. Len(chain') >= 2
    BY <1>6, <2>1
  <2> QED BY <1>1, <2>2, <2>3 DEF ChainInv
<1>8. TypeOK'
  <2>1. visited' \subseteq DOMAIN moves'
    BY <1>1, <1>2, <1>4
  <2> QED BY <1>1, <1>6, <2>1 DEF TypeOK, Phases, Text
<1> QED BY <1>1, <1>7, <1>8, GraphFrame DEF IInv

LEMMA NoLoopInv ==
  ASSUME IInv, NoLoop
  PROVE  IInv'
<1>1. /\ TypeOK /\ phase = "follow" /\ phase' = "swap" /\ visited' = visited /\ chain' = chain
      /\ UNCHANGED <<call, moves, indexed, pushed, out, result, spills, pc, store, stack>>
  BY DEF IInv, NoLoop, processor, resolver
<1>2. TypeOK' /\ ChainInv'
  BY <1>1 DEF TypeOK, ChainInv, Phases, Text
<1> QED BY <1>1, <1>2, GraphFrame DEF IInv

-----------------------------------------------------------------------------
\* Rearranging the moves, or redirecting their sources, loses none of them.
LEMMA MovesFrame ==
  ASSUME IInv, phase \in {"graph", "follow", "swap"}, phase' \in {"graph", "follow", "swap"},
         UNCHANGED <<call, indexed, result, pc, store, stack>>,
         moves' # <<>>, Len(moves') = Len(moves),
         DistinctNumbers(moves'), Numbers(moves') = Numbers(moves),
         \A k \in DOMAIN moves' :
           /\ Given(moves'[k]) \/ Redirected(moves'[k])
           /\ moves'[k].kind = "mov" /\ moves'[k].dst # moves'[k].src
  PROVE  /\ StartInv' /\ PartsInv' /\ OriginInv' /\ MovesInv' /\ PlaceInv'
         /\ PushInv' /\ AloneInv' /\ OrderInv' /\ RunInv' /\ HeightInv'
<1>1. /\ Working /\ Working' /\ ~Ready /\ ~Ready' /\ Entries' = Entries
      /\ Line = moves /\ Line' = moves' /\ phase' # "place" /\ Stable' = Stable
  BY DEF Working, Ready, Line, Entries, Stable, Entered
<1>2. /\ Cyclic' = Cyclic
      /\ \A m : Given(m)' = Given(m)
      /\ \A m : Redirected(m)' = Redirected(m)
      /\ \A m : Alone(m)' = Alone(m)
  BY CallStable
<1>3. PartsInv'
  <2>1. /\ DistinctNumbers(Entries)
        /\ Numbers(Line) \cap Numbers(Entries) = {}
        /\ Numbers(Line) \cup Numbers(Entries) = Numbers(call)
    BY <1>1 DEF IInv, PartsInv
  <2>2. /\ DistinctNumbers(Line') /\ DistinctNumbers(Entries')
        /\ Numbers(Line') \cap Numbers(Entries') = {}
        /\ Numbers(Line') \cup Numbers(Entries') = Numbers(call')
    BY <1>1, <2>1
  <2> QED BY <1>1, <2>2 DEF PartsInv
<1>4. OriginInv'
  BY <1>1, <1>2 DEF IInv, OriginInv
<1>5. MovesInv' /\ StartInv'
  BY DEF MovesInv, StartInv
<1>6. PlaceInv'
  <2>1. Numbers(Line') = Numbers(Line)
    BY <1>1
  <2>2. \A i \in DOMAIN indexed :
          indexed[i].at <= Cardinality(Numbers(Line)) + Cardinality(Before(indexed, indexed[i].at))
    BY <1>1 DEF IInv, PlaceInv
  <2>3. \A i \in DOMAIN indexed' :
          indexed'[i].at
            <= Cardinality(Numbers(Line')) + Cardinality(Before(indexed', indexed'[i].at))
    BY <2>1, <2>2
  <2> QED BY <2>3 DEF PlaceInv
<1>7. PushInv'
  BY <1>1, <1>2 DEF IInv, PushInv
<1>8. AloneInv'
  BY <1>1, <1>2 DEF IInv, AloneInv
<1>9. OrderInv' /\ RunInv' /\ HeightInv'
  BY <1>1 DEF IInv, OrderInv, RunInv, HeightInv
<1> QED BY <1>3, <1>4, <1>5, <1>6, <1>7, <1>8, <1>9

\* A group that is met twice on the chain is a register, and the chain returns to it.
LEMMA RepeatFacts ==
  ASSUME IInv, phase = "follow", NEW k \in Repeats
  PROVE  /\ k \in DOMAIN chain /\ chain[k] \in Written
         /\ \E j \in 1..(k - 1) : chain[j] = chain[k]
<1>1. /\ chain \in Seq(Sources \cup {Slot}) /\ Len(chain) >= 2 /\ Len(chain) \in Nat
      /\ DOMAIN chain = 1..Len(chain)
      /\ \A q \in 1..(Len(chain) - 1) :
           \E i \in DOMAIN moves : moves[i].src = chain[q] /\ moves[i].dst = chain[q + 1]
  <2>1. chain \in Seq(Sources \cup {Slot})
    BY DEF IInv, TypeOK
  <2>2. Len(chain) \in Nat /\ DOMAIN chain = 1..Len(chain)
    BY <2>1
  <2> QED BY <2>1, <2>2 DEF IInv, ChainInv
<1>2. k \in 1..Len(chain) /\ \E j \in 1..(k - 1) : Group(chain[j]) = Group(chain[k])
  BY <1>1 DEF Repeats
<1>3. PICK j \in 1..(k - 1) : Group(chain[j]) = Group(chain[k])
  BY <1>2
<1>4. k - 1 \in 1..(Len(chain) - 1) /\ (k - 1) + 1 = k
  BY <1>1, <1>2, <1>3
<1>5. PICK i \in DOMAIN moves : moves[i].dst = chain[(k - 1) + 1]
  BY <1>1, <1>4
<1>6. moves[i] \in AnyInstruction /\ moves[i].kind = "mov"
  BY DEF IInv, TypeOK, MovesInv
<1>7. chain[k] \in Written
  BY <1>4, <1>5, <1>6, InstructionFacts
<1>8. chain[j] = chain[k]
  BY <1>3, <1>7, InstructionFacts, OperandsAssumption DEF Group
<1> QED BY <1>1, <1>2, <1>7, <1>8

\* When no source was redirected, the moves between two meetings form a cycle.
LEMMA LoopIsCycle ==
  ASSUME IInv, phase = "follow", Repeats # {}, \A i \in DOMAIN moves : Given(moves[i])
  PROVE  Cyclic
<1>1. PICK k \in Repeats : TRUE
  OBVIOUS
<1>2. PICK j \in 1..(k - 1) : chain[j] = chain[k]
  BY RepeatFacts
<1>3. k \in 1..Len(chain) /\ Len(chain) \in Nat
  <2>1. k \in DOMAIN chain /\ chain \in Seq(Sources \cup {Slot})
    BY RepeatFacts DEF IInv, TypeOK
  <2> QED BY <2>1
<1>4. ASSUME NEW q \in j..(k - 1)
      PROVE  \E i \in DOMAIN call :
               call[i].kind = "mov" /\ call[i].src = chain[q] /\ call[i].dst = chain[q + 1]
                 /\ chain[q] # chain[q + 1]
  <2>1. q \in 1..(Len(chain) - 1)
    BY <1>3
  <2>2. PICK i \in DOMAIN moves : moves[i].src = chain[q] /\ moves[i].dst = chain[q + 1]
    BY <2>1 DEF IInv, ChainInv
  <2>3. moves[i].kind = "mov" /\ moves[i].dst # moves[i].src
    BY DEF IInv, MovesInv
  <2> QED BY <2>2, <2>3 DEF Given
<1> DEFINE S == {i \in DOMAIN call :
                   call[i].kind = "mov"
                     /\ \E q \in j..(k - 1) : call[i].src = chain[q] /\ call[i].dst = chain[q + 1]
                                                /\ chain[q] # chain[q + 1]}
<1>5. j \in j..(k - 1)
  BY <1>3
<1>6. S \in (SUBSET Movs) \ {{}}
  <2>1. S # {}
    BY <1>4, <1>5
  <2>2. S \subseteq Movs
    BY DEF Movs
  <2> QED BY <2>1, <2>2
<1>7. ASSUME NEW i \in S
      PROVE  \E l \in S : call[l].src = call[i].dst
  <2>1. PICK q \in j..(k - 1) : call[i].dst = chain[q + 1]
    OBVIOUS
  <2>2. CASE q = k - 1
    <3>1. call[i].dst = chain[j]
      BY <1>2, <1>3, <2>1, <2>2
    <3> QED BY <1>4, <1>5, <3>1
  <2>3. CASE q # k - 1
    <3>1. q + 1 \in j..(k - 1)
      BY <1>3, <2>3
    <3> QED BY <1>4, <2>1, <3>1
  <2> QED BY <2>2, <2>3
<1> HIDE DEF S
<1> QED BY <1>6, <1>7 DEF Cyclic

-----------------------------------------------------------------------------
\* One more loop is one more register on the stack.
LEMMA SpillStep ==
  ASSUME NEW n \in Nat
  PROVE  /\ (RegSize + 8) * (n + 1) = (RegSize + 8) * n + RegSize + 8
         /\ (RegSize + 8) * n \in Nat
<1>1. RegSize \in Nat
  BY OperandsAssumption
<1> QED BY <1>1

\* Breaking a loop redirects the readers of its register (lines 124-127).
LEMMA BreakLoopInv ==
  ASSUME IInv, BreakLoop
  PROVE  IInv'
<1> DEFINE loop == chain[Least(Repeats)]
           saved == [kind |-> "push", dst |-> Slot, src |-> loop]
<1>1. /\ TypeOK /\ phase = "follow" /\ phase' = "graph" /\ Repeats # {}
      /\ pushed' = Append(pushed, loop) /\ out' = Append(out, saved)
      /\ moves' = [i \in DOMAIN moves |->
                     IF moves[i].src = loop THEN [moves[i] EXCEPT !.src = Slot] ELSE moves[i]]
      /\ spills' = spills + RegSize + 8
      /\ UNCHANGED <<call, indexed, chain, visited, result, pc, store, stack>>
  BY DEF IInv, BreakLoop, processor
<1>2. loop \in Written
  <2>1. chain \in Seq(Sources \cup {Slot})
    BY <1>1 DEF TypeOK
  <2>2. Repeats \in SUBSET Nat
    BY <2>1 DEF Repeats
  <2>3. Least(Repeats) \in Repeats
    BY <1>1, <2>2, LeastFacts
  <2> QED BY <1>1, <2>3, RepeatFacts
<1> HIDE DEF loop
<1>3. /\ moves \in Seq(AnyInstruction) /\ moves # <<>> /\ DOMAIN moves = 1..Len(moves)
      /\ Len(moves) \in Nat
      /\ \A i \in DOMAIN moves :
           /\ moves[i].kind = "mov" /\ moves[i].dst # moves[i].src
           /\ moves[i] \in AnyInstruction
  BY <1>1 DEF IInv, TypeOK, MovesInv
<1>4. Line = moves /\ Working /\ ~Ready /\ ~Ready'
  BY <1>1 DEF Line, Working, Ready
<1>5. Cyclic
  <2>1. CASE \A i \in DOMAIN moves : Given(moves[i])
    BY <1>1, <2>1, LoopIsCycle
  <2>2. CASE \E i \in DOMAIN moves : ~Given(moves[i])
    BY <1>4, <2>2 DEF IInv, OriginInv, Redirected
  <2> QED BY <2>1, <2>2
<1>6. ASSUME NEW i \in DOMAIN moves
      PROVE  /\ moves'[i].dst = moves[i].dst /\ moves'[i].n = moves[i].n /\ moves'[i].kind = "mov"
             /\ moves'[i].dst # moves'[i].src
             /\ Given(moves'[i]) \/ Redirected(moves'[i])
             /\ moves'[i] \in AnyInstruction
  <2>1. Given(moves[i]) \/ Redirected(moves[i])
    BY <1>4 DEF IInv, OriginInv
  <2>2. moves[i] \in AnyInstruction /\ moves[i].kind = "mov" /\ moves[i].dst \in Written
    BY <1>3, InstructionFacts
  <2>3. loop # Slot /\ moves[i].dst # Slot
    BY <1>2, <2>2, InstructionFacts, OperandsAssumption
  <2>4. CASE moves[i].src # loop
    <3>1. moves'[i] = moves[i]
      BY <1>1, <2>4
    <3> QED BY <1>3, <2>1, <2>2, <3>1
  <2>5. CASE moves[i].src = loop
    <3>1. moves'[i] = [moves[i] EXCEPT !.src = Slot]
      BY <1>1, <2>5
    <3>2. Given(moves[i])
      BY <1>1, <2>1, <2>3, <2>5, OriginType
    <3>3. PICK j \in DOMAIN call : moves[i] = call[j]
      BY <3>2 DEF Given
    <3>4. Redirected(moves'[i])
      BY <1>5, <2>2, <3>1, <3>3 DEF Redirected
    <3>5. moves[i] \in InstructionType
      BY <1>1, <3>2, OriginType
    <3>6. moves[i] \in [kind : {"mov"}, n : Nat, dst : Written, src : Sources]
      BY <2>2, <3>5 DEF InstructionType
    <3>7. /\ moves'[i] \in [kind : {"mov"}, n : Nat, dst : Written, src : Sources \cup {Slot}]
          /\ moves'[i].n = moves[i].n
          /\ moves'[i].dst = moves[i].dst /\ moves'[i].kind = "mov" /\ moves'[i].src = Slot
      BY <3>1, <3>6
    <3> QED BY <2>3, <3>4, <3>7 DEF AnyInstruction
  <2> QED BY <2>4, <2>5
<1>7. DOMAIN moves' = DOMAIN moves
  BY <1>1
<1>8. moves' \in Seq(AnyInstruction) /\ moves' # <<>> /\ Len(moves') = Len(moves)
  <2>1. moves' \in [1..Len(moves) -> AnyInstruction]
    BY <1>1, <1>3, <1>6
  <2>2. moves' \in Seq(AnyInstruction) /\ Len(moves') = Len(moves)
    BY <1>3, <2>1
  <2> QED BY <1>3, <2>2
<1>9. Numbers(moves') = Numbers(moves)
  BY <1>6, <1>7 DEF Numbers
<1>10. DistinctNumbers(moves')
  <2>1. DistinctNumbers(moves)
    BY <1>4 DEF IInv, PartsInv
  <2> QED BY <1>6, <1>7, <2>1 DEF DistinctNumbers
<1>11. /\ StartInv' /\ PartsInv' /\ OriginInv' /\ MovesInv' /\ PlaceInv'
       /\ PushInv' /\ AloneInv' /\ OrderInv' /\ RunInv' /\ HeightInv'
  BY <1>1, <1>6, <1>7, <1>8, <1>9, <1>10, MovesFrame
<1>12. saved \in [kind : {"push", "pop"}, dst : Written \cup {Slot}, src : Written \cup {Slot}]
       /\ saved.kind = "push" /\ saved.dst = Slot /\ saved.src = loop
  BY <1>2
<1> HIDE DEF saved
<1>13. /\ pushed' \in Seq(Written) /\ Len(pushed') = Len(pushed) + 1 /\ Len(pushed) \in Nat
       /\ out' \in Seq([kind : {"push", "pop"}, dst : Written \cup {Slot},
                        src : Written \cup {Slot}])
       /\ Len(out') = Len(out) + 1 /\ Len(out) \in Nat
       /\ DOMAIN out = 1..Len(out) /\ DOMAIN out' = 1..(Len(out) + 1)
       /\ \A i \in 1..Len(out) : out'[i] = out[i]
       /\ out'[Len(out) + 1] = saved
  <2>1. pushed \in Seq(Written)
        /\ out \in Seq([kind : {"push", "pop"}, dst : Written \cup {Slot},
                        src : Written \cup {Slot}])
    BY <1>1 DEF TypeOK
  <2>2. pushed' \in Seq(Written) /\ Len(pushed') = Len(pushed) + 1 /\ Len(pushed) \in Nat
    BY <1>1, <1>2, <2>1
  <2> QED BY <1>1, <1>12, <2>1, <2>2
<1>14. LoopInv'
  <2>1. PICK n \in Nat :
          /\ Len(pushed) <= n
          /\ Len(out) = n + (n - Len(pushed))
          /\ \A i \in DOMAIN out : out[i].kind = IF i <= n THEN "push" ELSE "pop"
          /\ n = Len(pushed)
    BY <1>4 DEF IInv, LoopInv
  <2>2. /\ spills = (RegSize + 8) * Len(pushed)
        /\ \A i \in DOMAIN out : out[i].kind = "push" => out[i].dst = Slot /\ out[i].src \in Written
        /\ \A i \in DOMAIN out : out[i].kind = "pop" => out[i].dst \in Written
    BY DEF IInv, LoopInv
  <2>3. n + 1 \in Nat /\ Len(out) = n /\ n = Len(pushed)
    BY <2>1
  <2>4. \A i \in DOMAIN out' : out'[i].kind = "push" /\ i <= n + 1
                                /\ out'[i].dst = Slot /\ out'[i].src \in Written
    <3> TAKE i \in DOMAIN out'
    <3>1. CASE i \in 1..Len(out)
      <4>1. i <= n /\ i <= n + 1 /\ out'[i] = out[i] /\ i \in DOMAIN out
        BY <1>13, <2>3, <3>1
      <4> QED BY <2>1, <2>2, <4>1
    <3>2. CASE i = Len(out) + 1
      BY <1>2, <1>12, <1>13, <2>3, <3>2
    <3> QED BY <1>13, <3>1, <3>2
  <2>5. /\ Len(pushed') <= n + 1
        /\ Len(out') = (n + 1) + ((n + 1) - Len(pushed'))
        /\ n + 1 = Len(pushed')
    BY <1>13, <2>3
  <2>6. spills' = (RegSize + 8) * Len(pushed')
    BY <1>1, <1>13, <2>2, SpillStep
  <2>7. \E c \in Nat :
          /\ Len(pushed') <= c
          /\ Len(out') = c + (c - Len(pushed'))
          /\ \A i \in DOMAIN out' : out'[i].kind = IF i <= c THEN "push" ELSE "pop"
          /\ c = Len(pushed')
    BY <2>3, <2>4, <2>5
  <2>8. Cyclic'
    BY <1>1, <1>5, CallStable
  <2>9. \A i \in DOMAIN out' : out'[i].kind # "pop"
    BY <2>4
  <2> QED BY <1>1, <2>4, <2>6, <2>7, <2>8, <2>9 DEF LoopInv
<1>15. TypeOK'
  <2>1. visited' \subseteq DOMAIN moves'
    BY <1>1, <1>7 DEF TypeOK
  <2>2. spills' \in Nat
    <3>1. spills \in Nat /\ RegSize \in Nat
      BY <1>1, OperandsAssumption DEF TypeOK
    <3> QED BY <1>1, <3>1
  <2>3. pc' \in 1..(Len(Text)' + 1)
    <3>1. pc = 1 /\ pc' = 1
      BY <1>1 DEF IInv, RunInv
    <3>2. Text' = result' \o out' /\ result' \in Seq(AnyInstruction)
      BY <1>1 DEF TypeOK, Text
    <3>3. Len(Text') \in Nat
      BY <1>13, <3>2
    <3> QED BY <3>1, <3>3
  <2> QED BY <1>1, <1>8, <1>13, <2>1, <2>2, <2>3 DEF TypeOK, Phases
<1>16. ChainInv' /\ LabelInv'
  <2>1. Cyclic'
    BY <1>1, <1>5, CallStable
  <2> QED BY <1>1, <2>1 DEF ChainInv, LabelInv
<1> QED BY <1>11, <1>14, <1>15, <1>16 DEF IInv

\* Exchanging two moves (lines 130-143).
LEMMA SwapInv ==
  ASSUME IInv, Swap
  PROVE  IInv'
<1> DEFINE i == Least(Conflicts)
           j == Least(ReadersAfter(i))
<1>1. /\ TypeOK /\ phase = "swap" /\ phase' = "swap" /\ Conflicts # {}
      /\ moves' = [moves EXCEPT ![i] = moves[j], ![j] = moves[i]]
      /\ UNCHANGED <<call, indexed, chain, visited, pushed, out, result, spills, pc, store, stack>>
  BY DEF IInv, Swap, processor
<1>2. /\ moves \in Seq(AnyInstruction) /\ moves # <<>> /\ DOMAIN moves = 1..Len(moves)
      /\ Len(moves) \in Nat
      /\ \A k \in DOMAIN moves : moves[k].kind = "mov" /\ moves[k].dst # moves[k].src
  BY <1>1 DEF IInv, TypeOK, MovesInv
<1>3. /\ i \in DOMAIN moves /\ j \in DOMAIN moves /\ i < j
      /\ moves[i].dst \in ParamSet /\ moves[j].src = moves[i].dst
  <2>1. Conflicts \in SUBSET Nat /\ Conflicts \subseteq DOMAIN moves
    BY <1>2 DEF Conflicts
  <2>2. i \in Conflicts
    BY <1>1, <2>1, LeastFacts
  <2>3. /\ ReadersAfter(i) # {} /\ ReadersAfter(i) \in SUBSET Nat
        /\ ReadersAfter(i) \subseteq DOMAIN moves
    <3>1. ReadersAfter(i) # {}
      BY <2>2 DEF Conflicts
    <3>2. ReadersAfter(i) \subseteq DOMAIN moves
      BY DEF ReadersAfter
    <3> QED BY <1>2, <3>1, <3>2
  <2>4. j \in ReadersAfter(i)
    BY <2>3, LeastFacts
  <2>5. i < j /\ moves[i].dst \in ParamSet /\ moves[j].src = moves[i].dst
    BY <2>4 DEF ReadersAfter
  <2> QED BY <2>1, <2>2, <2>3, <2>4, <2>5
<1> HIDE DEF i, j
<1> DEFINE p == [k \in DOMAIN moves |-> IF k = j THEN i ELSE IF k = i THEN j ELSE k]
<1>4. /\ p \in [DOMAIN moves -> DOMAIN moves] /\ DOMAIN moves' = DOMAIN moves
      /\ \A k \in DOMAIN moves : moves'[k] = moves[p[k]] /\ p[p[k]] = k
      /\ p[i] = j /\ p[j] = i /\ \A k \in DOMAIN moves \ {i, j} : p[k] = k
  BY <1>1, <1>3
<1> HIDE DEF p
<1>5. Line = moves /\ Working /\ ~Ready /\ ~Ready'
  BY <1>1 DEF Line, Working, Ready
<1>6. Numbers(moves') = Numbers(moves)
  BY <1>4 DEF Numbers
<1>7. DistinctNumbers(moves')
  <2>1. DistinctNumbers(moves)
    BY <1>5 DEF IInv, PartsInv
  <2> SUFFICES ASSUME NEW k \in DOMAIN moves, NEW l \in DOMAIN moves, moves'[k].n = moves'[l].n
               PROVE  k = l
    BY <1>4 DEF DistinctNumbers
  <2>2. p[k] = p[l]
    BY <1>4, <2>1 DEF DistinctNumbers
  <2> QED BY <1>4, <2>2
<1>8. \A k \in DOMAIN moves' :
        /\ Given(moves'[k]) \/ Redirected(moves'[k])
        /\ moves'[k].kind = "mov" /\ moves'[k].dst # moves'[k].src
  <2>1. \A k \in DOMAIN moves : Given(moves[k]) \/ Redirected(moves[k])
    BY <1>5 DEF IInv, OriginInv
  <2> QED BY <1>2, <1>4, <2>1
<1>9. moves' \in Seq(AnyInstruction) /\ moves' # <<>> /\ Len(moves') = Len(moves)
  <2>1. \A k \in DOMAIN moves : moves[k] \in AnyInstruction
    BY <1>2
  <2>2. moves' \in [1..Len(moves) -> AnyInstruction]
    <3>1. \A k \in 1..Len(moves) : moves'[k] \in AnyInstruction
      BY <1>2, <1>4, <2>1
    <3>2. moves' = [k \in DOMAIN moves |-> moves'[k]]
      BY <1>1
    <3> QED BY <1>2, <3>1, <3>2
  <2>3. moves' \in Seq(AnyInstruction) /\ Len(moves') = Len(moves)
    BY <1>2, <2>2
  <2> QED BY <1>2, <2>3
<1>10. /\ StartInv' /\ PartsInv' /\ OriginInv' /\ MovesInv' /\ PlaceInv'
       /\ PushInv' /\ AloneInv' /\ OrderInv' /\ RunInv' /\ HeightInv'
  BY <1>1, <1>6, <1>7, <1>8, <1>9, MovesFrame
<1>11. LoopInv'
  <2>1. Cyclic' = Cyclic
    BY <1>1, CallStable
  <2> QED BY <1>1, <1>5, <2>1 DEF IInv, LoopInv
<1>12. TypeOK'
  <2>1. visited' \subseteq DOMAIN moves'
    BY <1>1, <1>4 DEF TypeOK
  <2> QED BY <1>1, <1>9, <2>1 DEF TypeOK, Phases, Text
<1>13. ChainInv'
  BY <1>1 DEF ChainInv
<1>14. ASSUME ~Cyclic
       PROVE  Labels(moves')
  <2>1. \A k \in DOMAIN moves : /\ moves[k].n \in DOMAIN call /\ moves[k] = call[moves[k].n]
                                /\ moves[k].n \in Nat
    <3>1. \A k \in DOMAIN moves : Given(moves[k])
      BY <1>5, <1>14 DEF IInv, OriginInv, Redirected
    <3>2. DOMAIN call = 1..Len(call)
      BY <1>1, CallFacts
    <3> QED BY <1>1, <3>1, <3>2, OriginType
  <2>2. Labels(moves)
    BY <1>5, <1>14 DEF IInv, LabelInv
\* Neither of the two goes into r15, and the second does not take a label out of it.
  <2>3. moves[i].dst # Spill /\ moves[j].src # Spill /\ moves[j].dst # Spill
    <3>1. moves[i].dst # Spill /\ moves[j].src # Spill
      BY <1>3, OperandsAssumption
    <3>2. moves[j].src \notin Values
      BY <1>3, OperandsAssumption DEF AllRegs, Written
    <3>3. moves[j].dst = Spill => moves[j].src \in Values
      BY <1>1, <1>2, <1>3, <2>1, PairFacts
    <3> QED BY <3>1, <3>2, <3>3
\* When the first takes a label out, no other label comes after it.
  <2>4. ASSUME Through(moves[i]), NEW k \in DOMAIN moves, Into(moves[k])
        PROVE  moves[k].n < moves[i].n
    <3>1. KeepsLabel(moves[i].n) /\ call[moves[i].n].src = Spill
      BY <1>3, <2>1, <2>3, <2>4 DEF Through
    <3>2. /\ moves[j].n \in DOMAIN call /\ call[moves[j].n].kind = "mov"
          /\ call[moves[j].n].src = call[moves[i].n].dst
      BY <1>2, <1>3, <2>1
    <3>3. ~(moves[k].n > moves[i].n)
      BY <2>1, <2>4, <3>1, <3>2 DEF KeepsLabel, Into
    <3>4. moves[k].n # moves[i].n
      BY <1>3, <2>1, <2>3, <2>4 DEF Into
    <3> QED BY <1>3, <2>1, <3>3, <3>4
  <2> SUFFICES ASSUME NEW k \in DOMAIN moves, NEW l \in DOMAIN moves,
                      Into(moves'[k]), Through(moves'[l])
               PROVE  k < l <=> moves'[k].n < moves'[l].n
    BY <1>4 DEF Labels
  <2>5. p[k] = k /\ moves'[k] = moves[k] /\ Into(moves[k])
    <3>1. k # i /\ k # j
      BY <1>4, <2>3 DEF Into
    <3> QED BY <1>4, <3>1
  <2>6. l # i
    BY <1>4, <2>3 DEF Through
  <2>7. CASE l = j
    <3>1. moves'[l] = moves[i] /\ Through(moves[i])
      BY <1>4, <2>7
    <3>2. moves[k].n < moves[i].n
      BY <2>4, <2>5, <3>1
    <3>3. k < i
      BY <1>3, <2>2, <2>5, <3>1, <3>2 DEF Labels
    <3>4. k < j
      BY <1>2, <1>3, <3>3
    <3> QED BY <2>5, <2>7, <3>1, <3>2, <3>4
  <2>8. CASE l # j
    <3>1. moves'[l] = moves[l]
      BY <1>4, <2>6, <2>8
    <3> QED BY <2>2, <2>5, <3>1 DEF Labels
  <2> QED BY <2>7, <2>8
<1>15. LabelInv'
  <2>1. PICK s : s = moves'
    OBVIOUS
  <2>2. Cyclic' = Cyclic /\ Labels(s)' = Labels(s)
    BY <1>1, CallStable
  <2> QED BY <1>1, <1>14, <2>1, <2>2 DEF LabelInv, Line
<1> QED BY <1>10, <1>11, <1>12, <1>13, <1>15 DEF IInv

-----------------------------------------------------------------------------
\* Putting an element into a sequence, and taking one out of it.
Joined(r, a, u, c) ==
  /\ Len(r) = Len(a) + 1 + Len(c)
  /\ \A k \in 1..Len(a) : r[k] = a[k]
  /\ r[Len(a) + 1] = u[1]
  /\ \A k \in 1..Len(c) : r[Len(a) + 1 + k] = c[k]

LEMMA InsertFacts ==
  ASSUME NEW T, NEW a \in Seq(T), NEW u \in Seq(T), Len(u) = 1, NEW c \in Seq(T)
  PROVE  a \o u \o c \in Seq(T) /\ Joined(a \o u \o c, a, u, c)
<1> DEFINE b == a \o u
<1>1. b \in Seq(T) /\ Len(b) = Len(a) + Len(u)
      /\ \A k \in 1..(Len(a) + Len(u)) : b[k] = IF k <= Len(a) THEN a[k] ELSE u[k - Len(a)]
  BY ConcatFacts
<1> HIDE DEF b
<1>2. b \o c \in Seq(T) /\ Len(b \o c) = Len(b) + Len(c)
      /\ \A k \in 1..(Len(b) + Len(c)) :
           (b \o c)[k] = IF k <= Len(b) THEN b[k] ELSE c[k - Len(b)]
  <2>1. b \in Seq(T)
    BY <1>1
  <2> QED BY <2>1, ConcatFacts
<1>3. PICK r : r = b \o c
  OBVIOUS
<1>4. PICK n \in Nat : n = Len(a)
  OBVIOUS
<1>5. PICK m \in Nat : m = Len(c)
  OBVIOUS
<1>6. Len(b) = n + 1 /\ \A k \in 1..(n + 1) : b[k] = IF k <= n THEN a[k] ELSE u[k - n]
  BY <1>1, <1>4
<1>7. Len(r) = (n + 1) + m
      /\ \A k \in 1..((n + 1) + m) : r[k] = IF k <= n + 1 THEN b[k] ELSE c[k - (n + 1)]
  BY <1>2, <1>3, <1>5, <1>6, Zenon
<1>8. \A k \in 1..n : r[k] = a[k]
  <2> TAKE k \in 1..n
  <2>1. k \in 1..(n + 1) /\ k \in 1..((n + 1) + m) /\ k <= n /\ k <= n + 1
    OBVIOUS
  <2> QED BY <1>6, <1>7, <2>1
<1>9. r[n + 1] = u[1]
  <2>1. n + 1 \in 1..(n + 1) /\ n + 1 \in 1..((n + 1) + m) /\ ~(n + 1 <= n) /\ (n + 1) - n = 1
    OBVIOUS
  <2> QED BY <1>6, <1>7, <2>1
<1>10. \A k \in 1..m : r[n + 1 + k] = c[k]
  <2> TAKE k \in 1..m
  <2>1. /\ n + 1 + k \in 1..((n + 1) + m) /\ ~(n + 1 + k <= n + 1)
        /\ (n + 1 + k) - (n + 1) = k
    OBVIOUS
  <2> QED BY <1>7, <2>1
<1>11. Joined(r, a, u, c)
  BY <1>4, <1>5, <1>7, <1>8, <1>9, <1>10 DEF Joined
<1> QED BY <1>2, <1>3, <1>11 DEF b

LEMMA DropFacts ==
  ASSUME NEW T, NEW s \in Seq(T), NEW n \in 1..Len(s)
  PROVE  LET r == SubSeq(s, 1, n - 1) \o SubSeq(s, n + 1, Len(s))
         IN  /\ r \in Seq(T) /\ Len(r) = Len(s) - 1 /\ Len(r) \in Nat
             /\ \A k \in 1..(Len(s) - 1) : r[k] = IF k < n THEN s[k] ELSE s[k + 1]
<1> DEFINE a == SubSeq(s, 1, n - 1)
           c == SubSeq(s, n + 1, Len(s))
<1>1. n \in Nat /\ n - 1 \in Nat /\ Len(s) \in Nat /\ n <= Len(s) /\ 1 <= n
  OBVIOUS
<1>2. a \in Seq(T) /\ Len(a) = n - 1 /\ \A k \in 1..(n - 1) : a[k] = s[k]
  BY <1>1
<1>3. c \in Seq(T) /\ Len(c) = Len(s) - n /\ \A k \in 1..(Len(s) - n) : c[k] = s[k + n]
  BY <1>1
<1> HIDE DEF a, c
<1>4. a \o c \in Seq(T) /\ Len(a \o c) = (n - 1) + (Len(s) - n)
      /\ \A k \in 1..((n - 1) + (Len(s) - n)) :
           (a \o c)[k] = IF k <= n - 1 THEN a[k] ELSE c[k - (n - 1)]
  <2>1. a \o c \in Seq(T) /\ Len(a \o c) = Len(a) + Len(c)
        /\ \A k \in 1..(Len(a) + Len(c)) :
             (a \o c)[k] = IF k <= Len(a) THEN a[k] ELSE c[k - Len(a)]
    BY <1>2, <1>3, ConcatFacts
  <2>2. Len(a) = n - 1 /\ Len(c) = Len(s) - n
    BY <1>2, <1>3
  <2> QED BY <2>1, <2>2, Zenon
<1>5. (n - 1) + (Len(s) - n) = Len(s) - 1 /\ Len(s) - 1 \in Nat
  BY <1>1
<1>6. ASSUME NEW k \in 1..(Len(s) - 1)
      PROVE  (a \o c)[k] = IF k < n THEN s[k] ELSE s[k + 1]
  <2>1. k \in Nat /\ (a \o c)[k] = IF k <= n - 1 THEN a[k] ELSE c[k - (n - 1)]
    <3>1. k \in 1..((n - 1) + (Len(s) - n)) /\ k \in Nat
      BY <1>5
    <3>2. \A i \in 1..((n - 1) + (Len(s) - n)) :
            (a \o c)[i] = IF i <= n - 1 THEN a[i] ELSE c[i - (n - 1)]
      BY <1>4, Zenon
    <3> QED BY <3>1, <3>2, Zenon
  <2>2. CASE k < n
    <3>1. k \in 1..(n - 1) /\ k <= n - 1
      BY <1>1, <2>1, <2>2
    <3> QED BY <1>2, <2>1, <2>2, <3>1
  <2>3. CASE ~(k < n)
    <3>1. ~(k <= n - 1) /\ k - (n - 1) \in 1..(Len(s) - n) /\ (k - (n - 1)) + n = k + 1
      BY <1>1, <2>1, <2>3
    <3> QED BY <1>3, <2>1, <2>3, <3>1
  <2> QED BY <2>2, <2>3
<1> QED BY <1>4, <1>5, <1>6 DEF a, c

\* The ordered moves are the beginning of the result (lines 145-149).
LEMMA OrderedInv ==
  ASSUME IInv, Ordered
  PROVE  IInv'
<1> DEFINE S == {i \in DOMAIN moves : moves[i].dst # moves[i].src}
           c == Cardinality(S)
<1>1. /\ TypeOK /\ phase = "swap" /\ phase' = "place" /\ Conflicts = {}
      /\ result' = Kept(moves, S)
      /\ UNCHANGED <<call, moves, indexed, chain, visited, pushed, out, spills, pc, store, stack>>
  BY DEF IInv, Ordered, processor
<1>2. /\ moves \in Seq(AnyInstruction) /\ moves # <<>> /\ DOMAIN moves = 1..Len(moves)
      /\ Len(moves) \in Nat
      /\ \A k \in DOMAIN moves : moves[k].kind = "mov" /\ moves[k].dst # moves[k].src
  BY <1>1 DEF IInv, TypeOK, MovesInv
<1>3. S = DOMAIN moves
  BY <1>2
<1>4. /\ c \in Nat /\ result' \in Seq(AnyInstruction) /\ DOMAIN result' = 1..c
      /\ Len(result') = c
      /\ \A k \in 1..c : Nth(S, k) \in DOMAIN moves /\ result'[k] = moves[Nth(S, k)]
      /\ \A i \in DOMAIN moves : \E k \in 1..c : Nth(S, k) = i
      /\ \A k, l \in 1..c : k < l => Nth(S, k) < Nth(S, l)
  <2>1. S \in SUBSET DOMAIN moves
    BY <1>3
  <2> HIDE DEF S
  <2>2. /\ Cardinality(S) \in Nat
        /\ result' \in Seq(AnyInstruction) /\ Len(result') = Cardinality(S)
        /\ DOMAIN result' = 1..Cardinality(S)
        /\ \A k \in 1..Cardinality(S) : Nth(S, k) \in S /\ result'[k] = moves[Nth(S, k)]
        /\ \A i \in S : \E k \in 1..Cardinality(S) : Nth(S, k) = i
        /\ \A k, l \in 1..Cardinality(S) : k < l => Nth(S, k) < Nth(S, l)
    <3>1. PICK v : v = Kept(moves, S)
      OBVIOUS
    <3>2. /\ Cardinality(S) \in Nat
          /\ v \in Seq(AnyInstruction) /\ Len(v) = Cardinality(S)
          /\ DOMAIN v = 1..Cardinality(S)
          /\ \A k \in 1..Cardinality(S) : Nth(S, k) \in S /\ v[k] = moves[Nth(S, k)]
          /\ \A i \in S : \E k \in 1..Cardinality(S) : Nth(S, k) = i
          /\ \A k, l \in 1..Cardinality(S) : k < l => Nth(S, k) < Nth(S, l)
      BY <1>2, <2>1, <3>1, KeptFacts
    <3>3. result' = v
      BY <1>1, <3>1
    <3> QED BY <3>2, <3>3
  <2> HIDE DEF c
  <2> QED BY <1>3, <2>2 DEF c
<1> HIDE DEF S, c
<1>5. /\ Line = moves /\ Line' = result' /\ Working /\ Working' /\ ~Ready /\ ~Ready'
      /\ Entries' = Entries
  BY <1>1 DEF Line, Working, Ready, Entries
<1>6. \A k, l \in 1..c : k # l => (k < l \/ l < k)
  BY <1>4
<1>7. \A k, l \in 1..c : Nth(S, k) = Nth(S, l) => k = l
  <2> SUFFICES ASSUME NEW k \in 1..c, NEW l \in 1..c, Nth(S, k) = Nth(S, l), k # l PROVE FALSE
    OBVIOUS
  <2>1. Nth(S, k) < Nth(S, l) \/ Nth(S, l) < Nth(S, k)
    BY <1>4, <1>6
  <2>2. Nth(S, k) \in Nat
    BY <1>2, <1>4
  <2> QED BY <2>1, <2>2
<1>8. Numbers(result') = Numbers(moves)
  <2>1. \A k \in DOMAIN result' : \E i \in DOMAIN moves : result'[k].n = moves[i].n
    BY <1>4
  <2>2. \A i \in DOMAIN moves : \E k \in DOMAIN result' : result'[k].n = moves[i].n
    BY <1>4
  <2> QED BY <2>1, <2>2 DEF Numbers
<1>9. DistinctNumbers(result')
  <2>1. DistinctNumbers(moves)
    BY <1>5 DEF IInv, PartsInv
  <2> QED BY <1>4, <1>7, <2>1 DEF DistinctNumbers
<1>10. /\ Cyclic' = Cyclic
       /\ \A m : Given(m)' = Given(m)
       /\ \A m : Redirected(m)' = Redirected(m)
       /\ \A m : Alone(m)' = Alone(m)
  BY <1>1, CallStable
<1>11. PartsInv'
  <2>1. /\ DistinctNumbers(Entries)
        /\ Numbers(Line) \cap Numbers(Entries) = {}
        /\ Numbers(Line) \cup Numbers(Entries) = Numbers(call)
    BY <1>5 DEF IInv, PartsInv
  <2>2. /\ DistinctNumbers(Line') /\ DistinctNumbers(Entries')
        /\ Numbers(Line') \cap Numbers(Entries') = {}
        /\ Numbers(Line') \cup Numbers(Entries') = Numbers(call')
    BY <1>1, <1>5, <1>8, <1>9, <2>1
  <2> QED BY <1>5, <2>2 DEF PartsInv
<1>12. OriginInv'
  <2>1. /\ \A k \in DOMAIN moves : Given(moves[k]) \/ Redirected(moves[k])
        /\ \A k \in DOMAIN indexed : Given(indexed[k].instr)
    BY <1>5 DEF IInv, OriginInv
  <2>2. \A k \in DOMAIN result' : Given(result'[k]) \/ Redirected(result'[k])
    BY <1>4, <2>1
  <2> QED BY <1>1, <1>5, <1>10, <2>1, <2>2 DEF OriginInv
<1>13. PlaceInv'
  <2>1. Numbers(Line') = Numbers(Line)
    BY <1>5, <1>8
  <2>2. \A i \in DOMAIN indexed :
          indexed[i].at <= Cardinality(Numbers(Line)) + Cardinality(Before(indexed, indexed[i].at))
    BY <1>5 DEF IInv, PlaceInv
  <2>3. \A i \in DOMAIN indexed' :
          indexed'[i].at
            <= Cardinality(Numbers(Line')) + Cardinality(Before(indexed', indexed'[i].at))
    BY <1>1, <2>1, <2>2
  <2> QED BY <2>3 DEF PlaceInv
<1>14. PushInv'
  <2>1. \A k \in DOMAIN result' : result'[k].kind # "push"
    BY <1>2, <1>4
  <2>2. Reversed(result)'
    BY <2>1 DEF Reversed
  <2>3. \A i \in DOMAIN indexed :
          indexed[i].instr.kind = "push" =>
            /\ indexed[i].at = 0
            /\ \A j \in DOMAIN indexed :
                 indexed[j].instr.kind = "push" /\ i < j =>
                   indexed[i].instr.n < indexed[j].instr.n
    BY <1>5 DEF IInv, PushInv
  <2> QED BY <1>1, <1>2, <1>5, <2>1, <2>2, <2>3 DEF PushInv
<1>15. AloneInv'
  BY <1>1, <1>5, <1>10 DEF IInv, AloneInv
<1>16. InOrder(result')
  <2> SUFFICES ASSUME NEW k \in 1..c, NEW l \in 1..c, k < l, result'[k].dst # Spill,
                      result'[l].src = result'[k].dst
               PROVE  FALSE
    BY <1>4 DEF InOrder
  <2>1. /\ Nth(S, k) \in DOMAIN moves /\ Nth(S, l) \in DOMAIN moves /\ Nth(S, k) < Nth(S, l)
        /\ moves[Nth(S, l)].src = moves[Nth(S, k)].dst /\ moves[Nth(S, k)].dst # Spill
    BY <1>4
  <2>2. moves[Nth(S, k)].dst \in ParamSet
    BY <1>2, <2>1, InstructionFacts DEF Written
  <2>3. Nth(S, l) \in ReadersAfter(Nth(S, k))
    BY <1>2, <2>1, <2>2 DEF ReadersAfter
  <2> QED BY <1>1, <2>1, <2>3 DEF Conflicts
<1>17. OrderInv'
  BY <1>16 DEF OrderInv, InOrder
<1>18. LoopInv'
  BY <1>1, <1>5, <1>10 DEF IInv, LoopInv
<1>19. RunInv' /\ HeightInv' /\ StartInv' /\ MovesInv' /\ ChainInv'
  BY <1>1, <1>5 DEF IInv, RunInv, HeightInv, StartInv, MovesInv, ChainInv
<1>20. TypeOK'
  <2>1. pc' \in 1..(Len(Text)' + 1)
    <3>1. pc = 1 /\ pc' = 1
      BY <1>1 DEF IInv, RunInv
    <3>2. Text' = result' \o out
          /\ out \in Seq([kind : {"push", "pop"}, dst : Written \cup {Slot},
                          src : Written \cup {Slot}])
      BY <1>1 DEF TypeOK, Text
    <3>3. Len(Text') \in Nat
      BY <1>4, <3>2
    <3> QED BY <3>1, <3>3
  <2> QED BY <1>1, <1>4, <2>1 DEF TypeOK, Phases
<1>21. LabelInv'
  <2>1. ASSUME ~Cyclic
        PROVE  Labels(result')
    <3>1. Labels(moves)
      BY <1>5, <2>1 DEF IInv, LabelInv
    <3>2. \A k, l \in 1..c : k < l <=> Nth(S, k) < Nth(S, l)
      <4> SUFFICES ASSUME NEW k \in 1..c, NEW l \in 1..c, ~(k < l), Nth(S, k) < Nth(S, l)
                   PROVE  FALSE
        BY <1>4
      <4>1. k = l \/ l < k
        BY <1>4
      <4>2. Nth(S, k) \in Nat /\ Nth(S, l) \in Nat
        BY <1>2, <1>4
      <4>3. l < k => Nth(S, l) < Nth(S, k)
        BY <1>4
      <4> QED BY <4>1, <4>2, <4>3
    <3> QED BY <1>4, <3>1, <3>2 DEF Labels
  <2>2. PICK s : s = result'
    OBVIOUS
  <2>3. Cyclic' = Cyclic /\ Labels(s)' = Labels(s)
    BY <1>1, CallStable
  <2> QED BY <1>5, <2>1, <2>2, <2>3 DEF LabelInv
<1> QED BY <1>11, <1>12, <1>13, <1>14, <1>15, <1>17, <1>18, <1>19, <1>20, <1>21 DEF IInv

-----------------------------------------------------------------------------
\* Lines 151-154: an entry of the smallest position goes into the line there.
LEMMA PlaceFacts ==
  ASSUME IInv, Place
  PROVE  \E n \in DOMAIN indexed :
           /\ \A j \in DOMAIN indexed : indexed[n].at <= indexed[j].at
           /\ Stable => \A j \in DOMAIN indexed : indexed[j].at = indexed[n].at => n <= j
           /\ indexed[n].at \in 0..Len(result)
           /\ result' \in Seq(AnyInstruction) /\ DOMAIN result' = 1..(Len(result) + 1)
           /\ result'[indexed[n].at + 1] = indexed[n].instr
           /\ \A k \in 1..Len(result) :
                result[k] = result'[IF k <= indexed[n].at THEN k ELSE k + 1]
           /\ \A k \in DOMAIN result' \ {indexed[n].at + 1} :
                LET d == IF k <= indexed[n].at THEN k ELSE k - 1
                IN  d \in DOMAIN result /\ result'[k] = result[d]
           /\ indexed' \in Seq([at : Nat, instr : AnyInstruction])
           /\ DOMAIN indexed' = 1..(Len(indexed) - 1)
           /\ \A k \in DOMAIN indexed' :
                LET u == IF k < n THEN k ELSE k + 1
                IN  u \in DOMAIN indexed \ {n} /\ indexed'[k] = indexed[u]
           /\ \A j \in DOMAIN indexed \ {n} :
                \E k \in DOMAIN indexed' : j = IF k < n THEN k ELSE k + 1
<1> DEFINE E == [at : Nat, instr : AnyInstruction]
<1>1. /\ phase = "place"
      /\ indexed \in Seq(E) /\ result \in Seq(AnyInstruction)
      /\ Len(indexed) \in Nat /\ Len(result) \in Nat
      /\ DOMAIN indexed = 1..Len(indexed) /\ DOMAIN result = 1..Len(result)
      /\ \A i \in DOMAIN indexed : indexed[i] \in E
  <2>1. indexed \in Seq(E) /\ result \in Seq(AnyInstruction)
    BY DEF IInv, TypeOK
  <2> HIDE DEF E
  <2>2. \A i \in DOMAIN indexed : indexed[i] \in E
    BY <2>1
  <2>3. Len(indexed) \in Nat /\ DOMAIN indexed = 1..Len(indexed)
    BY <2>1
  <2>4. Len(result) \in Nat /\ DOMAIN result = 1..Len(result)
    BY <2>1
  <2> QED BY <2>1, <2>2, <2>3, <2>4 DEF Place
<1>2. PICK n \in NextIndexed :
        /\ result' = SubSeq(result, 1, indexed[n].at) \o <<indexed[n].instr>>
                       \o SubSeq(result, indexed[n].at + 1, Len(result))
        /\ indexed' = SubSeq(indexed, 1, n - 1) \o SubSeq(indexed, n + 1, Len(indexed))
  BY DEF Place
<1> DEFINE p == indexed[n].at
           x == indexed[n].instr
<1>3. /\ n \in DOMAIN indexed
      /\ \A j \in DOMAIN indexed : p <= indexed[j].at
  BY DEF NextIndexed
<1>4. Stable => \A j \in DOMAIN indexed : indexed[j].at = p => n <= j
  <2> SUFFICES ASSUME Stable, NEW j \in DOMAIN indexed, indexed[j].at = p, ~(n <= j)
               PROVE  FALSE
    OBVIOUS
  <2>1. j \in 1..(n - 1)
    BY <1>1, <1>3
  <2>2. \A y \in 1..(n - 1) : indexed[y].at # indexed[n].at
    BY DEF NextIndexed, Stable
  <2> QED BY <2>1, <2>2
<1>5. /\ n \in DOMAIN indexed
      /\ \A j \in DOMAIN indexed : p <= indexed[j].at
      /\ Stable => \A j \in DOMAIN indexed : indexed[j].at = p => n <= j
  BY <1>3, <1>4
<1>6. p \in Nat /\ x \in AnyInstruction /\ n \in 1..Len(indexed)
  BY <1>1, <1>5
<1>7. p <= Len(result)
  <2>1. Line = result /\ Working
    BY <1>1 DEF Line, Working
  <2>2. Before(indexed, p) = {}
    <3>1. \A j \in DOMAIN indexed : ~(indexed[j].at < p)
      BY <1>1, <1>5, <1>6
    <3> QED BY <3>1 DEF Before
  <2>3. p <= Cardinality(Numbers(result)) + Cardinality(Before(indexed, p))
    BY <1>5, <2>1 DEF IInv, PlaceInv
  <2>4. Cardinality(Numbers(result)) \in Nat /\ Cardinality(Numbers(result)) <= Len(result)
    BY <1>1, NumbersFacts
  <2>5. Cardinality({}) = 0
    BY FS_EmptySet
  <2> HIDE DEF p
  <2> QED BY <1>1, <1>6, <2>2, <2>3, <2>4, <2>5
<1>18. result' = SubSeq(result, 1, p) \o <<x>> \o SubSeq(result, p + 1, Len(result))
  BY <1>2
<1> HIDE DEF p, x
<1>8. p \in 0..Len(result)
  BY <1>1, <1>6, <1>7
<1>9. /\ result' \in Seq(AnyInstruction) /\ Len(result') = Len(result) + 1
      /\ \A k \in 1..(Len(result) + 1) :
           result'[k] = IF k <= p THEN result[k] ELSE IF k = p + 1 THEN x ELSE result[k - 1]
  <2>1. <<x>> \in Seq(AnyInstruction) /\ Len(<<x>>) = 1 /\ <<x>>[1] = x
    BY <1>6
  <2> DEFINE u == <<x>>
             a == SubSeq(result, 1, p)
             c == SubSeq(result, p + 1, Len(result))
  <2>2. u \in Seq(AnyInstruction) /\ Len(u) = 1 /\ u[1] = x /\ result' = a \o u \o c
    <3>1. u \in Seq(AnyInstruction) /\ Len(u) = 1 /\ u[1] = x
      BY <2>1
    <3>2. result' = a \o u \o c
      BY <1>18
    <3> QED BY <3>1, <3>2
  <2>3. p \in Nat /\ Len(result) \in Nat /\ p <= Len(result)
    BY <1>1, <1>8
  <2>4. a \in Seq(AnyInstruction) /\ Len(a) = p /\ \A k \in 1..p : a[k] = result[k]
    BY <1>1, <2>3
  <2>5. c \in Seq(AnyInstruction) /\ Len(c) = Len(result) - p
        /\ \A k \in 1..(Len(result) - p) : c[k] = result[k + p]
    <3>1. result \in Seq(AnyInstruction)
      BY <1>1
    <3> QED BY <2>3, <3>1
  <2> HIDE DEF a, u, c
  <2>6. result' \in Seq(AnyInstruction) /\ Joined(result', a, u, c)
    <3>1. a \in Seq(AnyInstruction) /\ u \in Seq(AnyInstruction) /\ Len(u) = 1
          /\ c \in Seq(AnyInstruction)
      BY <2>2, <2>4, <2>5
    <3> QED BY <2>2, <3>1, InsertFacts
  <2>7. /\ Len(result') = p + 1 + (Len(result) - p)
        /\ \A k \in 1..p : result'[k] = a[k]
        /\ result'[p + 1] = x
        /\ \A k \in 1..(Len(result) - p) : result'[p + 1 + k] = c[k]
    <3>1. Len(a) = p /\ Len(c) = Len(result) - p /\ u[1] = x
      BY <2>2, <2>4, <2>5
    <3>2. Joined(result', a, u, c)
      BY <2>6
    <3> QED BY <3>1, <3>2, Zenon DEF Joined
  <2>8. p + 1 + (Len(result) - p) = Len(result) + 1
    BY <2>3
  <2>9. ASSUME NEW k \in 1..(Len(result) + 1)
        PROVE  result'[k] = IF k <= p THEN result[k] ELSE IF k = p + 1 THEN x ELSE result[k - 1]
    <3>1. CASE k <= p
      <4>1. k \in 1..p
        BY <2>3, <3>1
      <4> QED BY <2>4, <2>7, <3>1, <4>1
    <3>2. CASE k = p + 1
      <4>1. ~(k <= p)
        BY <2>3, <3>2
      <4> QED BY <2>7, <3>2, <4>1
    <3>3. CASE ~(k <= p) /\ k # p + 1
      <4>1. /\ k - (p + 1) \in 1..(Len(result) - p) /\ (k - (p + 1)) + p = k - 1
            /\ p + 1 + (k - (p + 1)) = k
        BY <2>3, <3>3
      <4>2. result'[k] = result[k - 1]
        BY <2>5, <2>7, <4>1
      <4> QED BY <3>3, <4>2
    <3> QED BY <3>1, <3>2, <3>3
  <2> QED BY <2>6, <2>7, <2>8, <2>9
<1>10. DOMAIN result' = 1..(Len(result) + 1)
  BY <1>9
<1>11. result'[p + 1] = x
  <2>1. p + 1 \in 1..(Len(result) + 1) /\ ~(p + 1 <= p)
    BY <1>1, <1>8
  <2> QED BY <1>9, <2>1
<1>12. \A k \in 1..Len(result) : result[k] = result'[IF k <= p THEN k ELSE k + 1]
  <2> TAKE k \in 1..Len(result)
  <2>1. CASE k <= p
    <3>1. k \in 1..(Len(result) + 1)
      BY <1>1
    <3> QED BY <1>9, <2>1, <3>1
  <2>2. CASE ~(k <= p)
    <3>1. k + 1 \in 1..(Len(result) + 1) /\ ~(k + 1 <= p) /\ k + 1 # p + 1 /\ (k + 1) - 1 = k
      BY <1>1, <1>6, <2>2
    <3> QED BY <1>9, <2>2, <3>1
  <2> QED BY <2>1, <2>2
<1>13. \A k \in DOMAIN result' \ {p + 1} :
         LET d == IF k <= p THEN k ELSE k - 1
         IN  d \in DOMAIN result /\ result'[k] = result[d]
  <2> TAKE k \in DOMAIN result' \ {p + 1}
  <2>1. k \in 1..(Len(result) + 1) /\ k # p + 1
    BY <1>10
  <2>2. CASE k <= p
    <3>1. k \in DOMAIN result
      BY <1>1, <1>8, <2>1, <2>2
    <3> QED BY <1>9, <2>1, <2>2, <3>1
  <2>3. CASE ~(k <= p)
    <3>1. k - 1 \in DOMAIN result
      BY <1>1, <1>8, <2>1, <2>3
    <3> QED BY <1>9, <2>1, <2>3, <3>1
  <2> QED BY <2>2, <2>3
<1>14. /\ indexed' \in Seq(E) /\ Len(indexed') = Len(indexed) - 1
       /\ \A k \in 1..(Len(indexed) - 1) :
            indexed'[k] = IF k < n THEN indexed[k] ELSE indexed[k + 1]
  <2> HIDE DEF E
  <2>1. LET r == SubSeq(indexed, 1, n - 1) \o SubSeq(indexed, n + 1, Len(indexed))
        IN  /\ r \in Seq(E) /\ Len(r) = Len(indexed) - 1 /\ Len(r) \in Nat
            /\ \A k \in 1..(Len(indexed) - 1) :
                 r[k] = IF k < n THEN indexed[k] ELSE indexed[k + 1]
    BY <1>1, <1>6, DropFacts
  <2> QED BY <1>2, <2>1
<1>15. DOMAIN indexed' = 1..(Len(indexed) - 1)
  <2>1. Len(indexed') = Len(indexed) - 1 /\ indexed' \in Seq(E)
    BY <1>14
  <2> QED BY <2>1
<1>16. \A k \in DOMAIN indexed' :
         LET u == IF k < n THEN k ELSE k + 1
         IN  u \in DOMAIN indexed \ {n} /\ indexed'[k] = indexed[u]
  <2> TAKE k \in DOMAIN indexed'
  <2>1. k \in 1..(Len(indexed) - 1)
    BY <1>15
  <2>2. CASE k < n
    <3>1. k \in DOMAIN indexed \ {n}
      BY <1>1, <1>6, <2>1, <2>2
    <3> QED BY <1>14, <2>1, <2>2, <3>1
  <2>3. CASE ~(k < n)
    <3>1. k + 1 \in DOMAIN indexed \ {n}
      BY <1>1, <1>6, <2>1, <2>3
    <3> QED BY <1>14, <2>1, <2>3, <3>1
  <2> QED BY <2>2, <2>3
<1>17. \A j \in DOMAIN indexed \ {n} :
         \E k \in DOMAIN indexed' : j = IF k < n THEN k ELSE k + 1
  <2> TAKE j \in DOMAIN indexed \ {n}
  <2>1. j \in 1..Len(indexed) /\ j # n
    BY <1>1
  <2>2. CASE j < n
    <3>1. j \in 1..(Len(indexed) - 1)
      BY <1>1, <1>6, <2>1, <2>2
    <3> QED BY <1>15, <2>2, <3>1
  <2>3. CASE ~(j < n)
    <3>1. j - 1 \in 1..(Len(indexed) - 1) /\ ~(j - 1 < n) /\ (j - 1) + 1 = j
      BY <1>1, <1>6, <2>1, <2>3
    <3> QED BY <1>15, <3>1
  <2> QED BY <2>2, <2>3
<1> QED BY <1>5, <1>8, <1>9, <1>10, <1>11, <1>12, <1>13, <1>14, <1>15, <1>16, <1>17 DEF p, x

\* An entry moves from those that wait into the line.
LEMMA PlaceStep ==
  ASSUME IInv, Place
  PROVE  IInv'
<1>1. /\ TypeOK /\ phase = "place" /\ phase' = "place"
      /\ UNCHANGED <<call, moves, chain, visited, pushed, out, spills, pc, store, stack>>
  BY DEF IInv, Place, processor
<1>2. /\ result \in Seq(AnyInstruction) /\ Len(result) \in Nat /\ DOMAIN result = 1..Len(result)
      /\ Len(indexed) \in Nat /\ DOMAIN indexed = 1..Len(indexed)
      /\ \A i \in DOMAIN indexed : indexed[i].at \in Nat /\ indexed[i].instr \in AnyInstruction
  <2> DEFINE E == [at : Nat, instr : AnyInstruction]
  <2>1. indexed \in Seq(E) /\ result \in Seq(AnyInstruction)
    BY <1>1 DEF TypeOK
  <2>2. \A e \in E : e.at \in Nat /\ e.instr \in AnyInstruction
    OBVIOUS
  <2> HIDE DEF E
  <2>3. \A i \in DOMAIN indexed : indexed[i] \in E
    BY <2>1
  <2>4. Len(indexed) \in Nat /\ DOMAIN indexed = 1..Len(indexed)
    BY <2>1
  <2> QED BY <2>1, <2>2, <2>3, <2>4
<1>3. PICK n \in DOMAIN indexed :
        /\ \A j \in DOMAIN indexed : indexed[n].at <= indexed[j].at
        /\ Stable => \A j \in DOMAIN indexed : indexed[j].at = indexed[n].at => n <= j
        /\ indexed[n].at \in 0..Len(result)
        /\ result' \in Seq(AnyInstruction) /\ DOMAIN result' = 1..(Len(result) + 1)
        /\ result'[indexed[n].at + 1] = indexed[n].instr
        /\ \A k \in 1..Len(result) : result[k] = result'[IF k <= indexed[n].at THEN k ELSE k + 1]
        /\ \A k \in DOMAIN result' \ {indexed[n].at + 1} :
             LET d == IF k <= indexed[n].at THEN k ELSE k - 1
             IN  d \in DOMAIN result /\ result'[k] = result[d]
        /\ indexed' \in Seq([at : Nat, instr : AnyInstruction])
        /\ DOMAIN indexed' = 1..(Len(indexed) - 1)
        /\ \A k \in DOMAIN indexed' :
             LET u == IF k < n THEN k ELSE k + 1
             IN  u \in DOMAIN indexed \ {n} /\ indexed'[k] = indexed[u]
        /\ \A j \in DOMAIN indexed \ {n} :
             \E k \in DOMAIN indexed' : j = IF k < n THEN k ELSE k + 1
  BY PlaceFacts
<1> DEFINE p == indexed[n].at
           x == indexed[n].instr
           down(k) == IF k <= p THEN k ELSE k - 1
           up(k) == IF k < n THEN k ELSE k + 1
<1>4. p \in Nat /\ p <= Len(result) /\ n \in Nat /\ x \in AnyInstruction
  BY <1>2, <1>3
<1>5. /\ p + 1 \in DOMAIN result' /\ result'[p + 1] = x
      /\ \A k \in DOMAIN result' \ {p + 1} :
           down(k) \in DOMAIN result /\ result'[k] = result[down(k)]
      /\ \A k \in DOMAIN result : \E l \in DOMAIN result' : result'[l] = result[k]
  <2>1. p + 1 \in DOMAIN result'
    BY <1>2, <1>3, <1>4
  <2>2. \A k \in DOMAIN result : \E l \in DOMAIN result' : result'[l] = result[k]
    <3> TAKE k \in DOMAIN result
    <3>1. (IF k <= p THEN k ELSE k + 1) \in DOMAIN result'
      BY <1>2, <1>3
    <3> QED BY <1>2, <1>3, <3>1
  <2> QED BY <1>3, <2>1, <2>2
<1>6. \A k, l \in DOMAIN result' \ {p + 1} : k < l => down(k) < down(l)
  <2> SUFFICES ASSUME NEW k \in DOMAIN result', NEW l \in DOMAIN result',
                      k # p + 1, l # p + 1, k < l
               PROVE  down(k) < down(l)
    OBVIOUS
  <2>1. k \in Nat /\ l \in Nat
    BY <1>2, <1>3
  <2> HIDE DEF p
  <2> QED BY <1>4, <2>1
<1>7. /\ \A k \in DOMAIN indexed' : up(k) \in DOMAIN indexed \ {n} /\ indexed'[k] = indexed[up(k)]
      /\ \A j \in DOMAIN indexed \ {n} : \E k \in DOMAIN indexed' : j = up(k)
      /\ \A k, l \in DOMAIN indexed' : k < l => up(k) < up(l)
      /\ \A k, l \in DOMAIN indexed' : up(k) = up(l) => k = l
  <2>1. \A k \in DOMAIN indexed' : k \in Nat
    BY <1>2, <1>3
  <2>2. \A k, l \in DOMAIN indexed' : k < l => up(k) < up(l)
    BY <1>4, <2>1
  <2>3. \A k, l \in DOMAIN indexed' : up(k) = up(l) => k = l
    BY <1>4, <2>1
  <2> QED BY <1>3, <2>2, <2>3
<1>8. /\ Working /\ Working' /\ ~Ready /\ ~Ready' /\ Line = result /\ Line' = result'
      /\ DOMAIN Entries = DOMAIN indexed /\ DOMAIN Entries' = DOMAIN indexed'
      /\ \A i \in DOMAIN indexed : Entries[i] = indexed[i].instr
      /\ \A i \in DOMAIN indexed' : Entries'[i] = indexed'[i].instr
      /\ Stable' = Stable
  BY <1>1 DEF Working, Ready, Line, Entries, Stable, Entered
<1>9. /\ Cyclic' = Cyclic
      /\ \A m : Given(m)' = Given(m)
      /\ \A m : Redirected(m)' = Redirected(m)
      /\ \A m : Alone(m)' = Alone(m)
      /\ \A s : Labels(s)' = Labels(s)
  BY <1>1, CallStable
<1>10. /\ DistinctNumbers(Entries) /\ DistinctNumbers(result)
       /\ Numbers(result) \cap Numbers(Entries) = {}
       /\ Numbers(result) \cup Numbers(Entries) = Numbers(call)
  BY <1>8 DEF IInv, PartsInv
<1>11. /\ \A i \in DOMAIN indexed : Given(indexed[i].instr)
       /\ \A k \in DOMAIN result : Given(result[k]) \/ Redirected(result[k])
  BY <1>8 DEF IInv, OriginInv
<1> HIDE DEF p, x, down, up
<1>12. Given(x) /\ x.n \in Numbers(Entries) /\ x.n \notin Numbers(result)
  <2>1. Given(x) /\ Entries[n] = x
    BY <1>8, <1>11 DEF x
  <2>2. x.n \in Numbers(Entries)
    BY <1>8, <2>1 DEF Numbers
  <2> QED BY <1>10, <2>1, <2>2
<1>13. Numbers(result') = Numbers(result) \cup {x.n}
  <2>1. \A k \in DOMAIN result' : result'[k].n = x.n \/ result'[k].n \in Numbers(result)
    BY <1>5 DEF Numbers
  <2>2. x.n \in Numbers(result')
    BY <1>5 DEF Numbers
  <2>3. \A k \in DOMAIN result : result[k].n \in Numbers(result')
    BY <1>5 DEF Numbers
  <2> QED BY <2>1, <2>2, <2>3 DEF Numbers
<1>14. \A i \in DOMAIN indexed : indexed[i].instr.n = x.n => i = n
  BY <1>8, <1>10 DEF DistinctNumbers, x
<1>15. Numbers(Entries') = Numbers(Entries) \ {x.n}
  <2>1. \A k \in DOMAIN indexed' :
          indexed'[k].instr.n \in Numbers(Entries) /\ indexed'[k].instr.n # x.n
    BY <1>7, <1>8, <1>14 DEF Numbers
  <2>2. \A i \in DOMAIN indexed :
          indexed[i].instr.n # x.n =>
            \E k \in DOMAIN indexed' : indexed'[k].instr.n = indexed[i].instr.n
    BY <1>7 DEF x
  <2>3. Numbers(Entries) = {indexed[i].instr.n : i \in DOMAIN indexed}
        /\ Numbers(Entries') = {indexed'[i].instr.n : i \in DOMAIN indexed'}
    BY <1>8 DEF Numbers
  <2> QED BY <2>1, <2>2, <2>3
<1>16. DistinctNumbers(result')
  <2> SUFFICES ASSUME NEW k \in DOMAIN result', NEW l \in DOMAIN result',
                      result'[k].n = result'[l].n
               PROVE  k = l
    BY DEF DistinctNumbers
  <2>1. \A j \in DOMAIN result' \ {p + 1} : result'[j].n # x.n
    BY <1>5, <1>12 DEF Numbers
  <2>2. CASE k # p + 1 /\ l # p + 1
    <3>1. down(k) = down(l)
      BY <1>5, <1>10, <2>2 DEF DistinctNumbers
    <3>2. k \in Nat /\ l \in Nat
      BY <1>2, <1>3
    <3> QED BY <1>4, <2>2, <3>1, <3>2 DEF down
  <2> QED BY <1>5, <2>1, <2>2
<1>17. PartsInv'
  <2>1. DistinctNumbers(Entries')
    <3> SUFFICES ASSUME NEW k \in DOMAIN indexed', NEW l \in DOMAIN indexed',
                        indexed'[k].instr.n = indexed'[l].instr.n
                 PROVE  k = l
      BY <1>8 DEF DistinctNumbers
    <3>1. up(k) = up(l)
      BY <1>7, <1>8, <1>10 DEF DistinctNumbers
    <3> QED BY <1>7, <3>1
  <2>2. /\ DistinctNumbers(Line')
        /\ Numbers(Line') \cap Numbers(Entries') = {}
        /\ Numbers(Line') \cup Numbers(Entries') = Numbers(call')
    BY <1>1, <1>8, <1>10, <1>12, <1>13, <1>15, <1>16
  <2> QED BY <1>8, <2>1, <2>2 DEF PartsInv
<1>18. OriginInv'
  <2>1. \A i \in DOMAIN indexed' : Given(indexed'[i].instr)
    BY <1>7, <1>11
  <2>2. \A k \in DOMAIN result' : Given(result'[k]) \/ Redirected(result'[k])
    BY <1>5, <1>11, <1>12
  <2> QED BY <1>8, <1>9, <2>1, <2>2 DEF OriginInv
<1>19. PlaceInv'
  <2>1. /\ IsFiniteSet(Numbers(result)) /\ Cardinality(Numbers(result)) \in Nat
        /\ IsFiniteSet(Numbers(Entries))
    BY <1>2, <1>8, NumbersFacts
  <2>2. Cardinality(Numbers(result')) = Cardinality(Numbers(result)) + 1
    BY <1>12, <1>13, <2>1, FS_AddElement
  <2> SUFFICES ASSUME NEW i \in DOMAIN indexed'
               PROVE  indexed'[i].at <= Cardinality(Numbers(result'))
                                          + Cardinality(Before(indexed', indexed'[i].at))
    BY <1>8 DEF PlaceInv
  <2>3. PICK a : a = indexed[up(i)].at
    OBVIOUS
  <2>4. indexed'[i].at = a /\ a \in Nat
        /\ a <= Cardinality(Numbers(result)) + Cardinality(Before(indexed, a))
    BY <1>2, <1>7, <1>8, <2>3 DEF IInv, PlaceInv
  <2>5. Before(indexed', a) = Before(indexed, a) \ {x.n}
    <3>1. \A k \in DOMAIN indexed' :
            indexed'[k].at < a => /\ indexed'[k].instr.n \in Before(indexed, a)
                                  /\ indexed'[k].instr.n # x.n
      BY <1>7, <1>14 DEF Before
    <3>2. \A j \in DOMAIN indexed :
            indexed[j].at < a /\ indexed[j].instr.n # x.n =>
              indexed[j].instr.n \in Before(indexed', a)
      <4> SUFFICES ASSUME NEW j \in DOMAIN indexed,
                          indexed[j].at < a, indexed[j].instr.n # x.n
                   PROVE  indexed[j].instr.n \in Before(indexed', a)
        OBVIOUS
      <4>1. PICK k \in DOMAIN indexed' : j = up(k)
        BY <1>7 DEF x
      <4>2. indexed'[k] = indexed[j]
        BY <1>7, <4>1
      <4> QED BY <4>2 DEF Before
    <3> QED BY <3>1, <3>2 DEF Before
  <2>6. IsFiniteSet(Before(indexed, a)) /\ Cardinality(Before(indexed, a)) \in Nat
    <3>1. Before(indexed, a) \subseteq Numbers(Entries)
      BY <1>8 DEF Before, Numbers
    <3> QED BY <2>1, <3>1, FS_Subset, FS_CardinalityType
  <2>7. Cardinality(Before(indexed', a)) \in Nat
        /\ Cardinality(Before(indexed, a)) <= Cardinality(Before(indexed', a)) + 1
    <3>1. CASE x.n \in Before(indexed, a)
      <4>1. Cardinality(Before(indexed, a) \ {x.n}) = Cardinality(Before(indexed, a)) - 1
            /\ IsFiniteSet(Before(indexed, a) \ {x.n})
        BY <2>6, <3>1, FS_RemoveElement
      <4>2. Cardinality(Before(indexed', a)) \in Nat
        BY <2>5, <4>1, FS_CardinalityType
      <4> QED BY <2>5, <2>6, <4>1, <4>2
    <3>2. CASE x.n \notin Before(indexed, a)
      <4>1. Before(indexed', a) = Before(indexed, a)
        BY <2>5, <3>2
      <4> QED BY <2>6, <4>1
    <3> QED BY <3>1, <3>2
  <2> QED BY <2>1, <2>2, <2>4, <2>6, <2>7

<1>20. ASSUME x.kind = "push"
       PROVE  /\ p = 0
              /\ Stable => /\ \A i \in DOMAIN indexed :
                                i # n /\ indexed[i].instr.kind = "push" =>
                                  x.n < indexed[i].instr.n
                           /\ \A k \in DOMAIN result :
                                result[k].kind = "push" => result[k].n < x.n
  <2>1. /\ p = 0
        /\ \A j \in DOMAIN indexed :
             indexed[j].instr.kind = "push" /\ n < j => x.n < indexed[j].instr.n
        /\ Stable => \A k \in DOMAIN result : result[k].kind = "push" => result[k].n < x.n
    BY <1>8, <1>20 DEF IInv, PushInv, p, x
  <2>2. ASSUME Stable, NEW i \in DOMAIN indexed, i # n, indexed[i].instr.kind = "push"
        PROVE  n < i
    <3>1. indexed[i].at = 0
      BY <1>8, <2>2 DEF IInv, PushInv
    <3>2. n <= i
      BY <1>3, <2>1, <2>2, <3>1 DEF p
    <3> QED BY <1>2, <1>4, <2>2, <3>2
  <2> QED BY <2>1, <2>2
<1>21. Stable => Reversed(result')
  <2>1. Stable => Reversed(result)
    BY <1>1 DEF IInv, PushInv
  <2> SUFFICES ASSUME Stable, NEW k \in DOMAIN result', NEW l \in DOMAIN result',
                      result'[k].kind = "push", result'[l].kind = "push", k < l
               PROVE  result'[k].n > result'[l].n
    BY DEF Reversed
  <2>2. k \in Nat /\ l \in Nat /\ 1 <= k /\ k # l
    BY <1>2, <1>3
  <2>3. CASE k = p + 1
    <3>1. x.kind = "push" /\ l # p + 1
      BY <1>5, <2>2, <2>3
    <3>2. result'[l].n < x.n
      BY <1>5, <1>20, <3>1
    <3>3. result'[l].n \in Nat /\ x.n \in Nat
      <4>1. result'[l] \in AnyInstruction
        BY <1>3
      <4> QED BY <1>4, <4>1, InstructionFacts
    <3> QED BY <1>5, <2>3, <3>2, <3>3
  <2>4. CASE l = p + 1
    <3>1. p = 0
      BY <1>5, <1>20, <2>4
    <3> QED BY <2>2, <2>4, <3>1
  <2>5. CASE k # p + 1 /\ l # p + 1
    <3>1. down(k) < down(l)
      BY <1>6, <2>5
    <3> QED BY <1>5, <2>1, <2>5, <3>1 DEF Reversed
  <2> QED BY <2>3, <2>4, <2>5
<1>22. PushInv'
  <2>1. ASSUME NEW i \in DOMAIN indexed', indexed'[i].instr.kind = "push"
        PROVE  /\ indexed'[i].at = 0
               /\ \A j \in DOMAIN indexed' :
                    indexed'[j].instr.kind = "push" /\ i < j =>
                      indexed'[i].instr.n < indexed'[j].instr.n
               /\ Stable => \A k \in DOMAIN result' :
                    result'[k].kind = "push" => result'[k].n < indexed'[i].instr.n
    <3>1. up(i) \in DOMAIN indexed /\ up(i) # n /\ indexed'[i] = indexed[up(i)]
      BY <1>7
    <3>2. /\ indexed[up(i)].at = 0
          /\ \A j \in DOMAIN indexed :
               indexed[j].instr.kind = "push" /\ up(i) < j =>
                 indexed[up(i)].instr.n < indexed[j].instr.n
          /\ Stable => \A k \in DOMAIN result :
               result[k].kind = "push" => result[k].n < indexed[up(i)].instr.n
      BY <1>8, <2>1, <3>1 DEF IInv, PushInv
    <3>3. \A j \in DOMAIN indexed' :
            indexed'[j].instr.kind = "push" /\ i < j =>
              indexed'[i].instr.n < indexed'[j].instr.n
      BY <1>7, <3>1, <3>2
    <3>4. ASSUME Stable, NEW k \in DOMAIN result', result'[k].kind = "push"
          PROVE  result'[k].n < indexed'[i].instr.n
      <4>1. CASE k = p + 1
        BY <1>5, <1>20, <2>1, <3>1, <3>4, <4>1
      <4>2. CASE k # p + 1
        BY <1>5, <3>1, <3>2, <3>4, <4>2
      <4> QED BY <4>1, <4>2
    <3> QED BY <3>1, <3>2, <3>3, <3>4
  <2>2. Stable => Reversed(result)'
    BY <1>21 DEF Reversed
  <2>3. moves' # <<>>
    BY <1>1 DEF IInv, PushInv
  <2> QED BY <1>1, <1>8, <2>1, <2>2, <2>3 DEF PushInv
<1>23. AloneInv'
  <2>1. \A i \in DOMAIN indexed : indexed[i].instr.kind = "mov" => Alone(indexed[i].instr)
    BY <1>8 DEF IInv, AloneInv
  <2>2. \A i \in DOMAIN indexed' : indexed'[i].instr.kind = "mov" => Alone(indexed'[i].instr)
    BY <1>7, <2>1
  <2> QED BY <1>9, <2>2 DEF AloneInv
<1>24. ~Cyclic => InOrder(result')
  <2> SUFFICES ASSUME ~Cyclic, NEW k \in DOMAIN result', NEW l \in DOMAIN result',
                      result'[k].kind = "mov", result'[l].kind = "mov",
                      k < l, result'[k].dst # Spill, result'[l].src = result'[k].dst
               PROVE  result'[k].src = result'[k].dst
    BY DEF InOrder
  <2>1. InOrder(result) /\ (x.kind = "mov" => Alone(x))
    BY <1>1, <1>8 DEF IInv, OrderInv, AloneInv, x
  <2>2. ASSUME NEW j \in DOMAIN result'
        PROVE  Given(result'[j])
    <3>1. \A i \in DOMAIN result : Given(result[i])
      BY <1>11 DEF Redirected
    <3> QED BY <1>5, <1>12, <3>1
  <2>3. k # l
    <3>1. k \in Nat /\ l \in Nat
      BY <1>2, <1>3
    <3> QED BY <3>1
  <2>4. result'[k].n # result'[l].n
    BY <1>16, <2>3 DEF DistinctNumbers
  <2>5. CASE k = p + 1
    <3>1. result'[k] = x /\ Alone(x)
      BY <1>5, <2>1, <2>5
    <3>2. result'[l].n \in DOMAIN call /\ result'[l] = call[result'[l].n]
      BY <1>1, <2>2, OriginType
    <3> QED BY <2>4, <3>1, <3>2 DEF Alone
  <2>6. CASE l = p + 1
    <3>1. result'[l] = x /\ Alone(x)
      BY <1>5, <2>1, <2>6
    <3>2. /\ result'[k].n \in DOMAIN call /\ result'[k] = call[result'[k].n]
          /\ x.n \in DOMAIN call /\ x = call[x.n] /\ x.kind = "mov"
      BY <1>1, <1>12, <2>2, <3>1, OriginType
    <3>3. x.dst = x.src
      BY <2>4, <3>1, <3>2 DEF Alone
    <3>4. x.n = result'[k].n
      BY <1>1, <3>1, <3>2, <3>3, PairFacts
    <3> QED BY <2>4, <3>1, <3>4
  <2>7. CASE k # p + 1 /\ l # p + 1
    <3>1. down(k) < down(l)
      BY <1>6, <2>7
    <3> QED BY <1>5, <2>1, <2>7, <3>1 DEF InOrder
  <2> QED BY <2>5, <2>6, <2>7
<1>25. OrderInv'
  BY <1>9, <1>24 DEF OrderInv, InOrder
\* What is put into the line moves nothing through r15.
<1>26. ASSUME ~Cyclic
       PROVE  Labels(result')
  <2>1. Labels(result)
    BY <1>8, <1>26 DEF IInv, LabelInv
  <2>2. ~Into(x) /\ ~Through(x)
    BY <1>8 DEF IInv, AloneInv, Alone, Into, Through, x
  <2> SUFFICES ASSUME NEW k \in DOMAIN result', NEW l \in DOMAIN result',
                      Into(result'[k]), Through(result'[l])
               PROVE  k < l <=> result'[k].n < result'[l].n
    BY DEF Labels
  <2>3. k # p + 1 /\ l # p + 1
    BY <1>5, <2>2
  <2>4. k < l <=> down(k) < down(l)
    <3>1. k \in Nat /\ l \in Nat
      BY <1>2, <1>3
    <3> QED BY <1>4, <2>3, <3>1 DEF down
  <2> QED BY <1>5, <2>1, <2>3, <2>4 DEF Labels
<1>27. LabelInv'
  <2>1. PICK s : s = result'
    OBVIOUS
  <2> QED BY <1>8, <1>9, <1>26, <2>1 DEF LabelInv
<1>28. LoopInv'
  BY <1>1, <1>8, <1>9 DEF IInv, LoopInv
<1>29. RunInv' /\ HeightInv' /\ StartInv' /\ MovesInv' /\ ChainInv'
  BY <1>1, <1>8 DEF IInv, RunInv, HeightInv, StartInv, MovesInv, ChainInv
<1>30. TypeOK'
  <2>1. pc' \in 1..(Len(Text)' + 1)
    <3>1. pc = 1 /\ pc' = 1
      BY <1>1 DEF IInv, RunInv
    <3>2. Text' = result' \o out
          /\ out \in Seq([kind : {"push", "pop"}, dst : Written \cup {Slot},
                          src : Written \cup {Slot}])
      BY <1>1 DEF TypeOK, Text
    <3>3. Len(Text') \in Nat
      BY <1>3, <3>2
    <3> QED BY <3>1, <3>3
  <2> QED BY <1>1, <1>3, <2>1 DEF TypeOK, Phases
<1> QED BY <1>17, <1>18, <1>19, <1>22, <1>23, <1>25, <1>27, <1>28, <1>29, <1>30 DEF IInv

\* All entries are in the line.
LEMMA PlacedInv ==
  ASSUME IInv, Placed
  PROVE  IInv'
<1>1. /\ TypeOK /\ phase = "place" /\ phase' = "restore" /\ indexed = <<>>
      /\ UNCHANGED <<call, moves, indexed, chain, visited, pushed, out, result, spills,
                     pc, store, stack>>
  BY DEF IInv, Placed, resolver, processor
<1>2. /\ Working /\ ~Working' /\ ~Ready /\ Ready' /\ Line = result /\ Line' = result'
      /\ DOMAIN Entries = {}
  BY <1>1 DEF Working, Ready, Line, Entries
<1>3. /\ Cyclic' = Cyclic
      /\ \A m : Given(m)' = Given(m)
      /\ \A m : Redirected(m)' = Redirected(m)
  BY <1>1, CallStable
<1>4. PartsInv'
  <2>1. /\ DistinctNumbers(result) /\ Numbers(result) \cup Numbers(Entries) = Numbers(call)
    BY <1>2 DEF IInv, PartsInv
  <2>2. Numbers(Entries) = {}
    BY <1>2 DEF Numbers
  <2>3. DistinctNumbers(Line') /\ Numbers(Line') = Numbers(call')
    BY <1>1, <1>2, <2>1, <2>2
  <2> QED BY <1>2, <2>3 DEF PartsInv
<1>5. OriginInv'
  BY <1>1, <1>2, <1>3 DEF IInv, OriginInv
<1>6. PushInv'
  <2>1. moves # <<>> /\ (Stable => Reversed(result))
    BY <1>1 DEF IInv, PushInv
  <2>2. moves' # <<>> /\ (Stable' => Reversed(result)')
    BY <1>1, <2>1 DEF Reversed, Stable, Entered
  <2> QED BY <1>1, <1>2, <2>2 DEF PushInv
<1>7. OrderInv'
  <2>1. ~Cyclic => InOrder(result)
    BY <1>1 DEF IInv, OrderInv
  <2> QED BY <1>1, <1>3, <2>1 DEF OrderInv, InOrder
<1>8. LoopInv'
  BY <1>1, <1>2, <1>3 DEF IInv, LoopInv
<1>9. StartInv' /\ MovesInv' /\ ChainInv' /\ PlaceInv' /\ AloneInv' /\ RunInv' /\ HeightInv'
  BY <1>1, <1>2 DEF IInv, StartInv, MovesInv, ChainInv, PlaceInv, AloneInv, RunInv, HeightInv
<1>10. TypeOK'
  BY <1>1 DEF TypeOK, Phases, Text
<1>11. LabelInv'
  <2>1. ~Cyclic => Labels(result)
    BY <1>2 DEF IInv, LabelInv
  <2>2. Cyclic' = Cyclic /\ Labels(result)' = Labels(result)
    BY <1>1 DEF Cyclic, Movs, Labels, Into, Through, KeepsLabel
  <2> QED BY <1>1, <1>2, <2>1, <2>2 DEF LabelInv, Line
<1> QED BY <1>4, <1>5, <1>6, <1>7, <1>8, <1>9, <1>10, <1>11 DEF IInv

\* Once the result is complete it does not change.
LEMMA ReadyFrame ==
  ASSUME IInv, Ready, Ready', UNCHANGED <<call, moves, indexed, chain, visited, result>>
  PROVE  /\ StartInv' /\ PartsInv' /\ OriginInv' /\ MovesInv' /\ ChainInv' /\ PlaceInv'
         /\ PushInv' /\ AloneInv' /\ OrderInv' /\ LabelInv'
<1>1. ~Working /\ ~Working' /\ Line = result /\ Line' = result'
      /\ phase' \in {"restore", "run", "done"} /\ phase \in {"restore", "run", "done"}
  BY DEF Working, Ready, Line
<1>2. /\ Cyclic' = Cyclic
      /\ \A m : Given(m)' = Given(m)
      /\ \A m : Redirected(m)' = Redirected(m)
  BY CallStable
<1>3. PartsInv'
  <2>1. DistinctNumbers(Line') /\ Numbers(Line') = Numbers(call')
    BY <1>1 DEF IInv, PartsInv
  <2> QED BY <1>1, <2>1 DEF PartsInv
<1>4. OriginInv'
  BY <1>1, <1>2 DEF IInv, OriginInv
<1>5. PushInv'
  <2>1. IF moves = <<>> THEN Forward(result) ELSE Stable => Reversed(result)
    BY DEF IInv, PushInv
  <2>2. IF moves' = <<>> THEN Forward(result)' ELSE Stable' => Reversed(result)'
    BY <2>1 DEF Forward, Reversed, Stable, Entered
  <2> QED BY <1>1, <2>2 DEF PushInv
<1>6. OrderInv'
  <2>1. ~Cyclic => InOrder(result)
    BY DEF IInv, OrderInv
  <2> QED BY <1>2, <2>1 DEF OrderInv, InOrder
<1>7. LabelInv'
  <2>1. ~Cyclic => Labels(result)
    BY <1>1 DEF IInv, LabelInv
  <2>2. Labels(result)' = Labels(result)
    BY DEF Labels, Into, Through, KeepsLabel
  <2> QED BY <1>1, <1>2, <2>1, <2>2 DEF LabelInv
<1> QED BY <1>1, <1>3, <1>4, <1>5, <1>6, <1>7
        DEF StartInv, MovesInv, ChainInv, PlaceInv, AloneInv

\* A register of a loop is popped (lines 156-160).
LEMMA RestoreInv ==
  ASSUME IInv, Restore
  PROVE  IInv'
<1> DEFINE O == [kind : {"push", "pop"}, dst : Written \cup {Slot}, src : Written \cup {Slot}]
           last == [kind |-> "pop", dst |-> pushed[Len(pushed)], src |-> Slot]
<1>1. /\ TypeOK /\ phase = "restore" /\ phase' = "restore" /\ pushed # <<>>
      /\ out' = Append(out, last)
      /\ pushed' = SubSeq(pushed, 1, Len(pushed) - 1)
      /\ spills' = spills - RegSize - 8
      /\ UNCHANGED <<call, moves, indexed, chain, visited, result, pc, store, stack>>
  BY DEF IInv, Restore, processor
<1>2. PICK m \in Nat : Len(pushed) = m + 1
  <2>1. pushed \in Seq(Written)
    BY <1>1 DEF TypeOK
  <2>2. Len(pushed) \in Nat /\ Len(pushed) # 0
    BY <1>1, <2>1
  <2>3. Len(pushed) - 1 \in Nat /\ Len(pushed) = (Len(pushed) - 1) + 1
    BY <2>2
  <2> QED BY <2>3
<1>3. pushed' \in Seq(Written) /\ Len(pushed') = m /\ pushed[Len(pushed)] \in Written
  <2>1. pushed \in Seq(Written)
    BY <1>1 DEF TypeOK
  <2>2. m + 1 - 1 = m /\ m + 1 \in 1..Len(pushed)
    BY <1>2
  <2> QED BY <1>1, <1>2, <2>1, <2>2
<1>4. last \in O /\ last.kind = "pop" /\ last.dst \in Written
  BY <1>3
<1>5. /\ out \in Seq(O) /\ Len(out) \in Nat /\ DOMAIN out = 1..Len(out)
  BY <1>1 DEF TypeOK
<1> HIDE DEF O, last
<1>6. /\ out' \in Seq(O) /\ Len(out') = Len(out) + 1 /\ DOMAIN out' = 1..(Len(out) + 1)
      /\ \A i \in 1..Len(out) : out'[i] = out[i]
      /\ out'[Len(out) + 1] = last
  BY <1>1, <1>4, <1>5
<1>7. Ready /\ Ready'
  BY <1>1 DEF Ready
<1>8. PICK n \in Nat :
        /\ m + 1 <= n
        /\ Len(out) = n + (n - (m + 1))
        /\ \A i \in DOMAIN out : out[i].kind = IF i <= n THEN "push" ELSE "pop"
  <2>1. \E n \in Nat :
          /\ Len(pushed) <= n
          /\ Len(out) = n + (n - Len(pushed))
          /\ \A i \in DOMAIN out : out[i].kind = IF i <= n THEN "push" ELSE "pop"
    BY DEF IInv, LoopInv
  <2> QED BY <1>2, <2>1
<1>9. \A i \in DOMAIN out' : i \in 1..Len(out) \/ i = Len(out) + 1
  BY <1>5, <1>6
<1>10. \E c \in Nat :
         /\ Len(pushed') <= c
         /\ Len(out') = c + (c - Len(pushed'))
         /\ \A i \in DOMAIN out' : out'[i].kind = IF i <= c THEN "push" ELSE "pop"
  <2>1. m <= n /\ Len(out) + 1 = n + (n - m) /\ ~(Len(out) + 1 <= n)
    BY <1>8
  <2>2. \A i \in DOMAIN out' : out'[i].kind = IF i <= n THEN "push" ELSE "pop"
    BY <1>4, <1>5, <1>6, <1>8, <1>9, <2>1
  <2> QED BY <1>3, <1>6, <2>1, <2>2
<1>11. spills = (RegSize + 8) * m + RegSize + 8 /\ (RegSize + 8) * m \in Nat
  <2>1. spills = (RegSize + 8) * (m + 1)
    BY <1>2 DEF IInv, LoopInv
  <2> QED BY <2>1, SpillStep
<1>12. spills' = (RegSize + 8) * m
  <2> DEFINE q == (RegSize + 8) * m
  <2>1. q \in Nat /\ RegSize \in Nat /\ spills = q + RegSize + 8
    BY <1>11, OperandsAssumption
  <2> HIDE DEF q
  <2>2. spills' = q
    BY <1>1, <2>1
  <2> QED BY <2>2 DEF q
<1>13. LoopInv'
  <2>1. /\ \A i \in DOMAIN out' : out'[i].kind = "push" => out'[i].dst = Slot /\ out'[i].src \in Written
        /\ \A i \in DOMAIN out' : out'[i].kind = "pop" => out'[i].dst \in Written
    <3>1. /\ \A i \in DOMAIN out : out[i].kind = "push" => out[i].dst = Slot /\ out[i].src \in Written
          /\ \A i \in DOMAIN out : out[i].kind = "pop" => out[i].dst \in Written
      BY DEF IInv, LoopInv
    <3> QED BY <1>4, <1>5, <1>6, <1>9, <3>1
  <2>2. Cyclic'
    BY <1>1, CallStable DEF IInv, LoopInv
  <2> QED BY <1>1, <1>3, <1>7, <1>10, <1>12, <2>1, <2>2 DEF LoopInv
<1>14. /\ StartInv' /\ PartsInv' /\ OriginInv' /\ MovesInv' /\ ChainInv' /\ PlaceInv'
       /\ PushInv' /\ AloneInv' /\ OrderInv' /\ LabelInv'
  BY <1>1, <1>7, ReadyFrame
<1>15. RunInv' /\ HeightInv'
  BY <1>1 DEF IInv, RunInv, HeightInv
<1>16. TypeOK'
  <2>1. pc' \in 1..(Len(Text)' + 1)
    <3>1. pc = 1 /\ pc' = 1
      BY <1>1 DEF IInv, RunInv
    <3>2. Text' = result \o out' /\ result \in Seq(AnyInstruction)
      BY <1>1 DEF TypeOK, Text
    <3>3. Len(Text') \in Nat
      BY <1>6, <3>2
    <3> QED BY <3>1, <3>3
  <2>2. spills' \in Nat
    BY <1>11, <1>12
  <2> QED BY <1>1, <1>3, <1>6, <2>1, <2>2 DEF TypeOK, Phases, O
<1> QED BY <1>13, <1>14, <1>15, <1>16 DEF IInv

\* The processor starts.
LEMMA RestoredInv ==
  ASSUME IInv, Restored
  PROVE  IInv'
<1>1. /\ TypeOK /\ phase = "restore" /\ phase' = "run" /\ pushed = <<>>
      /\ UNCHANGED <<call, moves, indexed, chain, visited, pushed, out, result, spills,
                     pc, store, stack>>
  BY DEF IInv, Restored, resolver, processor
<1>2. Ready /\ Ready'
  BY <1>1 DEF Ready
<1>3. /\ StartInv' /\ PartsInv' /\ OriginInv' /\ MovesInv' /\ ChainInv' /\ PlaceInv'
      /\ PushInv' /\ AloneInv' /\ OrderInv' /\ LabelInv'
  BY <1>1, <1>2, ReadyFrame
<1>4. LoopInv'
  <2>1. Cyclic' = Cyclic
    BY <1>1, CallStable
  <2> QED BY <1>1, <1>2, <2>1 DEF IInv, LoopInv
<1>5. /\ pc = 1 /\ stack = <<>> /\ store = [l \in Locations |-> l]
      /\ result \in Seq(AnyInstruction) /\ Len(result) \in Nat /\ DOMAIN result = 1..Len(result)
  BY <1>1 DEF IInv, TypeOK, RunInv
<1>6. RunInv'
  <2>1. \A k \in DOMAIN result : ~(k < 1)
    BY <1>5
  <2>2. \A o \in AllRegs : store[o] = o
    BY <1>5 DEF Locations
  <2>3. \A k \in DOMAIN result' : ~(k < pc')
    BY <1>1, <1>5, <2>1
  <2>4. \A o \in AllRegs : store'[o] = o
    BY <1>1, <2>2
  <2> QED BY <1>1, <2>3, <2>4 DEF RunInv, Waiting, Holding
<1>7. HeightInv'
  <2>1. PICK n \in Nat :
          /\ Len(out) = n + (n - Len(pushed))
          /\ \A i \in DOMAIN out : out[i].kind = IF i <= n THEN "push" ELSE "pop"
    BY DEF IInv, LoopInv
  <2>2. Len(pushed) = 0 /\ Len(out) = n + n
    BY <1>1, <2>1
  <2>3. Done = {} /\ Cardinality(Done) = 0
    <3>1. Done = {}
      BY <1>5 DEF Done
    <3> QED BY <3>1, FS_EmptySet
  <2>4. Len(stack) = 0 /\ pc <= Len(result) + 1
    BY <1>5
  <2>5. Done' = Done
    BY <1>1 DEF Done
  <2>6. Len(stack) = Cardinality(Done) + 0
    BY <2>3, <2>4
  <2> QED BY <1>1, <2>1, <2>2, <2>4, <2>5, <2>6 DEF HeightInv
<1>8. TypeOK'
  BY <1>1 DEF TypeOK, Phases, Text
<1> QED BY <1>3, <1>4, <1>6, <1>7, <1>8 DEF IInv

-----------------------------------------------------------------------------
OutInstruction == [kind : {"push", "pop"}, dst : Written \cup {Slot}, src : Written \cup {Slot}]

\* The processor runs the result, and then what push and pop appended.
LEMMA TextFacts ==
  ASSUME TypeOK
  PROVE  /\ result \in Seq(AnyInstruction) /\ out \in Seq(OutInstruction)
         /\ Len(result) \in Nat /\ Len(out) \in Nat
         /\ DOMAIN result = 1..Len(result) /\ DOMAIN out = 1..Len(out)
         /\ Len(Text) = Len(result) + Len(out)
         /\ \A k \in 1..Len(result) : Text[k] = result[k]
         /\ \A k \in 1..Len(out) : Text[Len(result) + k] = out[k]
<1>1. result \in Seq(AnyInstruction) /\ out \in Seq(OutInstruction)
  BY DEF TypeOK, OutInstruction
<1>2. Len(result) \in Nat /\ Len(out) \in Nat
      /\ DOMAIN result = 1..Len(result) /\ DOMAIN out = 1..Len(out)
  BY <1>1
<1> DEFINE T == AnyInstruction \cup OutInstruction
<1>3. result \in Seq(T) /\ out \in Seq(T)
  BY <1>1, SeqSubset
<1> HIDE DEF T
<1>4. /\ Len(Text) = Len(result) + Len(out)
      /\ \A k \in 1..(Len(result) + Len(out)) :
           Text[k] = IF k <= Len(result) THEN result[k] ELSE out[k - Len(result)]
  BY <1>3, ConcatFacts DEF Text
<1>5. \A k \in 1..Len(result) : Text[k] = result[k]
  <2> TAKE k \in 1..Len(result)
  <2>1. k \in 1..(Len(result) + Len(out)) /\ k <= Len(result)
    BY <1>2
  <2> QED BY <1>4, <2>1
<1>6. \A k \in 1..Len(out) : Text[Len(result) + k] = out[k]
  <2> TAKE k \in 1..Len(out)
  <2>1. /\ Len(result) + k \in 1..(Len(result) + Len(out)) /\ ~(Len(result) + k <= Len(result))
        /\ (Len(result) + k) - Len(result) = k
    BY <1>2
  <2> QED BY <1>4, <2>1
<1> QED BY <1>1, <1>2, <1>4, <1>5, <1>6

\* What an operand holds, and where nothing can be held.
Contents == Locations \cup Values \cup {Slot}
LEMMA ValueFacts ==
  ASSUME TypeOK
  PROVE  /\ store \in [Locations -> Contents] /\ stack \in Seq(Contents)
         /\ \A o \in Contents : Value(o) \in Contents
         /\ \A o \in AllRegs : o \in Locations /\ Value(o) = store[o] /\ o \notin Cells
         /\ \A o \in Values \cup {Slot} : Value(o) = o
         /\ Written \subseteq AllRegs /\ Cells \subseteq Locations /\ Slot \notin Cells
<1>1. store \in [Locations -> Contents] /\ stack \in Seq(Contents)
  BY DEF TypeOK, Contents
<1>2. \A o \in Contents : Value(o) \in Contents
  BY <1>1 DEF Value
<1>3. \A o \in AllRegs : o \in Locations /\ Value(o) = store[o] /\ o \notin Cells
  BY OperandsAssumption DEF Value, Locations
<1>4. \A o \in Values \cup {Slot} : Value(o) = o
  BY OperandsAssumption DEF Value, Locations
<1> QED BY <1>1, <1>2, <1>3, <1>4, OperandsAssumption DEF AllRegs, Locations


LEMMA DoneFacts ==
  ASSUME TypeOK
  PROVE  IsFiniteSet(Done) /\ Cardinality(Done) \in Nat
<1>1. Done \in SUBSET (1..Len(result)) /\ Len(result) \in Nat
  BY TextFacts DEF Done
<1> QED BY <1>1, BelowFacts

\* An instruction of the result is run.
LEMMA RunResult ==
  ASSUME IInv, Execute, pc <= Len(result)
  PROVE  TypeOK' /\ RunInv' /\ HeightInv'
<1> DEFINE m == result[pc]
<1>1. /\ TypeOK /\ phase = "run" /\ phase' = "run" /\ pc' = pc + 1
      /\ UNCHANGED <<call, moves, indexed, chain, visited, pushed, out, result, spills>>
  BY DEF IInv, Execute, resolver
<1>2. /\ result \in Seq(AnyInstruction) /\ out \in Seq(OutInstruction)
      /\ Len(result) \in Nat /\ Len(out) \in Nat /\ DOMAIN result = 1..Len(result)
      /\ Len(Text) = Len(result) + Len(out)
      /\ \A k \in 1..Len(result) : Text[k] = result[k]
  BY <1>1, TextFacts
<1>3. pc \in Nat /\ pc \in DOMAIN result /\ Text[pc] = m
  <2>1. pc \in 1..(Len(Text) + 1)
    BY <1>1 DEF TypeOK
  <2> QED BY <1>2, <2>1
<1>4. /\ store \in [Locations -> Contents] /\ stack \in Seq(Contents)
      /\ \A o \in Contents : Value(o) \in Contents
      /\ \A o \in AllRegs : o \in Locations /\ Value(o) = store[o] /\ o \notin Cells
      /\ \A o \in Values \cup {Slot} : Value(o) = o
      /\ Written \subseteq AllRegs /\ Cells \subseteq Locations
  BY <1>1, ValueFacts
<1>5. /\ m \in AnyInstruction /\ m.kind \in {"mov", "stay", "first", "push"}
      /\ m.src \in Contents /\ m.dst \in Written \cup Cells
      /\ m.kind = "mov" => m.dst \in Written
      /\ m.dst \in Locations
  <2>1. m \in AnyInstruction
    BY <1>2, <1>3
  <2> HIDE DEF m
  <2>2. /\ m.kind \in {"mov", "stay", "first", "push"} /\ m.src \in Sources \cup {Slot}
        /\ m.dst \in Written \cup Cells /\ (m.kind = "mov" => m.dst \in Written)
    BY <2>1, InstructionFacts
  <2>3. m.dst \in Locations
    BY <1>4, <2>2
  <2> QED BY <1>4, <2>1, <2>2, <2>3 DEF Contents, Sources
<1> HIDE DEF m
<1>6. /\ store' = IF m.kind = "push" THEN store ELSE [store EXCEPT ![m.dst] = Value(m.src)]
      /\ stack' = IF m.kind = "push" THEN Append(stack, Value(m.src)) ELSE stack
  <2>1. CASE m.kind = "push"
    BY <1>3, <1>5, <2>1 DEF Execute
  <2>2. CASE m.kind # "push"
    BY <1>3, <1>5, <2>2 DEF Execute
  <2> QED BY <2>1, <2>2
<1>7. /\ store' \in [Locations -> Contents] /\ (m.kind # "push" => store'[m.dst] = Value(m.src))
      /\ \A o \in Locations : o # m.dst \/ m.kind = "push" => store'[o] = store[o]
      /\ stack' \in Seq(Contents)
      /\ Len(stack') = IF m.kind = "push" THEN Len(stack) + 1 ELSE Len(stack)
  <2>1. Value(m.src) \in Contents
    BY <1>4, <1>5
  <2>2. CASE m.kind = "push"
    BY <1>4, <1>6, <2>1, <2>2
  <2>3. CASE m.kind # "push"
    <3>1. /\ store' \in [Locations -> Contents] /\ store'[m.dst] = Value(m.src)
          /\ \A o \in Locations : o # m.dst => store'[o] = store[o]
      BY <1>4, <1>5, <1>6, <2>1, <2>3
    <3> QED BY <1>4, <1>6, <2>3, <3>1
  <2> QED BY <2>2, <2>3
<1>8. TypeOK'
  <2>1. pc' \in 1..(Len(Text)' + 1)
    <3>1. Text' = Text
      BY <1>1 DEF Text
    <3>2. pc + 1 \in 1..(Len(Text) + 1)
      BY <1>2, <1>3
    <3> QED BY <1>1, <3>1, <3>2
  <2> QED BY <1>1, <1>7, <2>1 DEF TypeOK, Phases, Contents
<1>9. ASSUME ~Cyclic, SmallCopies,
             NEW k \in DOMAIN result, result[k].kind = "mov", result[k].dst # Spill
      PROVE  /\ k < pc + 1 /\ KeepsLabel(result[k].n) =>
                  store'[result[k].dst] = Argument(result[k].n)
             /\ k >= pc + 1 /\ result[k].src \in AllRegs \ {Spill} =>
                  store'[result[k].src] = result[k].src
             /\ k >= pc + 1 /\ result[k].src = Spill /\ KeepsLabel(result[k].n) =>
                  \A j \in DOMAIN result :
                    result[j].n = result[k].n - 1 /\ j < pc + 1 =>
                      store'[Spill] = Argument(result[k].n)
  <2>1. \A l \in DOMAIN result : /\ result[l].n \in DOMAIN call /\ result[l] = call[result[l].n]
                                 /\ result[l].n \in Nat /\ result[l].src \in AllRegs \cup Values
    <3> TAKE l \in DOMAIN result
    <3>1. Given(result[l])
      BY <1>1, <1>9 DEF IInv, OriginInv, Redirected, Ready, Line
    <3>2. result[l] \in InstructionType /\ result[l].n \in DOMAIN call /\ result[l] = call[result[l].n]
      BY <1>1, <3>1, OriginType
    <3>3. DOMAIN call = 1..Len(call)
      BY <1>1, CallFacts
    <3> QED BY <3>2, <3>3, InstructionFacts DEF Sources
  <2>2. /\ DistinctNumbers(result) /\ InOrder(result) /\ Labels(result)
        /\ Numbers(result) = DOMAIN call
    BY <1>1, <1>9, CallNumbers DEF IInv, PartsInv, OrderInv, LabelInv, Ready, Line
  <2>3. /\ k \in Nat /\ result[k].dst \in ParamSet /\ result[k].dst \in Locations
        /\ Spill \in AllRegs /\ Spill \in Locations /\ Spill \notin ParamSet
    <3>1. k \in Nat /\ result[k] \in AnyInstruction
      BY <1>2
    <3>2. result[k].dst \in Written
      BY <1>9, <3>1, InstructionFacts
    <3>3. Spill \in AllRegs
      BY DEF AllRegs, Written
    <3> QED BY <1>4, <1>9, <3>1, <3>2, <3>3, InstructionFacts DEF Written
  <2>4. /\ k < pc /\ KeepsLabel(result[k].n) => store[result[k].dst] = Argument(result[k].n)
        /\ k >= pc /\ result[k].src \in AllRegs \ {Spill} => store[result[k].src] = result[k].src
        /\ k >= pc /\ result[k].src = Spill /\ KeepsLabel(result[k].n) =>
             \A j \in DOMAIN result :
               result[j].n = result[k].n - 1 /\ j < pc => store[Spill] = Argument(result[k].n)
    <3>1. IF k < pc THEN Delivered(result[k]) ELSE Waiting(result[k]) /\ Holding(result[k])
      BY <1>1, <1>9 DEF IInv, RunInv
    <3>2. k < pc => ~(k >= pc)
      BY <1>3, <2>3
    <3>3. k >= pc => ~(k < pc)
      BY <1>3, <2>3
    <3> QED BY <3>1, <3>2, <3>3 DEF Delivered, Waiting, Holding
\* What the instruction is, and that a copy leaves the parameter registers alone.
  <2>5. /\ m = result[pc] /\ m.n \in DOMAIN call /\ m = call[m.n] /\ m.n \in Nat
        /\ m.src \in AllRegs \cup Values
        /\ m.kind \in {"stay", "first"} => m.dst \notin ParamSet
    <3>1. m = result[pc]
      BY DEF m
    <3> QED BY <1>3, <1>9, <2>1, <3>1 DEF SmallCopies
  <2>6. \A l \in DOMAIN result : result[l].src = Spill /\ result[l].kind = "mov" =>
          /\ Argument(result[l].n) = call[result[l].n - 1].src
          /\ \E j \in DOMAIN result : result[j].n = result[l].n - 1
          /\ \A j \in DOMAIN result : result[j].n = result[l].n - 1 =>
               Into(result[j]) /\ result[j].src \in Values
    <3> SUFFICES ASSUME NEW l \in DOMAIN result, result[l].src = Spill, result[l].kind = "mov"
                 PROVE  /\ Argument(result[l].n) = call[result[l].n - 1].src
                        /\ \E j \in DOMAIN result : result[j].n = result[l].n - 1
                        /\ \A j \in DOMAIN result : result[j].n = result[l].n - 1 =>
                             Into(result[j]) /\ result[j].src \in Values
      OBVIOUS
    <3>1. /\ result[l].n \in DOMAIN call /\ call[result[l].n] = result[l]
      BY <2>1
    <3>2. PICK i : i = result[l].n
      OBVIOUS
    <3>3. i - 1 \in DOMAIN call /\ call[i - 1].kind = "mov" /\ call[i - 1].dst = Spill
      BY <1>1, <3>1, <3>2, PairFacts
    <3>4. call[i - 1].src \in Values
      BY <1>1, <3>3, PairFacts
    <3>5. \E j \in DOMAIN result : result[j].n = i - 1
      BY <2>2, <3>3 DEF Numbers
    <3>6. \A j \in DOMAIN result : result[j].n = i - 1 => Into(result[j]) /\ result[j].src \in Values
      BY <2>1, <3>3, <3>4 DEF Into
    <3>7. Argument(i) = call[i - 1].src
      BY <3>1, <3>2 DEF Argument
    <3> QED BY <3>2, <3>5, <3>6, <3>7
  <2>7. CASE k < pc
    <3>1. m.kind = "mov" => m.dst # result[k].dst
      <4> SUFFICES ASSUME m.kind = "mov", m.dst = result[k].dst PROVE FALSE
        OBVIOUS
      <4>1. m.n = result[k].n
        BY <1>1, <1>9, <2>1, <2>5, PairFacts
      <4> QED BY <1>3, <2>2, <2>3, <2>5, <2>7, <4>1 DEF DistinctNumbers
    <3>2. store'[result[k].dst] = store[result[k].dst]
      BY <1>5, <1>7, <2>3, <2>5, <3>1
    <3> QED BY <1>3, <2>3, <2>4, <2>7, <3>2
  <2>8. CASE k = pc
    <3>1. result[k] = m /\ m.kind = "mov"
      BY <1>9, <2>5, <2>8
    <3>2. ASSUME KeepsLabel(m.n) PROVE Value(m.src) = Argument(m.n)
      <4>1. CASE m.src # Spill
        <5>1. Argument(m.n) = m.src
          BY <2>5, <4>1 DEF Argument
        <5>2. m.src \in AllRegs => store[m.src] = m.src
          BY <1>3, <2>3, <2>4, <2>8, <3>1, <4>1
        <5> QED BY <1>4, <2>5, <5>1, <5>2
      <4>2. CASE m.src = Spill
        <5>1. PICK j \in DOMAIN result : result[j].n = m.n - 1 /\ Into(result[j])
          BY <1>9, <2>6, <3>1, <4>2
        <5>2. Through(m)
          BY <3>1, <3>2, <4>2 DEF Through
        <5>3. result[j].n < m.n
          BY <2>5, <5>1
        <5>4. j < pc
          BY <1>3, <2>2, <2>5, <5>1, <5>2, <5>3 DEF Labels
        <5>5. store[Spill] = Argument(m.n)
          BY <1>3, <2>3, <2>4, <2>8, <3>1, <3>2, <4>2, <5>1, <5>4
        <5> QED BY <1>4, <2>3, <4>2, <5>5
      <4> QED BY <4>1, <4>2
    <3> QED BY <1>3, <1>7, <2>3, <2>8, <3>1, <3>2
  <2>9. CASE k > pc
    <3>1. ASSUME result[k].src \in AllRegs \ {Spill} PROVE store'[result[k].src] = result[k].src
      <4>1. store[result[k].src] = result[k].src /\ result[k].src \in Locations
        BY <1>3, <1>4, <2>3, <2>4, <2>9, <3>1
      <4>2. CASE m.dst = result[k].src /\ m.kind # "push"
        <5>1. m.kind = "mov"
          BY <1>4, <1>5, <2>5, <3>1, <4>2 DEF Written
        <5>2. m.src = m.dst
          BY <1>3, <1>9, <2>2, <2>5, <2>9, <3>1, <4>2, <5>1 DEF InOrder
        <5>3. Value(m.src) = store[m.src]
          BY <1>4, <3>1, <4>2, <5>2
        <5> QED BY <1>7, <4>1, <4>2, <5>2, <5>3
      <4>3. CASE m.dst # result[k].src \/ m.kind = "push"
        BY <1>7, <4>1, <4>3
      <4> QED BY <4>2, <4>3
    <3>2. ASSUME result[k].src = Spill, KeepsLabel(result[k].n),
                 NEW j \in DOMAIN result, result[j].n = result[k].n - 1, j < pc + 1
          PROVE  store'[Spill] = Argument(result[k].n)
      <4>1. /\ Argument(result[k].n) = call[result[k].n - 1].src
            /\ Into(result[j]) /\ result[j].src \in Values
        BY <1>9, <2>6, <3>2
      <4>2. CASE j = pc
        <5>1. m = result[j] /\ m.kind = "mov" /\ m.dst = Spill /\ m.src \in Values
          BY <2>5, <4>1, <4>2 DEF Into
        <5>2. Value(m.src) = m.src
          BY <1>4, <5>1
        <5>3. m.src = call[result[k].n - 1].src
          BY <2>1, <3>2, <5>1
        <5> QED BY <1>7, <4>1, <5>1, <5>2, <5>3
      <4>3. CASE j < pc
        <5>1. store[Spill] = Argument(result[k].n)
          BY <1>3, <2>3, <2>4, <2>9, <3>2, <4>3
        <5>2. CASE m.dst = Spill /\ m.kind # "push"
          <6>1. Into(m)
            <7>1. call[result[k].n].src = Spill
              BY <1>9, <2>1, <3>2
            <7>2. \A i \in DOMAIN call : call[i].dst = Spill => call[i].kind = "mov"
              BY <3>2, <7>1 DEF KeepsLabel
            <7> QED BY <2>5, <5>2, <7>2 DEF Into
          <6>2. Through(m) /\ Through(result[k])
            BY <1>9, <3>2, <6>1 DEF Into, Through
          <6>3. result[j].n < m.n
            BY <1>3, <2>2, <2>5, <4>1, <4>3, <6>2 DEF Labels
          <6>4. m.n < result[k].n
            BY <1>3, <2>2, <2>5, <2>9, <6>1, <6>2 DEF Labels
          <6> QED BY <2>1, <2>5, <3>2, <6>3, <6>4
        <5>3. CASE m.dst # Spill \/ m.kind = "push"
          BY <1>7, <2>3, <5>1, <5>3
        <5> QED BY <5>2, <5>3
      <4> QED BY <1>2, <1>3, <3>2, <4>2, <4>3
    <3> QED BY <1>3, <2>3, <2>9, <3>1, <3>2
  <2> QED BY <1>3, <2>3, <2>7, <2>8, <2>9
<1>10. RunInv'
  <2>1. /\ Cyclic' = Cyclic /\ SmallCopies' = SmallCopies
        /\ \A i : KeepsLabel(i)' = KeepsLabel(i) /\ Argument(i)' = Argument(i)
    BY <1>1, CallStable
  <2> SUFFICES ASSUME ~Cyclic, SmallCopies,
                      NEW k \in DOMAIN result, result[k].kind = "mov", result[k].dst # Spill
               PROVE  (IF k < pc THEN Delivered(result[k])
                       ELSE Waiting(result[k]) /\ Holding(result[k]))'
    BY <1>1, <2>1 DEF RunInv
  <2>2. k \in Nat /\ (~(k < pc + 1) => k >= pc + 1)
    BY <1>2, <1>3
  <2>3. k < pc + 1 => Delivered(result[k])'
    BY <1>1, <1>9, <2>1 DEF Delivered
  <2>4. k >= pc + 1 => Waiting(result[k])' /\ Holding(result[k])'
    BY <1>1, <1>9, <2>1 DEF Waiting, Holding
  <2> QED BY <1>1, <2>2, <2>3, <2>4
<1>11. HeightInv'
  <2>1. PICK n \in Nat :
          /\ Len(out) = n + n
          /\ \A i \in DOMAIN out : out[i].kind = IF i <= n THEN "push" ELSE "pop"
          /\ Len(stack) = Cardinality(Done)
               + (IF pc <= Len(result) + 1 THEN 0
                  ELSE IF pc <= Len(result) + n + 1 THEN pc - Len(result) - 1
                  ELSE Len(result) + n + n + 1 - pc)
    BY <1>1 DEF IInv, HeightInv
  <2>2. IsFiniteSet(Done) /\ Cardinality(Done) \in Nat /\ pc \notin Done
    BY <1>1, <1>3, DoneFacts DEF Done
  <2>3. Len(stack) = Cardinality(Done)
    BY <1>2, <1>3, <2>1, <2>2
  <2>4. Done' = IF m.kind = "push" THEN Done \cup {pc} ELSE Done
    <3>1. \A k \in DOMAIN result : k < pc + 1 <=> k < pc \/ k = pc
      BY <1>2, <1>3
    <3> QED BY <1>1, <1>3, <3>1 DEF Done, m
  <2>5. Len(stack') = Cardinality(Done')
    <3>1. Cardinality(Done \cup {pc}) = Cardinality(Done) + 1
      BY <2>2, FS_AddElement
    <3> QED BY <1>7, <2>3, <2>4, <3>1
  <2>6. pc' <= Len(result') + 1
    BY <1>1, <1>2, <1>3
  <2>7. Cardinality(Done') \in Nat
    <3>1. Cardinality(Done \cup {pc}) = Cardinality(Done) + 1
      BY <2>2, FS_AddElement
    <3> QED BY <2>2, <2>4, <3>1
  <2>8. Len(stack') = Cardinality(Done') + 0
    BY <2>5, <2>7
  <2> QED BY <1>1, <2>1, <2>6, <2>8 DEF HeightInv
<1> QED BY <1>8, <1>10, <1>11

\* A push or a pop that a broken loop left behind the result is run.
LEMMA RunRest ==
  ASSUME IInv, Execute, pc > Len(result)
  PROVE  TypeOK' /\ RunInv' /\ HeightInv'
<1>1. /\ TypeOK /\ phase = "run" /\ phase' = "run" /\ pc' = pc + 1 /\ pc <= Len(Text)
      /\ UNCHANGED <<call, moves, indexed, chain, visited, pushed, out, result, spills>>
  BY DEF IInv, Execute, resolver
<1>2. /\ result \in Seq(AnyInstruction) /\ out \in Seq(OutInstruction)
      /\ Len(result) \in Nat /\ Len(out) \in Nat /\ DOMAIN result = 1..Len(result)
      /\ DOMAIN out = 1..Len(out)
      /\ Len(Text) = Len(result) + Len(out)
      /\ \A k \in 1..Len(out) : Text[Len(result) + k] = out[k]
  BY <1>1, TextFacts
<1>3. PICK k \in 1..Len(out) : pc = Len(result) + k
  <2>1. pc \in Nat
    BY <1>1 DEF TypeOK
  <2>2. pc - Len(result) \in 1..Len(out) /\ pc = Len(result) + (pc - Len(result))
    BY <1>1, <1>2, <2>1
  <2> QED BY <2>2
<1> DEFINE m == out[k]
<1>4. /\ Text[pc] = m /\ m \in OutInstruction
      /\ m.kind \in {"push", "pop"}
      /\ m.kind = "push" => m.dst = Slot /\ m.src \in Written
      /\ m.kind = "pop" => m.dst \in Written
      /\ Cyclic
  <2>1. /\ out[k] \in OutInstruction /\ k \in DOMAIN out /\ out # <<>>
    BY <1>2
  <2>2. out[k].kind \in {"push", "pop"}
    BY <2>1 DEF OutInstruction
  <2> QED BY <1>2, <1>3, <2>1, <2>2 DEF IInv, LoopInv
<1> HIDE DEF m
<1>5. PICK n \in Nat :
        /\ Len(out) = n + n
        /\ \A i \in DOMAIN out : out[i].kind = IF i <= n THEN "push" ELSE "pop"
        /\ Len(stack) = Cardinality(Done)
             + (IF pc <= Len(result) + 1 THEN 0
                ELSE IF pc <= Len(result) + n + 1 THEN pc - Len(result) - 1
                ELSE Len(result) + n + n + 1 - pc)
  BY <1>1 DEF IInv, HeightInv
<1>6. m.kind = IF k <= n THEN "push" ELSE "pop"
  BY <1>2, <1>5 DEF m
<1>7. /\ Cardinality(Done) \in Nat /\ Done' = Done
  <2>1. \A j \in DOMAIN result : j < pc /\ j < pc + 1
    BY <1>2, <1>3
  <2> QED BY <1>1, <2>1, DoneFacts DEF Done
<1>8. k \in Nat /\ 1 <= k /\ k <= n + n
  BY <1>2, <1>5
<1>9. Len(stack) = Cardinality(Done) + (IF k <= n THEN k - 1 ELSE n + n + 1 - k)
  <2>1. PICK x, y \in Nat : x = Len(result) /\ y = Cardinality(Done)
    BY <1>2, <1>7
  <2>2. PICK h : h = Len(stack)
    OBVIOUS
  <2>3. h = y + (IF pc <= x + 1 THEN 0 ELSE IF pc <= x + n + 1 THEN pc - x - 1 ELSE x + n + n + 1 - pc)
    BY <1>5, <2>1, <2>2
  <2>4. k = pc - x /\ pc > x
    BY <1>2, <1>3, <2>1
  <2> QED BY <1>3, <1>8, <2>1, <2>2, <2>3, <2>4
<1>10. /\ store \in [Locations -> Contents] /\ stack \in Seq(Contents)
       /\ \A o \in Contents : Value(o) \in Contents
       /\ Written \subseteq Locations /\ Locations \subseteq Contents
       /\ Slot \notin Cells
  BY <1>1, ValueFacts DEF Contents
<1>11. /\ store' \in [Locations -> Contents] /\ stack' \in Seq(Contents)
       /\ Len(stack') = Cardinality(Done) + (IF k <= n THEN k ELSE n + n - k)
  <2>1. CASE m.kind = "push"
    <3>1. stack' = Append(stack, Value(m.src)) /\ store' = store
      BY <1>4, <1>10, <2>1 DEF Execute
    <3>2. Value(m.src) \in Contents
      BY <1>4, <1>10, <2>1
    <3>3. k <= n
      BY <1>6, <2>1
    <3>4. stack' \in Seq(Contents) /\ Len(stack') = Len(stack) + 1
      BY <1>10, <3>1, <3>2
    <3> QED BY <1>7, <1>8, <1>9, <1>10, <3>1, <3>3, <3>4
  <2>2. CASE m.kind = "pop"
    <3>1. /\ store' = [store EXCEPT ![m.dst] = stack[Len(stack)]]
          /\ stack' = SubSeq(stack, 1, Len(stack) - 1)
      BY <1>4, <2>2 DEF Execute
    <3>2. ~(k <= n)
      BY <1>6, <2>2
    <3>3. Len(stack) = Cardinality(Done) + (n + n + 1 - k) /\ Len(stack) \in Nat /\ Len(stack) >= 1
      BY <1>7, <1>8, <1>9, <3>2
    <3>4. stack[Len(stack)] \in Contents
      BY <1>10, <3>3
    <3>5. stack' \in Seq(Contents) /\ Len(stack') = Len(stack) - 1
      BY <1>10, <3>1, <3>3
    <3>6. store' \in [Locations -> Contents]
      BY <1>4, <1>10, <3>1, <3>4
    <3>7. Len(stack') = Cardinality(Done) + (n + n - k)
      BY <1>7, <1>8, <3>3, <3>5
    <3> QED BY <3>2, <3>5, <3>6, <3>7
  <2> QED BY <1>4, <2>1, <2>2
<1>12. TypeOK'
  <2>1. pc' \in 1..(Len(Text)' + 1)
    <3>1. Text' = Text
      BY <1>1 DEF Text
    <3>2. pc + 1 \in 1..(Len(Text) + 1)
      BY <1>2, <1>3
    <3> QED BY <1>1, <3>1, <3>2
  <2> QED BY <1>1, <1>11, <2>1 DEF TypeOK, Phases, Contents
<1>13. RunInv'
  <2>1. Cyclic'
    BY <1>1, <1>4, CallStable
  <2> QED BY <1>1, <2>1 DEF RunInv
<1>14. HeightInv'
  <2> DEFINE l == Len(result)
             p == pc'
  <2>1. p = l + k + 1 /\ l \in Nat
    BY <1>1, <1>2, <1>3
  <2>2. (IF k <= n THEN k ELSE n + n - k)
          = (IF p <= l + 1 THEN 0 ELSE IF p <= l + n + 1 THEN p - l - 1 ELSE l + n + n + 1 - p)
    <3> HIDE DEF l, p
    <3> QED BY <1>8, <2>1
  <2>3. Len(stack') = Cardinality(Done')
          + (IF pc' <= Len(result') + 1 THEN 0
             ELSE IF pc' <= Len(result') + n + 1 THEN pc' - Len(result') - 1
             ELSE Len(result') + n + n + 1 - pc')
    BY <1>1, <1>7, <1>11, <2>2
  <2> QED BY <1>1, <1>5, <2>3 DEF HeightInv
<1> QED BY <1>12, <1>13, <1>14

LEMMA ExecuteInv ==
  ASSUME IInv, Execute
  PROVE  IInv'
<1>1. /\ TypeOK /\ phase = "run" /\ phase' = "run"
      /\ UNCHANGED <<call, moves, indexed, chain, visited, pushed, out, result, spills>>
  BY DEF IInv, Execute, resolver
<1>2. Ready /\ Ready'
  BY <1>1 DEF Ready
<1>3. /\ StartInv' /\ PartsInv' /\ OriginInv' /\ MovesInv' /\ ChainInv' /\ PlaceInv'
      /\ PushInv' /\ AloneInv' /\ OrderInv' /\ LabelInv'
  BY <1>1, <1>2, ReadyFrame
<1>4. LoopInv'
  <2>1. Cyclic' = Cyclic
    BY <1>1, CallStable
  <2> QED BY <1>1, <1>2, <2>1 DEF IInv, LoopInv
<1>5. pc <= Len(result) \/ pc > Len(result)
  <2>1. pc \in Nat /\ Len(result) \in Nat
    BY <1>1, TextFacts DEF TypeOK
  <2> QED BY <2>1
<1>6. TypeOK' /\ RunInv' /\ HeightInv'
  BY <1>5, RunResult, RunRest
<1> QED BY <1>3, <1>4, <1>6 DEF IInv

LEMMA FinishInv ==
  ASSUME IInv, Finish
  PROVE  IInv'
<1>1. /\ TypeOK /\ phase = "run" /\ phase' = "done" /\ pc > Len(Text)
      /\ UNCHANGED <<call, moves, indexed, chain, visited, pushed, out, result, spills,
                     pc, store, stack>>
  BY DEF IInv, Finish, resolver, processor
<1>2. Ready /\ Ready'
  BY <1>1 DEF Ready
<1>3. /\ StartInv' /\ PartsInv' /\ OriginInv' /\ MovesInv' /\ ChainInv' /\ PlaceInv'
      /\ PushInv' /\ AloneInv' /\ OrderInv' /\ LabelInv'
  BY <1>1, <1>2, ReadyFrame
<1>4. Cyclic' = Cyclic
  BY <1>1, CallStable
<1>5. LoopInv'
  BY <1>1, <1>2, <1>4 DEF IInv, LoopInv
<1>6. RunInv'
  <2>1. SmallCopies' = SmallCopies
        /\ \A i : KeepsLabel(i)' = KeepsLabel(i) /\ Argument(i)' = Argument(i)
    BY <1>1, CallStable
  <2> QED BY <1>1, <1>4, <2>1 DEF IInv, RunInv, Text, Delivered, Waiting, Holding
<1>7. HeightInv'
  <2>1. Done' = Done
    BY <1>1 DEF Done
  <2> QED BY <1>1, <2>1 DEF IInv, HeightInv
<1>8. TypeOK'
  BY <1>1 DEF TypeOK, Phases, Text
<1> QED BY <1>3, <1>5, <1>6, <1>7, <1>8 DEF IInv

LEMMA StutterInv ==
  ASSUME IInv, UNCHANGED vars
  PROVE  IInv'
<1>1. UNCHANGED <<call, moves, indexed, chain, visited, pushed, out, result, spills, phase,
                  pc, store, stack>>
  BY DEF vars
<1>2. /\ Line' = Line /\ Entries' = Entries /\ Working' = Working /\ Ready' = Ready
      /\ Text' = Text /\ Done' = Done /\ Stable' = Stable
  BY <1>1 DEF Line, Entries, Working, Ready, Text, Done, Stable, Entered
<1>3. /\ Cyclic' = Cyclic
      /\ \A m : Given(m)' = Given(m)
      /\ \A m : Redirected(m)' = Redirected(m)
      /\ \A m : Alone(m)' = Alone(m)
      /\ SmallCopies' = SmallCopies
      /\ \A i : KeepsLabel(i)' = KeepsLabel(i) /\ Argument(i)' = Argument(i)
  BY <1>1, CallStable
<1>4. TypeOK'
  BY <1>1, <1>2 DEF IInv, TypeOK
<1>5. StartInv' /\ PartsInv' /\ MovesInv' /\ ChainInv' /\ PlaceInv'
  BY <1>1, <1>2 DEF IInv, StartInv, PartsInv, MovesInv, ChainInv, PlaceInv
<1>6. OriginInv' /\ AloneInv'
  BY <1>1, <1>2, <1>3 DEF IInv, OriginInv, AloneInv
<1>7. LoopInv'
  BY <1>1, <1>2, <1>3 DEF IInv, LoopInv
<1>8. PushInv'
  BY <1>1, <1>2 DEF IInv, PushInv, Forward, Reversed
<1>9. OrderInv'
  BY <1>1, <1>2, <1>3 DEF IInv, OrderInv, InOrder
<1>10. RunInv' /\ HeightInv'
  <2>1. RunInv'
    BY <1>1, <1>2, <1>3 DEF IInv, RunInv, Delivered, Waiting, Holding
  <2> QED BY <1>1, <1>2, <1>3, <2>1 DEF IInv, HeightInv
<1>11. LabelInv'
  BY <1>1, <1>2, <1>3 DEF IInv, LabelInv, Labels, Into, Through
<1> QED BY <1>4, <1>5, <1>6, <1>7, <1>8, <1>9, <1>10, <1>11 DEF IInv

-----------------------------------------------------------------------------
(***************************************************************************)
(* What the resolver has gathered about its call holds from the first      *)
(* instruction that is taken out to the last one the processor runs        *)
(* (move_resolver.cpp:84-162).                                             *)
(***************************************************************************)
THEOREM Invariance == Spec => []IInv
<1>1. IInv /\ [Next]_vars => IInv'
  <2> SUFFICES ASSUME IInv, [Next]_vars PROVE IInv'
    OBVIOUS
  <2>1. CASE Separate
    BY <2>1, SeparateInv
  <2>2. CASE BuildGraph
    BY <2>2, BuildGraphInv
  <2>3. CASE Follow
    BY <2>3, FollowInv
  <2>4. CASE BreakLoop
    BY <2>4, BreakLoopInv
  <2>5. CASE NoLoop
    BY <2>5, NoLoopInv
  <2>6. CASE Swap
    BY <2>6, SwapInv
  <2>7. CASE Ordered
    BY <2>7, OrderedInv
  <2>8. CASE Place
    BY <2>8, PlaceStep
  <2>9. CASE Placed
    BY <2>9, PlacedInv
  <2>10. CASE Restore
    BY <2>10, RestoreInv
  <2>11. CASE Restored
    BY <2>11, RestoredInv
  <2>12. CASE Execute
    BY <2>12, ExecuteInv
  <2>13. CASE Finish
    BY <2>13, FinishInv
  <2>14. CASE Return \/ UNCHANGED vars
    BY <2>14, StutterInv DEF Return
  <2> QED BY <2>1, <2>2, <2>3, <2>4, <2>5, <2>6, <2>7, <2>8, <2>9, <2>10, <2>11, <2>12,
             <2>13, <2>14 DEF Next
<1>2. Init => IInv
  BY InitInv
<1> QED BY <1>1, <1>2, PTL DEF Spec

(***************************************************************************)
(* Every variable keeps its type: the processor never pops more than was   *)
(* pushed, and no instruction is put behind the end of the result          *)
(* (move_resolver.cpp:84-90, 151-160).                                     *)
(***************************************************************************)
THEOREM TypeCorrect == Spec => []TypeOK
<1>1. IInv => TypeOK
  BY DEF IInv
<1> QED BY <1>1, Invariance, PTL

\* Every instruction of the call is in the complete result.
LEMMA ResultFacts ==
  ASSUME IInv, Ready
  PROVE  /\ \A k \in DOMAIN result : /\ result[k].n \in DOMAIN call
                                     /\ result[k].kind = call[result[k].n].kind
                                     /\ ~Cyclic => result[k] = call[result[k].n]
         /\ \A i \in DOMAIN call : \E k \in DOMAIN result : result[k].n = i
<1>1. TypeOK /\ Line = result
  BY DEF IInv, Line, Ready
<1>2. \A k \in DOMAIN result : Given(result[k]) \/ Redirected(result[k])
  BY <1>1 DEF IInv, OriginInv
<1>3. Numbers(result) = DOMAIN call
  BY <1>1, CallNumbers DEF IInv, PartsInv
<1>4. ASSUME NEW k \in DOMAIN result
      PROVE  /\ result[k].n \in DOMAIN call /\ result[k].kind = call[result[k].n].kind
             /\ ~Cyclic => result[k] = call[result[k].n]
  <2>1. ~Cyclic => Given(result[k])
    BY <1>2 DEF Redirected
  <2> QED BY <1>1, <1>2, <2>1, OriginType
<1>5. \A i \in DOMAIN call : \E k \in DOMAIN result : result[k].n = i
  BY <1>3 DEF Numbers
<1> QED BY <1>4, <1>5

(***************************************************************************)
(* For every call whose moves form no cycle and whose copies leave the     *)
(* parameter registers alone, each general parameter register ends up with *)
(* what its argument was before the call, whatever the number of arguments *)
(* and registers; a label does if nothing else gets into r15 before it is  *)
(* passed on (move_resolver.cpp:84-162).                                   *)
(***************************************************************************)
THEOREM AcyclicMovesDeliver == Spec => []AcyclicIsParallel
<1>1. IInv => AcyclicIsParallel
  <2> SUFFICES ASSUME IInv, phase = "done", ~Cyclic, SmallCopies,
                      NEW i \in Arguments, KeepsLabel(i)
               PROVE  store[call[i].dst] = Argument(i)
    BY DEF AcyclicIsParallel
  <2>1. i \in DOMAIN call /\ call[i].kind = "mov" /\ call[i].dst # Spill
    BY DEF Arguments
  <2>2. PICK k \in DOMAIN result : result[k].n = i /\ result[k] = call[i]
    BY <2>1, ResultFacts DEF Ready
  <2>3. k < pc
    <3>1. TypeOK /\ pc > Len(Text)
      BY DEF IInv, RunInv
    <3>2. /\ DOMAIN result = 1..Len(result) /\ Len(result) \in Nat /\ Len(out) \in Nat
          /\ Len(Text) = Len(result) + Len(out)
      BY <3>1, TextFacts
    <3>3. pc \in Nat
      BY <3>1 DEF TypeOK
    <3> QED BY <3>1, <3>2, <3>3
  <2>4. Delivered(result[k])
    BY <2>1, <2>2, <2>3 DEF IInv, RunInv
  <2> QED BY <2>2, <2>4 DEF Delivered
<1> QED BY <1>1, Invariance, PTL

(***************************************************************************)
(* In the text of every call the stack arguments stand from the last to    *)
(* the first when a register argument was left to order and the sort was   *)
(* stable (move_resolver.cpp:93-95, 151-154), and from the first to the    *)
(* last when none was left (111-115), as for constant arguments.           *)
(***************************************************************************)
THEOREM StackArgumentsOrdered == Spec => []StackArgsOrder
<1>1. IInv => StackArgsOrder
  <2> SUFFICES ASSUME IInv, Ready
               PROVE  StackArgsOrder
    BY DEF StackArgsOrder, Ready
  <2>1. IF moves = <<>> THEN Forward(result) ELSE Stable => Reversed(result)
    BY DEF IInv, PushInv
  <2> QED BY <2>1 DEF StackArgsOrder, Forward, Reversed, Stable
<1> QED BY <1>1, Invariance, PTL

(***************************************************************************)
(* However many loops were broken, the stack holds the stack arguments and *)
(* nothing else, and ctx.m_spills is what it was (move_resolver.cpp        *)
(* :124-126, 156-160).                                                     *)
(***************************************************************************)
THEOREM StackIsBalanced == Spec => []StackBalanced
<1>1. IInv => StackBalanced
  <2> SUFFICES ASSUME IInv, phase = "done"
               PROVE  spills = 0 /\ Len(stack) = Cardinality(Pushes)
    BY DEF StackBalanced
  <2>1. Ready /\ TypeOK /\ pc > Len(Text)
    BY DEF Ready, IInv, RunInv
  <2>2. spills = 0
    <3>1. pushed = <<>> /\ spills = (RegSize + 8) * Len(pushed)
      BY DEF IInv, LoopInv
    <3>2. Len(pushed) = 0
      BY <3>1
    <3>3. (RegSize + 8) * 0 = 0
      BY OperandsAssumption
    <3> QED BY <3>1, <3>2, <3>3
  <2>3. /\ DOMAIN result = 1..Len(result) /\ Len(result) \in Nat /\ Len(out) \in Nat
        /\ Len(Text) = Len(result) + Len(out)
        /\ pc \in Nat /\ pc = Len(Text) + 1
    <3>1. /\ DOMAIN result = 1..Len(result) /\ Len(result) \in Nat /\ Len(out) \in Nat
          /\ Len(Text) = Len(result) + Len(out)
      BY <2>1, TextFacts
    <3>2. pc \in 1..(Len(Text) + 1)
      BY <2>1 DEF TypeOK
    <3> QED BY <2>1, <3>1, <3>2
  <2>4. IsFiniteSet(Done) /\ Cardinality(Done) \in Nat
    BY <2>1, DoneFacts
  <2>5. Len(stack) = Cardinality(Done)
    <3>1. PICK n \in Nat :
            /\ Len(out) = n + n
            /\ Len(stack) = Cardinality(Done)
                 + (IF pc <= Len(result) + 1 THEN 0
                    ELSE IF pc <= Len(result) + n + 1 THEN pc - Len(result) - 1
                    ELSE Len(result) + n + n + 1 - pc)
      BY DEF IInv, HeightInv
    <3>2. pc = Len(result) + n + n + 1
      BY <2>3, <3>1
    <3> QED BY <2>3, <2>4, <3>1, <3>2
  <2>6. \A k \in DOMAIN result : k \in Done <=> result[k].kind = "push"
    <3>1. \A k \in DOMAIN result : k < pc
      BY <2>3
    <3> QED BY <3>1 DEF Done
  <2> DEFINE f == [k \in Done |-> result[k].n]
  <2>7. Done \subseteq DOMAIN result
    BY DEF Done
  <2>8. f \in [Done -> Pushes]
    <3>1. \A k \in Done : result[k].n \in Pushes
      BY <2>1, <2>6, <2>7, ResultFacts DEF Pushes
    <3> QED BY <3>1
  <2>9. \A i \in Pushes : \E k \in Done : f[k] = i
    BY <2>1, <2>6, ResultFacts DEF Pushes
  <2>10. \A k, l \in Done : f[k] = f[l] => k = l
    <3> SUFFICES ASSUME NEW k \in Done, NEW l \in Done, f[k] = f[l] PROVE k = l
      OBVIOUS
    <3>1. result[k].n = result[l].n
      OBVIOUS
    <3>2. DistinctNumbers(result)
      BY <2>1 DEF IInv, PartsInv, Line, Ready
    <3> QED BY <2>7, <3>1, <3>2 DEF DistinctNumbers
  <2>11. Cardinality(Pushes) = Cardinality(Done)
    <3> HIDE DEF f
    <3> QED BY <2>4, <2>8, <2>9, <2>10, SameSize
  <2> QED BY <2>2, <2>5, <2>11
<1> QED BY <1>1, Invariance, PTL
=============================================================================
