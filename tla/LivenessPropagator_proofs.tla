---------------------- MODULE LivenessPropagator_proofs ----------------------
(***************************************************************************)
(* The propagator, proved for every function: ranges stay in their blocks, *)
(* and where a value is alive on a path that is taken a range of its id    *)
(* covers it, when the blocks that only pass it on are filled.             *)
(***************************************************************************)
EXTENDS LivenessPropagator, VectorLemmas

-----------------------------------------------------------------------------
Stretch == [first : Nat, last : Nat]
Instructions(b) == First(b)..Final(b)

\* The blocks are stretches of the code, one behind the other, that leave nothing out.
Partition ==
  /\ blocks \in Seq(Stretch)
  /\ 1 \in Blocks /\ First(1) = 1
  /\ \A b \in Blocks : First(b) \in DOMAIN code /\ Final(b) \in DOMAIN code /\ First(b) <= Final(b)
  /\ \A b, c \in Blocks : b < c => Final(b) < First(c)
  /\ \A b \in Blocks : Final(b) # Len(code) => b + 1 \in Blocks /\ First(b + 1) = Final(b) + 1
  /\ \A i \in DOMAIN code : \E b \in Blocks : i \in Instructions(b)
  /\ \A b \in Blocks : \A i \in Instructions(b) : Begins(i) <=> i = First(b)

LEMMA CodeFacts ==
  ASSUME fn \in Functions
  PROVE  /\ code \in Seq(Instruction) /\ Len(code) \in Nat /\ Len(code) >= 1
         /\ DOMAIN code = 1..Len(code) /\ code[1].kind = "label"
         /\ \A i \in DOMAIN code :
              /\ code[i].kind \in Kind /\ code[i].operands \in Seq([id : Ids, role : Role])
              /\ IsJump(i) => code[i].to \in DOMAIN code /\ code[code[i].to].kind = "label"
         /\ fn.params \in Seq(Ids) /\ fn.retains \subseteq Ids
<1>1. /\ code \in Seq(Instruction) /\ code # <<>> /\ code[1].kind = "label"
      /\ fn.params \in Seq(Ids) /\ fn.retains \subseteq Ids
      /\ \A i \in DOMAIN code : IsJump(i) => code[i].to \in DOMAIN code /\ code[code[i].to].kind = "label"
  BY FunctionsAssumption DEF code, IsJump
<1>2. Len(code) \in Nat /\ Len(code) >= 1 /\ DOMAIN code = 1..Len(code)
  BY <1>1
<1>3. \A i \in DOMAIN code : code[i] \in Instruction
  <2> HIDE DEF code
  <2> QED BY <1>1
<1>4. \A i \in DOMAIN code : code[i].kind \in Kind /\ code[i].operands \in Seq([id : Ids, role : Role])
  BY <1>3 DEF Instruction
<1> QED BY <1>1, <1>2, <1>4

LEMMA CutFacts ==
  ASSUME fn \in Functions, blocks = Cut
  PROVE  Partition
<1> DEFINE S == {i \in DOMAIN code : Begins(i)}
           n == Len(code)
           v == Stretches(n, S)
<1>1. n \in Nat /\ n >= 1 /\ DOMAIN code = 1..n /\ code[1].kind = "label"
  BY CodeFacts
<1>2. S \in SUBSET (1..n) /\ 1 \in S /\ \A i \in 1..n : i \in S <=> Begins(i)
  <2>1. Begins(1)
    BY <1>1 DEF Begins
  <2> QED BY <1>1, <2>1
<1>3. blocks = v
  BY DEF Stretches, Cut
<1> HIDE DEF S, v, n
<1>4. /\ v \in Seq(Stretch)
      /\ 1 \in DOMAIN v /\ v[1].first = 1
      /\ \A b \in DOMAIN v : 1 <= v[b].first /\ v[b].first <= v[b].last /\ v[b].last <= n
      /\ \A b, d \in DOMAIN v : b < d => v[b].last < v[d].first
      /\ \A b \in DOMAIN v :
           IF b = Len(v) THEN v[b].last = n ELSE b + 1 \in DOMAIN v /\ v[b + 1].first = v[b].last + 1
      /\ \A i \in 1..n : \E b \in DOMAIN v : i \in v[b].first..v[b].last
      /\ \A b \in DOMAIN v : \A i \in v[b].first..v[b].last : i \in S <=> i = v[b].first
  BY <1>1, <1>2, StretchFacts DEF v, Stretch
<1>5. \A b \in DOMAIN v : v[b].first \in 1..n /\ v[b].last \in 1..n
  <2> SUFFICES ASSUME NEW b \in DOMAIN v PROVE v[b].first \in 1..n /\ v[b].last \in 1..n
    OBVIOUS
  <2>1. v[b] \in Stretch
    BY <1>4
  <2>2. v[b].first \in Nat /\ v[b].last \in Nat
    BY <2>1 DEF Stretch
  <2>3. PICK x \in Nat : x = v[b].first
    BY <2>2
  <2>4. PICK y \in Nat : y = v[b].last
    BY <2>2
  <2>5. 1 <= x /\ x <= y /\ y <= n
    BY <1>4, <2>3, <2>4
  <2>6. x \in 1..n /\ y \in 1..n
    BY <1>1, <2>5
  <2> QED BY <2>3, <2>4, <2>6
<1>6. Blocks = DOMAIN v /\ (\A b : First(b) = v[b].first) /\ (\A b : Final(b) = v[b].last) /\ n = Len(code)
  BY <1>3 DEF Blocks, First, Final, n
<1>7. \A b \in DOMAIN v : \A i \in v[b].first..v[b].last : i \in 1..n
  <2> SUFFICES ASSUME NEW b \in DOMAIN v, NEW i \in v[b].first..v[b].last PROVE i \in 1..n
    OBVIOUS
  <2>1. PICK x \in 1..n : x = v[b].first
    BY <1>5
  <2>2. PICK y \in 1..n : y = v[b].last
    BY <1>5
  <2> QED BY <1>1, <2>1, <2>2
<1>8. \A b \in DOMAIN v : \A i \in v[b].first..v[b].last : Begins(i) <=> i = v[b].first
  BY <1>2, <1>4, <1>7
<1>9. \A b \in DOMAIN v : v[b].last # n => b + 1 \in DOMAIN v /\ v[b + 1].first = v[b].last + 1
  BY <1>4
<1>10. \A b : Instructions(b) = v[b].first..v[b].last
  BY <1>6 DEF Instructions
<1>11. blocks \in Seq(Stretch) /\ 1 \in Blocks /\ First(1) = 1
  BY <1>3, <1>4, <1>6
<1>12. \A b \in Blocks : First(b) \in DOMAIN code /\ Final(b) \in DOMAIN code /\ First(b) <= Final(b)
  BY <1>1, <1>4, <1>5, <1>6
<1>13. /\ \A b, c \in Blocks : b < c => Final(b) < First(c)
       /\ \A b \in Blocks : Final(b) # Len(code) => b + 1 \in Blocks /\ First(b + 1) = Final(b) + 1
  BY <1>4, <1>6, <1>9
<1>14. /\ \A i \in DOMAIN code : \E b \in Blocks : i \in Instructions(b)
       /\ \A b \in Blocks : \A i \in Instructions(b) : Begins(i) <=> i = First(b)
  BY <1>1, <1>4, <1>6, <1>8, <1>10
<1> QED BY <1>11, <1>12, <1>13, <1>14 DEF Partition

LEMMA BlockTypes ==
  ASSUME fn \in Functions, Partition
  PROVE  /\ Blocks = 1..Len(blocks) /\ Len(blocks) \in Nat
         /\ \A b \in Blocks : /\ First(b) \in DOMAIN code /\ Final(b) \in DOMAIN code
                              /\ b \in Nat /\ First(b) \in Nat /\ Final(b) \in Nat
<1>1. Blocks = 1..Len(blocks) /\ Len(blocks) \in Nat
  BY DEF Partition, Blocks
<1>2. \A b \in Blocks : First(b) \in DOMAIN code /\ Final(b) \in DOMAIN code
  BY DEF Partition
<1>3. \A i \in DOMAIN code : i \in Nat
  BY CodeFacts
<1> QED BY <1>1, <1>2, <1>3

\* The block of an instruction is the only one that has it.
LEMMA BlockFacts ==
  ASSUME fn \in Functions, Partition, NEW i \in DOMAIN code
  PROVE  /\ BlockForInstruction(i) \in Blocks /\ i \in Instructions(BlockForInstruction(i))
         /\ \A b \in Blocks : i \in Instructions(b) => b = BlockForInstruction(i)
<1>1. i \in Nat
  BY CodeFacts
<1>2. \A b \in Blocks : b \in Nat /\ First(b) \in Nat /\ Final(b) \in Nat
  BY BlockTypes
<1>3. \A b \in Blocks : i \in Instructions(b) <=> First(b) <= i /\ i <= Final(b)
  BY <1>1, <1>2 DEF Instructions
<1>4. PICK b \in Blocks : i \in Instructions(b)
  BY DEF Partition
<1>5. \A c \in Blocks : i \in Instructions(c) => c = b
  <2> SUFFICES ASSUME NEW c \in Blocks, i \in Instructions(c), c # b PROVE FALSE
    OBVIOUS
  <2>1. b < c \/ c < b
    BY <1>2
  <2>2. Final(b) < First(c) \/ Final(c) < First(b)
    BY <2>1 DEF Partition
  <2>3. First(b) <= i /\ i <= Final(b) /\ First(c) <= i /\ i <= Final(c)
    BY <1>3, <1>4
  <2>4. First(b) \in Nat /\ Final(b) \in Nat /\ First(c) \in Nat /\ Final(c) \in Nat
    BY <1>2
  <2> QED BY <1>1, <2>2, <2>3, <2>4
<1>6. BlockForInstruction(i) = b
  BY <1>3, <1>4, <1>5 DEF BlockForInstruction
<1> QED BY <1>4, <1>5, <1>6

\* Inside a block control goes to the next instruction or returns.
LEMMA InsideFacts ==
  ASSUME fn \in Functions, Partition, NEW b \in Blocks, NEW i \in Instructions(b), i # Final(b)
  PROVE  /\ i \in DOMAIN code /\ i + 1 \in Instructions(b) /\ i + 1 # First(b)
         /\ Follows(i) = IF code[i].kind = "return" THEN {} ELSE {i + 1}
<1>1. First(b) \in 1..Len(code) /\ Final(b) \in 1..Len(code) /\ Len(code) \in Nat
  BY CodeFacts DEF Partition
<1>2. PICK x \in 1..Len(code) : x = First(b)
  BY <1>1
<1>3. PICK y \in 1..Len(code) : y = Final(b)
  BY <1>1
<1>4. i \in x..y /\ i # y
  BY <1>2, <1>3 DEF Instructions
<1>5. PICK n \in Nat : n = Len(code)
  BY <1>1
<1>6. i \in 1..n /\ i + 1 \in 1..n /\ i + 1 \in x..y /\ i + 1 # x /\ i + 1 > 1 /\ (i + 1) - 1 = i
  BY <1>2, <1>3, <1>4, <1>5
<1>7. i \in DOMAIN code /\ i + 1 \in DOMAIN code
  BY <1>5, <1>6, CodeFacts
<1>8. i + 1 \in Instructions(b) /\ i + 1 # First(b)
  BY <1>2, <1>3, <1>6 DEF Instructions
<1>9. ~IsJump(i)
  <2>1. ~Begins(i + 1)
    BY <1>8 DEF Partition
  <2> QED BY <1>6, <2>1 DEF Begins
<1>10. code[i].kind \notin {"jump", "branch"}
  BY <1>9 DEF IsJump
<1>11. Follows(i) = IF code[i].kind = "return" THEN {} ELSE {i + 1} \cap DOMAIN code
  BY <1>10 DEF Follows
<1> QED BY <1>7, <1>8, <1>11
Returning(b) == \E i \in Instructions(b) : code[i].kind = "return"

\* The successors of a block are blocks; wherever its end leads one of them begins.
LEMMA SuccessorFacts ==
  ASSUME fn \in Functions, Partition, NEW b \in Blocks
  PROVE  /\ Successors(b) \in Seq(Blocks)
         /\ ~Returning(b) => \A f \in Follows(Final(b)) : \E c \in Seqs!ToSet(Successors(b)) : f = First(c)
<1> DEFINE last == Final(b)
           target == BlockForInstruction(code[last].to)
           jumped == IF IsJump(last) THEN <<target>> ELSE <<>>
           falls == code[last].kind # "jump" /\ last < Len(code)
           fallen == IF falls THEN <<b + 1>> ELSE <<>>
<1>1. last \in 1..Len(code) /\ DOMAIN code = 1..Len(code) /\ Len(code) \in Nat
  BY CodeFacts, BlockTypes
<1>2. Successors(b) = IF Returning(b) THEN <<>> ELSE jumped \o fallen
  BY DEF Successors, Returns, Returning, Instructions
<1>3. IsJump(last) => code[last].to \in DOMAIN code /\ target \in Blocks /\ First(target) = code[last].to
  <2> SUFFICES ASSUME IsJump(last) PROVE code[last].to \in DOMAIN code /\ target \in Blocks /\ First(target) = code[last].to
    OBVIOUS
  <2>1. PICK i \in DOMAIN code : i = code[last].to
    BY <1>1, CodeFacts
  <2>2. Begins(i)
    BY <1>1, <2>1, CodeFacts DEF Begins
  <2>3. target \in Blocks /\ i \in Instructions(target)
    BY <2>1, BlockFacts
  <2>4. i = First(target)
    BY <2>2, <2>3 DEF Partition
  <2> QED BY <2>1, <2>3, <2>4
<1>4. falls => b + 1 \in Blocks /\ First(b + 1) = last + 1
  BY <1>1 DEF Partition
<1>5. \A f \in Follows(last) : (IsJump(last) /\ f = code[last].to) \/ (falls /\ f = last + 1)
  <2>1. \A i \in {last + 1} \cap DOMAIN code : last < Len(code)
    BY <1>1
  <2> QED BY <2>1 DEF Follows, IsJump
<1> HIDE DEF target, falls, last
<1>6. jumped \in Seq(Blocks) /\ fallen \in Seq(Blocks)
  BY <1>3, <1>4
<1>7. (IsJump(last) => jumped = <<target>>) /\ (falls => fallen = <<b + 1>>)
  OBVIOUS
<1> HIDE DEF jumped, fallen
<1>8. /\ jumped \o fallen \in Seq(Blocks)
      /\ \A k \in 1..(Len(jumped) + Len(fallen)) :
           (jumped \o fallen)[k] = IF k <= Len(jumped) THEN jumped[k] ELSE fallen[k - Len(jumped)]
      /\ Len(jumped \o fallen) = Len(jumped) + Len(fallen)
      /\ DOMAIN (jumped \o fallen) = 1..Len(jumped \o fallen)
  BY <1>6, ConcatFacts
<1>9. IsJump(last) => target \in Seqs!ToSet(jumped \o fallen)
  <2> SUFFICES ASSUME IsJump(last) PROVE target \in Seqs!ToSet(jumped \o fallen)
    OBVIOUS
  <2>1. Len(jumped) = 1 /\ jumped[1] = target /\ Len(fallen) \in Nat
    BY <1>6, <1>7
  <2>2. 1 \in DOMAIN (jumped \o fallen) /\ (jumped \o fallen)[1] = target
    BY <1>8, <2>1
  <2> QED BY <2>2 DEF Seqs!ToSet
<1>10. falls => b + 1 \in Seqs!ToSet(jumped \o fallen)
  <2> SUFFICES ASSUME falls PROVE b + 1 \in Seqs!ToSet(jumped \o fallen)
    OBVIOUS
  <2>1. PICK m \in Nat : m = Len(jumped)
    BY <1>6
  <2>2. Len(fallen) = 1 /\ fallen[1] = b + 1
    BY <1>7
  <2>3. m + 1 \in DOMAIN (jumped \o fallen) /\ (jumped \o fallen)[m + 1] = b + 1
    BY <1>8, <2>1, <2>2
  <2> QED BY <2>3 DEF Seqs!ToSet
<1>11. Successors(b) \in Seq(Blocks)
  <2>1. <<>> \in Seq(Blocks)
    OBVIOUS
  <2> QED BY <1>2, <1>8, <2>1
<1>12. ASSUME ~Returning(b), NEW f \in Follows(last)
       PROVE  \E c \in Seqs!ToSet(Successors(b)) : f = First(c)
  <2>1. Successors(b) = jumped \o fallen
    BY <1>2, <1>12
  <2>2. CASE IsJump(last) /\ f = code[last].to
    BY <1>3, <1>9, <2>1, <2>2
  <2>3. CASE falls /\ f = last + 1
    BY <1>4, <1>10, <2>1, <2>3
  <2> QED BY <1>5, <1>12, <2>2, <2>3
<1> QED BY <1>11, <1>12 DEF last

-----------------------------------------------------------------------------
\* What is reached, and where an id is alive, are least solutions of their equations.
LEMMA ClosureForm == \A S, F : Closure(S, F) = Grown(Len(code), F, S)
BY DEF Closure, Grown, Grows

LEMMA FollowsType ==
  ASSUME fn \in Functions, NEW i \in DOMAIN code
  PROVE  Follows(i) \in SUBSET DOMAIN code
<1>1. IsJump(i) => code[i].to \in DOMAIN code
  BY CodeFacts
<1> QED BY <1>1 DEF Follows, IsJump

LEMMA ReachedFacts ==
  ASSUME fn \in Functions
  PROVE  /\ Reached \in SUBSET DOMAIN code /\ 1 \in Reached
         /\ \A i \in Reached : Follows(i) \subseteq Reached
         /\ \A i \in Reached : i = 1 \/ \E j \in Reached : i \in Follows(j)
         /\ \A P \in SUBSET DOMAIN code :
              1 \in P /\ (\A i \in P : Follows(i) \subseteq P) => Reached \subseteq P
<1> DEFINE n == Len(code)
           F == [i \in DOMAIN code |-> Follows(i)]
<1>1. n \in Nat /\ DOMAIN code = 1..n /\ {1} \in SUBSET (1..n)
  BY CodeFacts
<1>2. F \in [1..n -> SUBSET (1..n)] /\ \A i \in 1..n : F[i] = Follows(i)
  BY <1>1, FollowsType
<1>3. Reached = Grown(n, F, {1})
  BY ClosureForm DEF Reached
<1> HIDE DEF n, F
<1>4. /\ Grown(n, F, {1}) \in SUBSET (1..n)
      /\ {1} \subseteq Grown(n, F, {1})
      /\ \A b \in Grown(n, F, {1}) : F[b] \subseteq Grown(n, F, {1})
      /\ \A P \in SUBSET (1..n) : {1} \subseteq P /\ (\A b \in P : F[b] \subseteq P) => Grown(n, F, {1}) \subseteq P
  BY <1>1, <1>2, GrownFacts
<1>5. \A i \in Grown(n, F, {1}) : i \in {1} \/ \E c \in Grown(n, F, {1}) : i \in F[c]
  BY <1>1, <1>2, GrownFrom
<1>6. \A P \in SUBSET DOMAIN code : 1 \in P /\ (\A i \in P : Follows(i) \subseteq P) => Reached \subseteq P
  <2> SUFFICES ASSUME NEW P \in SUBSET DOMAIN code, 1 \in P, \A i \in P : Follows(i) \subseteq P
               PROVE  Reached \subseteq P
    OBVIOUS
  <2>1. \A i \in P : F[i] \subseteq P
    BY <1>1, <1>2
  <2> QED BY <1>1, <1>3, <1>4, <2>1
<1> QED BY <1>1, <1>2, <1>3, <1>4, <1>5, <1>6

LEMMA LiveFacts ==
  ASSUME fn \in Functions, NEW id
  PROVE  /\ LiveIn(id) \in SUBSET DOMAIN code
         /\ \A i \in DOMAIN code : Does(i, id, Reads) => i \in LiveIn(id)
         /\ \A i \in DOMAIN code : ~Does(i, id, Writes) /\ Follows(i) \cap LiveIn(id) # {} => i \in LiveIn(id)
         /\ \A i \in LiveIn(id) :
              Does(i, id, Reads) \/ (~Does(i, id, Writes) /\ Follows(i) \cap LiveIn(id) # {})
<1> DEFINE n == Len(code)
           F == [i \in DOMAIN code |-> {j \in DOMAIN code : ~Does(j, id, Writes) /\ i \in Follows(j)}]
           start == {i \in DOMAIN code : Does(i, id, Reads)}
           live == Grown(n, F, start)
<1>1. n \in Nat /\ DOMAIN code = 1..n
  BY CodeFacts
<1>2. start \in SUBSET (1..n) /\ F \in [1..n -> SUBSET (1..n)]
  BY <1>1
<1>3. \A i \in 1..n : \A j : j \in F[i] <=> j \in 1..n /\ ~Does(j, id, Writes) /\ i \in Follows(j)
  BY <1>1
<1>4. \A i : i \in start <=> i \in 1..n /\ Does(i, id, Reads)
  BY <1>1
<1>5. LiveIn(id) = live
  BY ClosureForm DEF LiveIn
<1> HIDE DEF n, F, start
<1>6. /\ live \in SUBSET (1..n) /\ start \subseteq live
      /\ \A b \in live : F[b] \subseteq live
  BY <1>1, <1>2, GrownFacts
<1>7. \A i \in live : i \in start \/ \E c \in live : i \in F[c]
  BY <1>1, <1>2, GrownFrom
<1> HIDE DEF live
<1>8. \A i \in 1..n : ~Does(i, id, Writes) /\ Follows(i) \cap live # {} => i \in live
  BY <1>3, <1>6
<1>9. \A i \in live : Does(i, id, Reads) \/ (~Does(i, id, Writes) /\ Follows(i) \cap live # {})
  BY <1>3, <1>4, <1>6, <1>7
<1> QED BY <1>1, <1>4, <1>5, <1>6, <1>8, <1>9

-----------------------------------------------------------------------------
\* One vector of ranges.
CoversIn(rs, id, i) == \E k \in DOMAIN rs : rs[k].id = id /\ rs[k].first <= i /\ i <= rs[k].last

LEMMA GreatestNatural ==
  ASSUME NEW n \in Nat, NEW S \in SUBSET (1..n), S # {}
  PROVE  \E m \in S : \A l \in S : l <= m
<1> DEFINE T == {n - l : l \in S}
<1>1. T \in SUBSET Nat /\ T # {}
  <2>1. \A l \in S : n - l \in Nat
    OBVIOUS
  <2>2. PICK l \in S : TRUE
    OBVIOUS
  <2> QED BY <2>1, <2>2
<1>2. PICK d \in T : \A e \in T : d <= e
  <2> HIDE DEF T
  <2> QED BY <1>1, LeastNatural
<1>3. PICK m \in S : d = n - m
  OBVIOUS
<1>4. \A l \in S : l <= m
  <2> SUFFICES ASSUME NEW l \in S PROVE l <= m
    OBVIOUS
  <2>1. n - l \in T
    OBVIOUS
  <2>2. n - m <= n - l
    BY <1>2, <1>3, <2>1
  <2>3. l \in 1..n /\ m \in 1..n
    OBVIOUS
  <2> QED BY <2>2, <2>3
<1> QED BY <1>4

LEMMA RangeFields ==
  ASSUME NEW r \in RangeType
  PROVE  r.id \in Ids /\ r.first \in Nat /\ r.last \in Nat /\ r.assigned \in BOOLEAN /\ r.pointed \in BOOLEAN
BY DEF RangeType

\* The last range of an id.
LEMMA BackFacts ==
  ASSUME NEW rs \in Seq(RangeType), NEW id
  PROVE  /\ DOMAIN rs = 1..Len(rs) /\ Len(rs) \in Nat
         /\ id \in IdsOf(rs) =>
              /\ Back(rs, id) \in DOMAIN rs /\ rs[Back(rs, id)].id = id
              /\ \A l \in DOMAIN rs : rs[l].id = id => l <= Back(rs, id)
         /\ \A m \in DOMAIN rs :
              rs[m].id = id /\ (\A l \in DOMAIN rs : rs[l].id = id => l <= m) => Back(rs, id) = m
<1> DEFINE S == {k \in DOMAIN rs : rs[k].id = id}
<1>1. DOMAIN rs = 1..Len(rs) /\ Len(rs) \in Nat
  OBVIOUS
<1>2. ASSUME id \in IdsOf(rs)
      PROVE  /\ Back(rs, id) \in DOMAIN rs /\ rs[Back(rs, id)].id = id
             /\ \A l \in DOMAIN rs : rs[l].id = id => l <= Back(rs, id)
  <2>1. S \in SUBSET (1..Len(rs)) /\ S # {}
    BY <1>1, <1>2 DEF IdsOf
  <2>2. \E m \in S : \A l \in S : l <= m
    <3> HIDE DEF S
    <3> QED BY <1>1, <2>1, GreatestNatural
  <2> QED BY <2>2 DEF Back
<1>3. ASSUME NEW m \in DOMAIN rs, rs[m].id = id, \A l \in DOMAIN rs : rs[l].id = id => l <= m
      PROVE  Back(rs, id) = m
  <2>1. id \in IdsOf(rs)
    BY <1>3 DEF IdsOf
  <2>2. Back(rs, id) \in 1..Len(rs) /\ m \in 1..Len(rs) /\ Back(rs, id) <= m /\ m <= Back(rs, id)
    BY <1>1, <1>2, <1>3, <2>1
  <2> QED BY <1>1, <2>2
<1> QED BY <1>1, <1>2, <1>3

\* Ranges that become longer and are followed by ranges for ids that had none.
Longer(rs, rt, from, to) ==
  /\ Len(rs) <= Len(rt)
  /\ \A k \in DOMAIN rs : rt[k].id = rs[k].id /\ rt[k].first <= rs[k].first /\ rs[k].last <= rt[k].last
  /\ \A k \in DOMAIN rt : k \notin DOMAIN rs => rt[k].id \notin IdsOf(rs) /\ rt[k].first = from /\ rt[k].last = to

LEMMA LongerFacts ==
  ASSUME NEW rs \in Seq(RangeType), NEW rt \in Seq(RangeType), NEW from \in Nat, NEW to \in Nat,
         Longer(rs, rt, from, to), NEW id
  PROVE  /\ id \in IdsOf(rs) => /\ id \in IdsOf(rt)
                                /\ Back(rt, id) = Back(rs, id) /\ Back(rs, id) \in DOMAIN rs
                                /\ rs[Back(rs, id)].last <= rt[Back(rt, id)].last
         /\ \A i \in Nat : CoversIn(rs, id, i) => CoversIn(rt, id, i)
         /\ id \in IdsOf(rt) \ IdsOf(rs) => \A i \in from..to : CoversIn(rt, id, i)
<1>1. /\ DOMAIN rs = 1..Len(rs) /\ DOMAIN rt = 1..Len(rt) /\ Len(rs) \in Nat /\ Len(rt) \in Nat
      /\ Len(rs) <= Len(rt)
  BY DEF Longer
<1>2. DOMAIN rs \subseteq DOMAIN rt /\ \A k \in DOMAIN rs : \A l \in DOMAIN rt : k \in Nat /\ l \in Nat
  BY <1>1
<1>3. ASSUME id \in IdsOf(rs)
      PROVE  /\ id \in IdsOf(rt)
             /\ Back(rt, id) = Back(rs, id) /\ Back(rs, id) \in DOMAIN rs
             /\ rs[Back(rs, id)].last <= rt[Back(rt, id)].last
  <2>1. /\ Back(rs, id) \in DOMAIN rs /\ rs[Back(rs, id)].id = id
        /\ \A l \in DOMAIN rs : rs[l].id = id => l <= Back(rs, id)
    BY <1>3, BackFacts
  <2>2. Back(rs, id) \in DOMAIN rt /\ rt[Back(rs, id)].id = id
    BY <1>2, <2>1 DEF Longer
  <2>3. \A l \in DOMAIN rt : rt[l].id = id => l <= Back(rs, id)
    BY <1>3, <2>1 DEF Longer
  <2>4. Back(rt, id) = Back(rs, id)
    BY <2>2, <2>3, BackFacts
  <2>5. id \in IdsOf(rt)
    BY <2>2 DEF IdsOf
  <2> QED BY <2>1, <2>4, <2>5 DEF Longer
<1>4. ASSUME NEW i \in Nat, CoversIn(rs, id, i)
      PROVE  CoversIn(rt, id, i)
  <2>1. PICK k \in DOMAIN rs : rs[k].id = id /\ rs[k].first <= i /\ i <= rs[k].last
    BY <1>4 DEF CoversIn
  <2>2. k \in DOMAIN rt /\ rt[k].id = id /\ rt[k].first <= rs[k].first /\ rs[k].last <= rt[k].last
    BY <1>2, <2>1 DEF Longer
  <2>3. rs[k] \in RangeType /\ rt[k] \in RangeType
    BY <1>2, <2>1
  <2>4. rs[k].first \in Nat /\ rs[k].last \in Nat /\ rt[k].first \in Nat /\ rt[k].last \in Nat
    BY <2>3, RangeFields
  <2>5. rt[k].first <= i /\ i <= rt[k].last
    BY <2>1, <2>2, <2>4
  <2> QED BY <2>2, <2>5 DEF CoversIn
<1>5. ASSUME id \in IdsOf(rt) \ IdsOf(rs)
      PROVE  \A i \in from..to : CoversIn(rt, id, i)
  <2>1. PICK k \in DOMAIN rt : rt[k].id = id
    BY <1>5 DEF IdsOf
  <2>2. k \notin DOMAIN rs
    BY <1>5, <2>1 DEF IdsOf, Longer
  <2>3. rt[k].first = from /\ rt[k].last = to
    BY <2>1, <2>2 DEF Longer
  <2> QED BY <2>1, <2>3 DEF CoversIn
<1> QED BY <1>3, <1>4, <1>5

\* Ranges that change in what is not their place.
SameSpans(rs, rt) ==
  /\ Len(rt) = Len(rs)
  /\ \A k \in DOMAIN rs : rt[k].id = rs[k].id /\ rt[k].first = rs[k].first /\ rt[k].last = rs[k].last

LEMMA SpansFacts ==
  ASSUME NEW rs \in Seq(RangeType), NEW rt \in Seq(RangeType), SameSpans(rs, rt), NEW id
  PROVE  /\ IdsOf(rt) = IdsOf(rs)
         /\ id \in IdsOf(rs) => rt[Back(rt, id)].last = rs[Back(rs, id)].last
         /\ \A i : CoversIn(rt, id, i) <=> CoversIn(rs, id, i)
<1>1. DOMAIN rs = DOMAIN rt
  BY DEF SameSpans
<1>2. \A k \in DOMAIN rs : rt[k].id = rs[k].id /\ rt[k].first = rs[k].first /\ rt[k].last = rs[k].last
  BY DEF SameSpans
<1>3. IdsOf(rt) = IdsOf(rs)
  BY <1>1, <1>2 DEF IdsOf
<1>4. \A i : CoversIn(rt, id, i) <=> CoversIn(rs, id, i)
  BY <1>1, <1>2 DEF CoversIn
<1>5. ASSUME id \in IdsOf(rs)
      PROVE  rt[Back(rt, id)].last = rs[Back(rs, id)].last
  <2>1. /\ Back(rs, id) \in DOMAIN rs /\ rs[Back(rs, id)].id = id
        /\ \A l \in DOMAIN rs : rs[l].id = id => l <= Back(rs, id)
    BY <1>5, BackFacts
  <2>2. Back(rt, id) = Back(rs, id)
    BY <1>1, <1>2, <2>1, BackFacts
  <2> QED BY <1>2, <2>1, <2>2
<1> QED BY <1>3, <1>4, <1>5

\* What an operand does to the ranges of its block, none of which goes beyond it.
LEMMA TouchFacts ==
  ASSUME NEW rs \in Seq(RangeType), NEW id \in Ids, NEW marked \in BOOLEAN, NEW i \in Nat, NEW from \in Nat,
         from <= i,
         \A k \in DOMAIN rs : from <= rs[k].first /\ rs[k].first <= rs[k].last /\ rs[k].last <= i,
         NEW rt, rt = Touch(rs, id, marked, i)
  PROVE  /\ rt \in Seq(RangeType)
         /\ \A k \in DOMAIN rt : from <= rt[k].first /\ rt[k].first <= rt[k].last /\ rt[k].last <= i
         /\ IdsOf(rt) = IdsOf(rs) \cup {id}
         /\ \A x \in Nat : \A v : CoversIn(rs, v, x) => CoversIn(rt, v, x)
         /\ CoversIn(rt, id, i)
         /\ rt[Back(rt, id)].last = i
         /\ \A v \in IdsOf(rs) \ {id} : rt[Back(rt, v)].last = rs[Back(rs, v)].last
         /\ ~marked /\ id \in IdsOf(rs) =>
              \A x \in (rs[Back(rs, id)].last)..i : CoversIn(rt, id, x)
<1> DEFINE n == Len(rs)
           d == Back(rs, id)
<1>1. /\ n \in Nat /\ DOMAIN rs = 1..n
      /\ \A k \in DOMAIN rs : rs[k] \in RangeType /\ rs[k].id \in Ids /\ rs[k].first \in Nat /\ rs[k].last \in Nat
                              /\ rs[k].assigned \in BOOLEAN /\ rs[k].pointed \in BOOLEAN
  BY RangeFields
<1>2. id \in IdsOf(rs) => d \in DOMAIN rs /\ rs[d].id = id /\ \A l \in DOMAIN rs : rs[l].id = id => l <= d
  BY BackFacts
<1>3. CASE id \notin IdsOf(rs) \/ marked
  <2> DEFINE p == id \in IdsOf(rs) /\ rs[d].pointed
             e == [id |-> id, first |-> i, last |-> i, assigned |-> marked, pointed |-> p]
  <2>1. rt = Append(rs, e)
    BY <1>3 DEF Touch
  <2>2. p \in BOOLEAN
    BY <1>1, <1>2
  <2> HIDE DEF p
  <2>3. e \in RangeType /\ e.id = id /\ e.first = i /\ e.last = i
    BY <2>2 DEF RangeType
  <2> HIDE DEF e
  <2>4. rt \in Seq(RangeType) /\ DOMAIN rt = 1..(n + 1) /\ \A k \in 1..(n + 1) : rt[k] = IF k = n + 1 THEN e ELSE rs[k]
    BY <2>1, <2>3, AppendFacts
  <2> HIDE DEF n, d
  <2>5. rt[n + 1] = e /\ n + 1 \in DOMAIN rt /\ \A k \in DOMAIN rs : k \in DOMAIN rt /\ rt[k] = rs[k] /\ k # n + 1 /\ k <= n + 1
    BY <1>1, <2>4
  <2>6. \A k \in DOMAIN rt : k = n + 1 \/ k \in DOMAIN rs
    BY <1>1, <2>4
  <2>7. \A k \in DOMAIN rt : from <= rt[k].first /\ rt[k].first <= rt[k].last /\ rt[k].last <= i
    BY <2>3, <2>5, <2>6
  <2>8. IdsOf(rt) = IdsOf(rs) \cup {id}
    BY <2>3, <2>5, <2>6 DEF IdsOf
  <2>9. \A x \in Nat : \A v : CoversIn(rs, v, x) => CoversIn(rt, v, x)
    BY <2>5 DEF CoversIn
  <2>10. CoversIn(rt, id, i)
    BY <2>3, <2>5 DEF CoversIn
  <2>11. rt[Back(rt, id)].last = i
    <3>1. \A l \in DOMAIN rt : l <= n + 1
      BY <1>1, <2>4
    <3>2. Back(rt, id) = n + 1
      BY <2>3, <2>4, <2>5, <3>1, BackFacts
    <3> QED BY <2>3, <2>5, <3>2
  <2>12. ASSUME NEW v \in IdsOf(rs) \ {id}
         PROVE  rt[Back(rt, v)].last = rs[Back(rs, v)].last
    <3>1. /\ Back(rs, v) \in DOMAIN rs /\ rs[Back(rs, v)].id = v
          /\ \A l \in DOMAIN rs : rs[l].id = v => l <= Back(rs, v)
      BY BackFacts
    <3>2. \A l \in DOMAIN rt : rt[l].id = v => l <= Back(rs, v)
      BY <2>3, <2>5, <2>6, <3>1
    <3>3. Back(rs, v) \in DOMAIN rt /\ rt[Back(rs, v)].id = v
      BY <2>5, <3>1
    <3>4. Back(rt, v) = Back(rs, v)
      BY <2>4, <3>2, <3>3, BackFacts
    <3> QED BY <2>5, <3>1, <3>4
  <2> QED BY <1>3, <2>4, <2>7, <2>8, <2>9, <2>10, <2>11, <2>12
<1>4. CASE ~(id \notin IdsOf(rs) \/ marked)
  <2> DEFINE e == [rs[d] EXCEPT !.last = i]
  <2>1. rt = [rs EXCEPT ![d] = e]
    BY <1>4, Zenon DEF Touch
  <2>2. d \in 1..n /\ rs[d].id = id /\ \A l \in DOMAIN rs : rs[l].id = id => l <= d
    BY <1>1, <1>2, <1>4
  <2>3. e \in RangeType /\ e.id = id /\ e.first = rs[d].first /\ e.last = i
    <3>1. rs[d] \in RangeType
      BY <1>1, <2>2
    <3> QED BY <2>2, <3>1 DEF RangeType
  <2> HIDE DEF e
  <2>4. rt \in Seq(RangeType) /\ DOMAIN rt = 1..n /\ \A k \in 1..n : rt[k] = IF k = d THEN e ELSE rs[k]
    BY <1>1, <2>1, <2>2, <2>3
  <2> HIDE DEF n, d
  <2>5. from <= rs[d].first /\ rs[d].first <= rs[d].last /\ rs[d].last <= i /\ rs[d].first \in Nat /\ rs[d].last \in Nat
    BY <1>1, <2>2
  <2>6. e.first <= e.last /\ from <= e.first /\ e.last <= i
    BY <2>3, <2>5
  <2>7. \A k \in DOMAIN rt : from <= rt[k].first /\ rt[k].first <= rt[k].last /\ rt[k].last <= i
    BY <1>1, <2>4, <2>6
  <2>8. \A k \in DOMAIN rs : rt[k].id = rs[k].id
    BY <1>1, <2>2, <2>3, <2>4
  <2>9. IdsOf(rt) = IdsOf(rs) \cup {id}
    BY <1>1, <1>4, <2>4, <2>8 DEF IdsOf
  <2>10. \A x \in Nat : \A v : CoversIn(rs, v, x) => CoversIn(rt, v, x)
    <3> SUFFICES ASSUME NEW x \in Nat, NEW v, NEW k \in DOMAIN rs,
                        rs[k].id = v, rs[k].first <= x, x <= rs[k].last
                 PROVE  CoversIn(rt, v, x)
      BY DEF CoversIn
    <3>1. CASE k = d
      <4>1. rt[d].id = v /\ rt[d].first <= x /\ x <= rt[d].last
        BY <2>2, <2>3, <2>4, <2>5, <3>1
      <4> QED BY <2>2, <2>4, <4>1 DEF CoversIn
    <3>2. CASE k # d
      BY <1>1, <2>4, <3>2 DEF CoversIn
    <3> QED BY <3>1, <3>2
  <2>11. \A x \in (rs[d].last)..i : CoversIn(rt, id, x)
    <3> SUFFICES ASSUME NEW x \in (rs[d].last)..i PROVE CoversIn(rt, id, x)
      OBVIOUS
    <3>1. rt[d].first <= x /\ x <= rt[d].last /\ rt[d].id = id
      BY <2>2, <2>3, <2>4, <2>5
    <3> QED BY <2>2, <2>4, <3>1 DEF CoversIn
  <2>12. CoversIn(rt, id, i)
    BY <2>5, <2>11
  <2>13. ASSUME NEW v \in IdsOf(rs)
         PROVE  Back(rt, v) = Back(rs, v) /\ Back(rs, v) \in DOMAIN rs /\ rs[Back(rs, v)].id = v
    <3>1. /\ Back(rs, v) \in DOMAIN rs /\ rs[Back(rs, v)].id = v
          /\ \A l \in DOMAIN rs : rs[l].id = v => l <= Back(rs, v)
      BY BackFacts
    <3>2. DOMAIN rt = DOMAIN rs
      BY <1>1, <2>4
    <3>3. \A l \in DOMAIN rt : rt[l].id = v => l <= Back(rs, v)
      BY <2>8, <3>1, <3>2
    <3>4. Back(rs, v) \in DOMAIN rt /\ rt[Back(rs, v)].id = v
      BY <2>8, <3>1, <3>2
    <3>5. Back(rt, v) = Back(rs, v)
      BY <2>4, <3>3, <3>4, BackFacts
    <3> QED BY <3>1, <3>5
  <2>14. rt[Back(rt, id)].last = i
    BY <1>4, <2>2, <2>3, <2>4, <2>13 DEF d
  <2>15. \A v \in IdsOf(rs) \ {id} : rt[Back(rt, v)].last = rs[Back(rs, v)].last
    BY <1>1, <2>2, <2>4, <2>13
  <2> QED BY <2>4, <2>7, <2>9, <2>10, <2>11, <2>12, <2>14, <2>15 DEF d
<1> QED BY <1>3, <1>4

-----------------------------------------------------------------------------
\* An operand that tryRegister gives a range, and whether fillRanges came past it.
Tried(i, k, id) ==
  /\ i \in DOMAIN code /\ k \in DOMAIN OperandsAt(i)
  /\ OperandsAt(i)[k].id = id /\ ~Passed(OperandsAt(i), k)
Past(i, k) == pc # "ranges" \/ i < at \/ (i = at /\ k < operand)
Seen(i, id) == \E k \in DOMAIN OperandsAt(i) : Tried(i, k, id) /\ Past(i, k)
SeenIn(b, id) == \E i \in Instructions(b) : Seen(i, id)

\* So far as the operands of a block have been seen, its ranges cover them, and what lies
\* between two of them unless the later one begins a range; other ranges are copies
\* that fill the block.
Named(b, id) ==
  LET rs == ranges[b]
  IN  /\ SeenIn(b, id) => id \in IdsOf(rs)
      /\ \A i \in Instructions(b) : Seen(i, id) => CoversIn(rs, id, i) /\ i <= rs[Back(rs, id)].last
      /\ \A j, m \in Instructions(b) :
           /\ j < m /\ Seen(j, id) /\ Seen(m, id) /\ ~Does(m, id, Marked)
           /\ \A x \in (j + 1)..(m - 1) : ~Seen(x, id)
           => \A x \in j..m : CoversIn(rs, id, x)
      /\ id \in IdsOf(rs) /\ ~SeenIn(b, id) => \A x \in Instructions(b) : CoversIn(rs, id, x)
NamedInv == \A b \in Blocks : \A id \in Ids : Named(b, id)

\* While operands are tried, the last range of an id ends where the id was seen last.
TryInv ==
  pc = "ranges" =>
    \A b \in Blocks :
      /\ \A k \in DOMAIN ranges[b] : ranges[b][k].last <= at
      /\ \A id \in IdsOf(ranges[b]) : Seen(ranges[b][Back(ranges[b], id)].last, id)

\* A recursion over the blocks has come, or will come, to the first block and wherever
\* connections lead from blocks it has come to.
Due == visited \cup Seqs!ToSet(pending)
Walks == 1 \in Due /\ \A b \in visited : Seqs!ToSet(conns[b]) \subseteq Due

ConnectInv == pc = "connect" => Walks /\ \A b \in visited : conns[b] = Successors(b)

\* The blocks the first recursion came to keep their connections.
Connected(C) ==
  1 \in C /\ \A b \in C : conns[b] = Successors(b) /\ Seqs!ToSet(conns[b]) \subseteq C
ConnectedInv ==
  pc \in {"visit", "fill", "propagate", "done"} => \E C \in SUBSET Blocks : Connected(C)

\* An id with ranges on both sides of a connection that was taken reaches it from both.
Met(b, c, id) ==
  /\ ranges[c][Back(ranges[c], id)].first = First(c)
  /\ \A k \in DOMAIN ranges[b] : ranges[b][k].id = id => ranges[b][k].last = Final(b)
PropagateInv ==
  pc \in {"propagate", "done"} =>
    /\ Walks /\ (pc = "done" => pending = <<>>)
    /\ \A b \in visited : \A c \in Seqs!ToSet(conns[b]) : \A id \in Shared(b, c) : Met(b, c, id)

PathsInv == paths \in Seq(Seq(Blocks) \ {<<>>})

IInv ==
  /\ Partition /\ TypeOK /\ PathsInv
  /\ NamedInv /\ TryInv /\ ConnectInv /\ ConnectedInv /\ PropagateInv

-----------------------------------------------------------------------------
\* What depends on the function and its blocks only.
LEMMA Stable ==
  ASSUME fn' = fn, blocks' = blocks
  PROVE  /\ code' = code /\ Blocks' = Blocks /\ (Partition => Partition')
         /\ \A b : First(b)' = First(b) /\ Final(b)' = Final(b) /\ Instructions(b)' = Instructions(b)
         /\ \A b : Successors(b)' = Successors(b)
         /\ \A i : OperandsAt(i)' = OperandsAt(i) /\ BlockForInstruction(i)' = BlockForInstruction(i)
         /\ \A i, k, id : Tried(i, k, id)' <=> Tried(i, k, id)
         /\ \A i, id, roles : Does(i, id, roles)' <=> Does(i, id, roles)
<1>1. code' = code /\ Blocks' = Blocks
  BY DEF code, Blocks
<1>2. \A b : First(b)' = First(b) /\ Final(b)' = Final(b) /\ Instructions(b)' = Instructions(b)
  BY DEF First, Final, Instructions
<1>3. Partition => Partition'
  BY <1>1, <1>2 DEF Partition, Begins, IsJump
<1>4. \A i : OperandsAt(i)' = OperandsAt(i)
  BY <1>1 DEF OperandsAt
<1>5. \A i : BlockForInstruction(i)' = BlockForInstruction(i)
  BY <1>1, <1>2 DEF BlockForInstruction
<1>6. \A b : Successors(b)' = Successors(b)
  BY <1>1, <1>2, <1>5 DEF Successors, Returns, IsJump
<1>7. \A i, k, id : Tried(i, k, id)' <=> Tried(i, k, id)
  BY <1>1, <1>4 DEF Tried, Passed
<1>8. \A i, id, roles : Does(i, id, roles)' <=> Does(i, id, roles)
  BY <1>1 DEF Does
<1> QED BY <1>1, <1>2, <1>3, <1>4, <1>5, <1>6, <1>7, <1>8

LEMMA SeenStable ==
  ASSUME fn' = fn, blocks' = blocks, \A i, k, id : Tried(i, k, id) => (Past(i, k)' <=> Past(i, k))
  PROVE  /\ \A i, id : Seen(i, id)' <=> Seen(i, id)
         /\ \A b, id : SeenIn(b, id)' <=> SeenIn(b, id)
<1>1. \A i, k, id : Tried(i, k, id)' <=> Tried(i, k, id)
  BY Stable
<1>2. \A i : OperandsAt(i)' = OperandsAt(i)
  BY Stable
<1>3. \A b : Instructions(b)' = Instructions(b)
  BY Stable
<1>4. \A i, id : Seen(i, id)' <=> Seen(i, id)
  BY <1>1, <1>2 DEF Seen
<1>5. \A b, id : SeenIn(b, id)' <=> SeenIn(b, id)
  BY <1>3, <1>4 DEF SeenIn
<1> QED BY <1>4, <1>5

\* What ranges cover they cover when those of the id become longer.
Keeps(rs, rt, id, S) ==
  /\ id \in IdsOf(rs) => id \in IdsOf(rt) /\ rs[Back(rs, id)].last <= rt[Back(rt, id)].last
  /\ \A i \in Nat : CoversIn(rs, id, i) => CoversIn(rt, id, i)
  /\ id \in IdsOf(rt) \ IdsOf(rs) => \A i \in S : CoversIn(rt, id, i)

LEMMA NamedKept ==
  ASSUME fn \in Functions, Partition, fn' = fn, blocks' = blocks,
         NEW b \in Blocks, NEW id \in Ids, Named(b, id),
         \A i \in Instructions(b) : Seen(i, id)' <=> Seen(i, id),
         ranges[b] \in Seq(RangeType), ranges'[b] \in Seq(RangeType),
         Keeps(ranges[b], ranges'[b], id, Instructions(b))
  PROVE  Named(b, id)'
<1> DEFINE rs == ranges[b]
           rt == ranges'[b]
<1>1. First(b) \in Nat /\ Final(b) \in Nat
  BY BlockTypes
<1>2. Instructions(b)' = Instructions(b) /\ \A m : Does(m, id, Marked)' <=> Does(m, id, Marked)
  BY Stable DEF Marked
<1>3. SeenIn(b, id)' <=> SeenIn(b, id)
  BY <1>2 DEF SeenIn
<1>4. Keeps(rs, rt, id, Instructions(b))
  OBVIOUS
<1>5. /\ \A i \in Instructions(b) : i \in Nat
      /\ \A j, m \in Instructions(b) : \A i \in j..m : i \in Nat /\ i \in Instructions(b)
      /\ \A j, m \in Instructions(b) : \A i \in (j + 1)..(m - 1) : i \in Instructions(b)
  BY <1>1 DEF Instructions
<1>6. /\ SeenIn(b, id) => id \in IdsOf(rs)
      /\ \A i \in Instructions(b) : Seen(i, id) => CoversIn(rs, id, i) /\ i <= rs[Back(rs, id)].last
      /\ \A j, m \in Instructions(b) :
           /\ j < m /\ Seen(j, id) /\ Seen(m, id) /\ ~Does(m, id, Marked)
           /\ \A x \in (j + 1)..(m - 1) : ~Seen(x, id)
           => \A x \in j..m : CoversIn(rs, id, x)
      /\ id \in IdsOf(rs) /\ ~SeenIn(b, id) => \A x \in Instructions(b) : CoversIn(rs, id, x)
  BY DEF Named
<1>7. ASSUME NEW i \in Instructions(b), Seen(i, id)
      PROVE  CoversIn(rt, id, i) /\ i <= rt[Back(rt, id)].last
  <2>1. SeenIn(b, id) /\ id \in IdsOf(rs) /\ i <= rs[Back(rs, id)].last /\ CoversIn(rs, id, i)
    BY <1>6, <1>7 DEF SeenIn
  <2>2. rs[Back(rs, id)] \in RangeType /\ rt[Back(rt, id)] \in RangeType
    <3>1. Back(rs, id) \in DOMAIN rs /\ Back(rt, id) \in DOMAIN rt
      BY <1>4, <2>1, BackFacts DEF Keeps
    <3> QED BY <3>1
  <2> HIDE DEF rs, rt
  <2>3. rs[Back(rs, id)].last \in Nat /\ rt[Back(rt, id)].last \in Nat
    BY <2>2, RangeFields
  <2>4. rs[Back(rs, id)].last <= rt[Back(rt, id)].last
    BY <1>4, <2>1 DEF Keeps
  <2>5. i <= rt[Back(rt, id)].last
    BY <1>5, <2>1, <2>3, <2>4
  <2> QED BY <1>4, <1>5, <2>1, <2>5 DEF Keeps
<1>8. \A j, m \in Instructions(b) :
        /\ j < m /\ Seen(j, id) /\ Seen(m, id) /\ ~Does(m, id, Marked)
        /\ \A x \in (j + 1)..(m - 1) : ~Seen(x, id)
        => \A x \in j..m : CoversIn(rt, id, x)
  <2> HIDE DEF rs, rt
  <2> QED BY <1>4, <1>5, <1>6 DEF Keeps
<1>9. id \in IdsOf(rt) /\ ~SeenIn(b, id) => \A x \in Instructions(b) : CoversIn(rt, id, x)
  <2> HIDE DEF rs, rt
  <2> QED BY <1>4, <1>5, <1>6 DEF Keeps
<1>10. SeenIn(b, id) => id \in IdsOf(rt)
  BY <1>4, <1>6 DEF Keeps
<1> HIDE DEF rs, rt
<1>11. /\ SeenIn(b, id)' => id \in IdsOf(rt)
       /\ \A i \in Instructions(b)' : Seen(i, id)' => CoversIn(rt, id, i) /\ i <= rt[Back(rt, id)].last
       /\ \A j, m \in Instructions(b)' :
            /\ j < m /\ Seen(j, id)' /\ Seen(m, id)' /\ ~Does(m, id, Marked)'
            /\ \A x \in (j + 1)..(m - 1) : ~Seen(x, id)'
            => \A x \in j..m : CoversIn(rt, id, x)
       /\ id \in IdsOf(rt) /\ ~SeenIn(b, id)' => \A x \in Instructions(b)' : CoversIn(rt, id, x)
  BY <1>2, <1>3, <1>5, <1>7, <1>8, <1>9, <1>10
<1> QED BY <1>11 DEF Named, rt, IdsOf, CoversIn, Back, Marked

\* The parameters are read before the first instruction.
Entry(i) == IF i = 1 THEN [k \in DOMAIN fn.params |-> [id |-> fn.params[k], role |-> "read"]] ELSE <<>>
Operand == [id : Ids, role : Role]

LEMMA EntryFacts ==
  ASSUME fn \in Functions, NEW i
  PROVE  /\ Entry(i) \in Seq(Operand)
         /\ \A k \in 1..Len(Entry(i)) : Entry(i)[k].role = "read"
         /\ i = 1 => Len(Entry(i)) = Len(fn.params) /\ \A k \in 1..Len(fn.params) : Entry(i)[k].id = fn.params[k]
<1>1. PICK n \in Nat : n = Len(fn.params)
  BY CodeFacts
<1>2. DOMAIN fn.params = 1..n /\ \A k \in 1..n : fn.params[k] \in Ids
  BY <1>1, CodeFacts
<1> DEFINE e == [k \in 1..n |-> [id |-> fn.params[k], role |-> "read"]]
<1>3. \A k \in 1..n : [id |-> fn.params[k], role |-> "read"] \in Operand
  BY <1>2 DEF Operand, Role
<1>4. e \in Seq(Operand) /\ Len(e) = n /\ \A k \in 1..n : e[k].id = fn.params[k] /\ e[k].role = "read"
  <2>1. e \in [1..n -> Operand]
    BY <1>3
  <2>2. \A k \in 1..n : e[k].id = fn.params[k] /\ e[k].role = "read"
    OBVIOUS
  <2> HIDE DEF e
  <2> QED BY <2>1, <2>2
<1>5. i = 1 => Entry(i) = e
  BY <1>2 DEF Entry
<1>6. i # 1 => Entry(i) = <<>>
  BY DEF Entry
<1> HIDE DEF e
<1>7. CASE i = 1
  BY <1>1, <1>4, <1>5, <1>7
<1>8. CASE i # 1
  <2>1. <<>> \in Seq(Operand) /\ Len(<<>>) = 0
    OBVIOUS
  <2> QED BY <1>6, <1>8, <2>1
<1> QED BY <1>7, <1>8

LEMMA OperandsType ==
  ASSUME fn \in Functions, NEW i \in DOMAIN code
  PROVE  /\ OperandsAt(i) \in Seq(Operand)
         /\ DOMAIN OperandsAt(i) = 1..Len(OperandsAt(i)) /\ Len(OperandsAt(i)) \in Nat
         /\ Len(OperandsAt(i)) = Len(Entry(i)) + Len(code[i].operands)
         /\ \A k \in 1..Len(OperandsAt(i)) :
              OperandsAt(i)[k] = IF k <= Len(Entry(i)) THEN Entry(i)[k] ELSE code[i].operands[k - Len(Entry(i))]
         /\ Len(Entry(i)) \in Nat /\ Len(code[i].operands) \in Nat /\ DOMAIN code[i].operands = 1..Len(code[i].operands)
<1>1. code[i].operands \in Seq(Operand) /\ Entry(i) \in Seq(Operand)
  BY CodeFacts, EntryFacts DEF Operand
<1>2. OperandsAt(i) = Entry(i) \o code[i].operands
  BY DEF OperandsAt, Entry
<1>3. /\ Entry(i) \o code[i].operands \in Seq(Operand)
      /\ Len(Entry(i) \o code[i].operands) = Len(Entry(i)) + Len(code[i].operands)
      /\ \A k \in 1..(Len(Entry(i)) + Len(code[i].operands)) :
           (Entry(i) \o code[i].operands)[k] = IF k <= Len(Entry(i)) THEN Entry(i)[k] ELSE code[i].operands[k - Len(Entry(i))]
  BY <1>1, ConcatFacts
<1> QED BY <1>1, <1>2, <1>3

-----------------------------------------------------------------------------
LEMMA InitInv == Init => IInv
<1> SUFFICES ASSUME Init PROVE IInv
  OBVIOUS
<1>1. /\ fn \in Functions /\ pc = "ranges" /\ at = 1 /\ operand = 1 /\ Partition
      /\ ranges = [b \in Blocks |-> <<>>] /\ conns = [b \in Blocks |-> <<>>]
      /\ pending = <<>> /\ visited = {} /\ paths = <<>> /\ visited2 = {}
  BY CutFacts DEF Init
<1>2. \A b \in Blocks : ranges[b] = <<>> /\ IdsOf(ranges[b]) = {}
  BY <1>1 DEF IdsOf
<1>3. TypeOK
  <2>1. 1 \in DOMAIN code /\ Len(code) \in Nat /\ Len(code) >= 1 /\ Len(OperandsAt(1)) \in Nat
    BY <1>1, CodeFacts, OperandsType
  <2>2. 1 \in 1..(Len(code) + 1) /\ 1 \in 1..(IF 1 \in DOMAIN code THEN Len(OperandsAt(1)) + 1 ELSE 1)
    BY <2>1
  <2>3. ranges \in [Blocks -> Seq(RangeType)] /\ conns \in [Blocks -> Seq(Blocks)]
    BY <1>1
  <2>4. blocks \in Seq([first : Nat, last : Nat])
    BY <1>1 DEF Partition, Stretch
  <2> QED BY <1>1, <1>2, <2>2, <2>3, <2>4 DEF TypeOK
<1>4. \A i, id : ~Seen(i, id)
  <2> SUFFICES ASSUME NEW i, NEW id, NEW k \in DOMAIN OperandsAt(i), Tried(i, k, id), Past(i, k) PROVE FALSE
    BY DEF Seen
  <2>1. i \in DOMAIN code
    BY DEF Tried
  <2>2. k \in Nat /\ k >= 1 /\ i \in Nat /\ i >= 1
    BY <1>1, <2>1, CodeFacts, OperandsType
  <2> QED BY <1>1, <2>2 DEF Past
<1>5. NamedInv
  BY <1>2, <1>4 DEF NamedInv, Named, SeenIn
<1>6. TryInv
  BY <1>2 DEF TryInv
<1> QED BY <1>1, <1>3, <1>5, <1>6 DEF IInv, PathsInv, ConnectInv, ConnectedInv, PropagateInv

\* The steps that leave the ranges as they are.
LEMMA SameRanges ==
  ASSUME IInv, fn' = fn, blocks' = blocks, ranges' = ranges, \A i, id : Seen(i, id)' <=> Seen(i, id)
  PROVE  NamedInv'
<1>1. /\ fn \in Functions /\ Partition /\ ranges \in [Blocks -> Seq(RangeType)]
  BY DEF IInv, TypeOK
<1>2. \A b \in Blocks : ranges[b] \in Seq(RangeType)
  BY <1>1
<1>3. \A b \in Blocks : \A id \in Ids : Keeps(ranges[b], ranges[b], id, Instructions(b))
  <2> SUFFICES ASSUME NEW b \in Blocks, NEW id \in Ids PROVE Keeps(ranges[b], ranges[b], id, Instructions(b))
    OBVIOUS
  <2>1. PICK rs \in Seq(RangeType) : rs = ranges[b]
    BY <1>2
  <2>2. id \in IdsOf(rs) => rs[Back(rs, id)] \in RangeType
    BY BackFacts
  <2>3. id \in IdsOf(rs) => rs[Back(rs, id)].last <= rs[Back(rs, id)].last
    BY <2>2, RangeFields
  <2> QED BY <2>1, <2>3 DEF Keeps
<1>4. \A b \in Blocks : \A id \in Ids : Named(b, id)
  BY DEF IInv, NamedInv
<1>5. \A b \in Blocks : \A id \in Ids : Named(b, id)'
  BY <1>1, <1>2, <1>3, <1>4, NamedKept
<1> QED BY <1>5, Stable DEF NamedInv

\* tryRegister for an operand that gets a range.
LEMMA TriedStep ==
  ASSUME IInv, TryRegister, ~Passed(OperandsAt(at), operand)
  PROVE  LET id == OperandsAt(at)[operand].id
             b == BlockForInstruction(at)
             rt == Touch(ranges[b], id, OperandsAt(at)[operand].role \in Marked, at)
         IN  /\ id \in Ids /\ b \in Blocks /\ at \in Instructions(b) /\ rt \in Seq(RangeType)
             /\ Tried(at, operand, id)
             /\ ranges' \in [Blocks -> Seq(RangeType)]
             /\ \A c \in Blocks : SameSpans(IF c = b THEN rt ELSE ranges[c], ranges'[c])
             /\ \A k \in DOMAIN rt : First(b) <= rt[k].first /\ rt[k].first <= rt[k].last /\ rt[k].last <= at
<1> DEFINE ops == OperandsAt(at)
           o == ops[operand]
           b == BlockForInstruction(at)
           marked == o.role \in Marked
           rt == Touch(ranges[b], o.id, marked, at)
           T == [ranges EXCEPT ![b] = rt]
<1>1. /\ fn \in Functions /\ Partition /\ pc = "ranges" /\ ranges \in [Blocks -> Seq(RangeType)]
      /\ at \in DOMAIN code /\ operand \in DOMAIN ops
      /\ ranges' = IF o.role = "pointed" THEN Flag(T, o.id) ELSE T
      /\ \A c \in Blocks : \A k \in DOMAIN ranges[c] :
           First(c) <= ranges[c][k].first /\ ranges[c][k].first <= ranges[c][k].last /\ ranges[c][k].last <= at
  BY DEF IInv, TypeOK, TryInv, TryRegister
<1>2. b \in Blocks /\ at \in Instructions(b)
  BY <1>1, BlockFacts
<1>3. o \in [id : Ids, role : Role]
  <2> DEFINE Q == [id : Ids, role : Role]
  <2>1. ops \in Seq(Q)
    BY <1>1, OperandsType DEF Operand
  <2> HIDE DEF ops, Q
  <2>2. ops[operand] \in Q
    BY <1>1, <2>1
  <2> QED BY <2>2 DEF Q
<1>4. o.id \in Ids
  BY <1>3
<1>5. First(b) \in Nat /\ at \in Nat /\ First(b) <= at
  <2>1. First(b) \in Nat /\ Final(b) \in Nat
    BY <1>1, <1>2, BlockTypes
  <2> QED BY <1>2, <2>1 DEF Instructions
<1>6. rt \in Seq(RangeType) /\ \A k \in DOMAIN rt : First(b) <= rt[k].first /\ rt[k].first <= rt[k].last /\ rt[k].last <= at
  <2>1. ranges[b] \in Seq(RangeType) /\ marked \in BOOLEAN
    BY <1>1, <1>2
  <2>2. \A k \in DOMAIN ranges[b] :
          First(b) <= ranges[b][k].first /\ ranges[b][k].first <= ranges[b][k].last /\ ranges[b][k].last <= at
    BY <1>1, <1>2
  <2>3. PICK q : q = rt
    OBVIOUS
  <2> HIDE DEF o, b, marked
  <2>4. q \in Seq(RangeType) /\ \A k \in DOMAIN q : First(b) <= q[k].first /\ q[k].first <= q[k].last /\ q[k].last <= at
    BY <1>4, <1>5, <2>1, <2>2, <2>3, TouchFacts
  <2> QED BY <2>3, <2>4
<1>7. Tried(at, operand, o.id)
  BY <1>1 DEF Tried
<1> HIDE DEF ops, o, b, rt, marked
<1>8. T \in [Blocks -> Seq(RangeType)] /\ \A c \in Blocks : T[c] = IF c = b THEN rt ELSE ranges[c]
  BY <1>1, <1>2, <1>6
<1> HIDE DEF T
<1>9. \A c \in Blocks : SameSpans(T[c], T[c])
  BY DEF SameSpans
<1>10. Flag(T, o.id) \in [Blocks -> Seq(RangeType)] /\ \A c \in Blocks : SameSpans(T[c], Flag(T, o.id)[c])
  <2> DEFINE flagged(c) == [k \in DOMAIN T[c] |-> [T[c][k] EXCEPT !.pointed = @ \/ T[c][k].id = o.id]]
  <2>1. Flag(T, o.id) = [c \in Blocks |-> flagged(c)]
    BY <1>8 DEF Flag
  <2>2. ASSUME NEW c \in Blocks
        PROVE  flagged(c) \in Seq(RangeType) /\ SameSpans(T[c], flagged(c))
    <3>1. PICK rs \in Seq(RangeType) : rs = T[c]
      BY <1>8
    <3> DEFINE e(k) == [rs[k] EXCEPT !.pointed = @ \/ rs[k].id = o.id]
               v == [k \in DOMAIN rs |-> e(k)]
    <3>2. \A k \in DOMAIN rs : e(k) \in RangeType /\ e(k).id = rs[k].id /\ e(k).first = rs[k].first /\ e(k).last = rs[k].last
      <4> SUFFICES ASSUME NEW k \in DOMAIN rs
                   PROVE  e(k) \in RangeType /\ e(k).id = rs[k].id /\ e(k).first = rs[k].first /\ e(k).last = rs[k].last
        OBVIOUS
      <4>1. PICK r \in RangeType : r = rs[k]
        OBVIOUS
      <4>2. PICK p \in BOOLEAN : p = (r.pointed \/ r.id = o.id)
        OBVIOUS
      <4>3. e(k) = [r EXCEPT !.pointed = p]
        BY <4>1, <4>2
      <4>4. [r EXCEPT !.pointed = p] \in RangeType
        BY DEF RangeType
      <4>5. /\ [r EXCEPT !.pointed = p].id = r.id /\ [r EXCEPT !.pointed = p].first = r.first
            /\ [r EXCEPT !.pointed = p].last = r.last
        BY DEF RangeType
      <4> HIDE DEF e
      <4> QED BY <4>1, <4>3, <4>4, <4>5
    <3> HIDE DEF e
    <3>3. v \in Seq(RangeType) /\ Len(v) = Len(rs) /\ \A k \in DOMAIN rs : v[k] = e(k)
      BY <3>2
    <3>4. flagged(c) = v
      BY <3>1 DEF v, e
    <3> HIDE DEF v, flagged
    <3> QED BY <3>1, <3>2, <3>3, <3>4 DEF SameSpans
  <2> HIDE DEF flagged
  <2> QED BY <2>1, <2>2
<1>11. ranges' \in [Blocks -> Seq(RangeType)] /\ \A c \in Blocks : SameSpans(T[c], ranges'[c])
  BY <1>1, <1>8, <1>9, <1>10
<1>12. \A c \in Blocks : SameSpans(IF c = b THEN rt ELSE ranges[c], ranges'[c])
  BY <1>8, <1>11
<1> QED BY <1>2, <1>4, <1>6, <1>7, <1>11, <1>12 DEF o, ops, b, rt, marked

\* An operand that begins a range is one of the instruction itself.
LEMMA MarkedDoes ==
  ASSUME fn \in Functions, NEW i \in DOMAIN code, NEW k \in DOMAIN OperandsAt(i),
         OperandsAt(i)[k].role \in Marked
  PROVE  Does(i, OperandsAt(i)[k].id, Marked)
<1>1. PICK p \in Nat : p = Len(Entry(i))
  BY OperandsType
<1>2. PICK q \in Nat : q = Len(code[i].operands)
  BY OperandsType
<1>3. k \in 1..(p + q) /\ OperandsAt(i)[k] = IF k <= p THEN Entry(i)[k] ELSE code[i].operands[k - p]
  BY <1>1, <1>2, OperandsType
<1>4. ~(k <= p)
  <2> SUFFICES ASSUME k <= p PROVE FALSE
    OBVIOUS
  <2>1. k \in 1..p
    BY <1>3
  <2>2. Entry(i)[k].role = "read"
    BY <1>1, <2>1, EntryFacts
  <2> QED BY <1>3, <2>2 DEF Marked
<1>5. k - p \in 1..q
  BY <1>3, <1>4
<1>6. k - p \in DOMAIN code[i].operands /\ OperandsAt(i)[k] = code[i].operands[k - p]
  BY <1>2, <1>3, <1>4, <1>5, OperandsType
<1> QED BY <1>6 DEF Does

\* What is seen lies behind: the instruction that is tried comes to it.
LEMMA SeenBehind ==
  ASSUME IInv, pc = "ranges", NEW i, NEW id, Seen(i, id)
  PROVE  i \in DOMAIN code /\ i \in Nat /\ at \in Nat /\ i <= at
<1>1. fn \in Functions /\ at \in 1..(Len(code) + 1)
  BY DEF IInv, TypeOK
<1>2. PICK k : Tried(i, k, id) /\ Past(i, k)
  BY DEF Seen
<1>3. i \in DOMAIN code /\ i \in Nat /\ at \in Nat
  BY <1>1, <1>2, CodeFacts DEF Tried
<1>4. i < at \/ i = at
  BY <1>2 DEF Past
<1> QED BY <1>3, <1>4

\* The operand is the only one that is seen anew.
LEMMA SeenNext ==
  ASSUME IInv, TryRegister
  PROVE  \A i, id : Seen(i, id)' <=> Seen(i, id) \/ (i = at /\ Tried(at, operand, id))
<1>1. /\ fn' = fn /\ blocks' = blocks /\ pc = "ranges" /\ pc' = pc /\ at' = at /\ operand' = operand + 1
      /\ at \in DOMAIN code /\ operand \in DOMAIN OperandsAt(at) /\ fn \in Functions
  BY DEF TryRegister, IInv, TypeOK
<1>2. PICK q \in Nat : q = operand
  BY <1>1, OperandsType
<1>3. \A i, k, id : Tried(i, k, id)' <=> Tried(i, k, id)
  BY <1>1, Stable
<1>4. \A i : OperandsAt(i)' = OperandsAt(i)
  BY <1>1, Stable
<1>5. ASSUME NEW i, NEW k, NEW id, Tried(i, k, id)
      PROVE  Past(i, k)' <=> Past(i, k) \/ (i = at /\ k = operand)
  <2>1. k \in Nat
    BY <1>1, <1>5, OperandsType DEF Tried
  <2>2. k < q + 1 <=> k < q \/ k = q
    BY <2>1
  <2> QED BY <1>1, <1>2, <2>2 DEF Past
<1>6. ASSUME NEW i, NEW id
      PROVE  Seen(i, id)' <=> Seen(i, id) \/ (i = at /\ Tried(at, operand, id))
  <2>1. Seen(i, id)' <=> \E k \in DOMAIN OperandsAt(i) : Tried(i, k, id) /\ Past(i, k)'
    BY <1>3, <1>4 DEF Seen
  <2>2. Tried(at, operand, id) => operand \in DOMAIN OperandsAt(at)
    BY DEF Tried
  <2> QED BY <1>5, <2>1, <2>2 DEF Seen
<1> QED BY <1>6

\* What is known of the id of the operand, in the block of the instruction.
LEMMA TriedNamed ==
  ASSUME IInv, TryRegister, ~Passed(OperandsAt(at), operand),
         NEW id \in Ids, id = OperandsAt(at)[operand].id,
         NEW b \in Blocks, b = BlockForInstruction(at), at \in Instructions(b),
         NEW rt, rt = ranges'[b], rt \in Seq(RangeType),
         id \in IdsOf(rt), CoversIn(rt, id, at), rt[Back(rt, id)].last = at,
         \A x \in Nat : CoversIn(ranges[b], id, x) => CoversIn(rt, id, x),
         OperandsAt(at)[operand].role \notin Marked /\ id \in IdsOf(ranges[b]) =>
           \A x \in (ranges[b][Back(ranges[b], id)].last)..at : CoversIn(rt, id, x)
  PROVE  Named(b, id)'
<1> DEFINE rs == ranges[b]
           L == rs[Back(rs, id)].last
<1>1. /\ fn \in Functions /\ Partition /\ fn' = fn /\ blocks' = blocks /\ pc = "ranges"
      /\ at \in DOMAIN code /\ operand \in DOMAIN OperandsAt(at) /\ rs \in Seq(RangeType)
  BY DEF TryRegister, IInv, TypeOK
<1>2. Tried(at, operand, id)
  BY <1>1 DEF Tried
<1>3. \A i : Seen(i, id)' <=> Seen(i, id) \/ i = at
  BY <1>2, SeenNext
<1>4. Instructions(b)' = Instructions(b) /\ \A m : Does(m, id, Marked)' <=> Does(m, id, Marked)
  BY <1>1, Stable DEF Marked
<1>5. \A i : Seen(i, id) => i \in Nat /\ i <= at /\ at \in Nat
  BY <1>1, SeenBehind
<1>6. \A i \in Instructions(b) : i \in Nat
  <2>1. First(b) \in Nat /\ Final(b) \in Nat
    BY <1>1, BlockTypes
  <2> QED BY <2>1 DEF Instructions
<1>7. /\ SeenIn(b, id) => id \in IdsOf(rs)
      /\ \A i \in Instructions(b) : Seen(i, id) => CoversIn(rs, id, i) /\ i <= L
      /\ \A j, m \in Instructions(b) :
           /\ j < m /\ Seen(j, id) /\ Seen(m, id) /\ ~Does(m, id, Marked)
           /\ \A x \in (j + 1)..(m - 1) : ~Seen(x, id)
           => \A x \in j..m : CoversIn(rs, id, x)
  BY DEF IInv, NamedInv, Named
<1>8. ASSUME id \in IdsOf(rs)
      PROVE  Seen(L, id) /\ L \in Nat /\ L <= at
  BY <1>1, <1>5, <1>8 DEF IInv, TryInv
<1>9. ASSUME NEW i \in Instructions(b), Seen(i, id)'
      PROVE  CoversIn(rt, id, i) /\ i <= rt[Back(rt, id)].last
  <2>1. CASE i = at
    BY <1>6, <1>9, <2>1
  <2>2. CASE i # at
    <3>1. Seen(i, id) /\ CoversIn(rs, id, i) /\ i \in Nat /\ i <= at
      BY <1>3, <1>5, <1>7, <1>9, <2>2
    <3> QED BY <3>1
  <2> QED BY <2>1, <2>2
<1>10. ASSUME NEW j \in Instructions(b), NEW m \in Instructions(b),
              j < m, Seen(j, id)', Seen(m, id)', ~Does(m, id, Marked),
              \A x \in (j + 1)..(m - 1) : ~Seen(x, id)',
              NEW x \in j..m
       PROVE  CoversIn(rt, id, x)
  <2>1. j \in Nat /\ m \in Nat /\ x \in Nat
    BY <1>6
  <2>2. \A y \in (j + 1)..(m - 1) : ~Seen(y, id)
    BY <1>3, <1>10
  <2>3. m <= at /\ at \in Nat
    BY <1>3, <1>5, <1>6, <1>10
  <2>4. j # at /\ Seen(j, id)
    BY <1>3, <1>10, <2>1, <2>3
  <2>5. CASE Seen(m, id)
    BY <1>7, <1>10, <2>1, <2>2, <2>4, <2>5
  <2>6. CASE ~Seen(m, id)
    <3>1. m = at
      BY <1>3, <1>10, <2>6
    <3>2. OperandsAt(at)[operand].role \notin Marked
      BY <1>1, <1>10, <3>1, MarkedDoes
    <3>3. id \in IdsOf(rs) /\ j <= L
      BY <1>7, <2>4 DEF SeenIn
    <3>4. Seen(L, id) /\ L \in Nat /\ L <= at
      BY <1>8, <3>3
    <3> HIDE DEF L
    <3>5. L # m
      BY <2>6, <3>4
    <3>6. ~(j < L)
      <4> SUFFICES ASSUME j < L PROVE FALSE
        OBVIOUS
      <4>1. L \in (j + 1)..(m - 1)
        BY <2>1, <3>1, <3>4, <3>5
      <4> QED BY <2>2, <3>4, <4>1
    <3>7. j = L
      BY <2>1, <3>3, <3>4, <3>6
    <3> QED BY <3>1, <3>2, <3>3, <3>7 DEF L
  <2> QED BY <2>5, <2>6
<1>11. SeenIn(b, id)'
  BY <1>3, <1>4 DEF SeenIn
<1> HIDE DEF rs, L
<1>12. /\ SeenIn(b, id)' => id \in IdsOf(rt)
       /\ \A i \in Instructions(b)' : Seen(i, id)' => CoversIn(rt, id, i) /\ i <= rt[Back(rt, id)].last
       /\ \A j, m \in Instructions(b)' :
            /\ j < m /\ Seen(j, id)' /\ Seen(m, id)' /\ ~Does(m, id, Marked)'
            /\ \A x \in (j + 1)..(m - 1) : ~Seen(x, id)'
            => \A x \in j..m : CoversIn(rt, id, x)
       /\ id \in IdsOf(rt) /\ ~SeenIn(b, id)' => \A x \in Instructions(b)' : CoversIn(rt, id, x)
  BY <1>4, <1>9, <1>10, <1>11
<1> QED BY <1>12, SMTT(30) DEF Named, IdsOf, CoversIn, Back, Marked

Bounded(R) == \A b \in Blocks : \A k \in DOMAIN R[b] :
  First(b) <= R[b][k].first /\ R[b][k].first <= R[b][k].last /\ R[b][k].last <= Final(b)

\* What an operand that gets a range does to what is known of the ranges.
LEMMA TriedRanges ==
  ASSUME IInv, TryRegister, ~Passed(OperandsAt(at), operand)
  PROVE  /\ ranges' \in [Blocks -> Seq(RangeType)] /\ Bounded(ranges')
         /\ \A c \in Blocks : \A k \in DOMAIN ranges'[c] : ranges'[c][k].last <= at
         /\ \A c \in Blocks : \A v \in Ids : Named(c, v)'
         /\ \A c \in Blocks : \A v \in IdsOf(ranges'[c]) :
              \E i : i = ranges'[c][Back(ranges'[c], v)].last /\ Seen(i, v)'
<1>a. PICK id : id = OperandsAt(at)[operand].id
  OBVIOUS
<1>b. PICK b : b = BlockForInstruction(at)
  OBVIOUS
<1> DEFINE marked == OperandsAt(at)[operand].role \in Marked
           rt == Touch(ranges[b], id, marked, at)
           old(c) == IF c = b THEN rt ELSE ranges[c]
<1>1. /\ fn' = fn /\ blocks' = blocks /\ pc = "ranges" /\ at \in DOMAIN code /\ operand \in DOMAIN OperandsAt(at)
      /\ fn \in Functions /\ Partition /\ ranges \in [Blocks -> Seq(RangeType)]
      /\ \A c \in Blocks : \A k \in DOMAIN ranges[c] :
           First(c) <= ranges[c][k].first /\ ranges[c][k].first <= ranges[c][k].last /\ ranges[c][k].last <= at
      /\ \A c \in Blocks : \A v \in IdsOf(ranges[c]) : Seen(ranges[c][Back(ranges[c], v)].last, v)
      /\ \A c \in Blocks : \A v \in Ids : Named(c, v)
  BY DEF TryRegister, IInv, TypeOK, TryInv, NamedInv
<1>2. /\ id \in Ids /\ b \in Blocks /\ at \in Instructions(b) /\ rt \in Seq(RangeType)
      /\ Tried(at, operand, id)
      /\ ranges' \in [Blocks -> Seq(RangeType)]
      /\ \A c \in Blocks : SameSpans(old(c), ranges'[c])
      /\ \A k \in DOMAIN rt : First(b) <= rt[k].first /\ rt[k].first <= rt[k].last /\ rt[k].last <= at
  BY <1>a, <1>b, TriedStep
<1>3. marked \in BOOLEAN
  OBVIOUS
<1>15. /\ \A c \in Blocks : \A k \in DOMAIN ranges[c] : ranges[c][k].last <= Final(c)
      /\ \A k \in DOMAIN rt : rt[k].last <= Final(b)
  <2>1. First(b) \in Nat /\ Final(b) \in Nat
    BY <1>1, <1>2, BlockTypes
  <2>2. at \in Nat /\ at <= Final(b)
    BY <1>2, <2>1 DEF Instructions
  <2>3. \A k \in DOMAIN rt : rt[k] \in RangeType
    BY <1>2
  <2> HIDE DEF rt
  <2>4. \A k \in DOMAIN rt : rt[k].last \in Nat
    BY <2>3, RangeFields
  <2>5. \A k \in DOMAIN rt : rt[k].last <= Final(b)
    BY <1>2, <2>1, <2>2, <2>4
  <2> QED BY <2>5 DEF IInv, TypeOK
<1>4. /\ IdsOf(rt) = IdsOf(ranges[b]) \cup {id}
      /\ \A x \in Nat : \A v : CoversIn(ranges[b], v, x) => CoversIn(rt, v, x)
      /\ CoversIn(rt, id, at) /\ rt[Back(rt, id)].last = at
      /\ \A v \in IdsOf(ranges[b]) \ {id} : rt[Back(rt, v)].last = ranges[b][Back(ranges[b], v)].last
      /\ ~marked /\ id \in IdsOf(ranges[b]) =>
           \A x \in (ranges[b][Back(ranges[b], id)].last)..at : CoversIn(rt, id, x)
  <2>1. First(b) \in Nat /\ Final(b) \in Nat
    BY <1>1, <1>2, BlockTypes
  <2>2. at \in Nat /\ First(b) <= at
    BY <1>2, <2>1 DEF Instructions
  <2>3. ranges[b] \in Seq(RangeType) /\ \A k \in DOMAIN ranges[b] :
          First(b) <= ranges[b][k].first /\ ranges[b][k].first <= ranges[b][k].last /\ ranges[b][k].last <= at
    BY <1>1, <1>2
  <2>4. PICK rs \in Seq(RangeType) : rs = ranges[b]
    BY <2>3
  <2>5. PICK m \in BOOLEAN : m = marked
    BY <1>3
  <2>6. rt = Touch(rs, id, m, at)
    BY <2>4, <2>5
  <2> HIDE DEF marked, rt
  <2>7. \A k \in DOMAIN rs : First(b) <= rs[k].first /\ rs[k].first <= rs[k].last /\ rs[k].last <= at
    BY <2>3, <2>4
  <2>8. /\ IdsOf(rt) = IdsOf(rs) \cup {id}
        /\ \A x \in Nat : \A v : CoversIn(rs, v, x) => CoversIn(rt, v, x)
        /\ CoversIn(rt, id, at) /\ rt[Back(rt, id)].last = at
        /\ \A v \in IdsOf(rs) \ {id} : rt[Back(rt, v)].last = rs[Back(rs, v)].last
        /\ ~m /\ id \in IdsOf(rs) => \A x \in (rs[Back(rs, id)].last)..at : CoversIn(rt, id, x)
    <3>1. id \in Ids
      BY <1>2
    <3>2. PICK from \in Nat : from = First(b)
      BY <2>1
    <3>3. PICK q : q = rt
      OBVIOUS
    <3>4. /\ from \in Nat /\ at \in Nat /\ rs \in Seq(RangeType) /\ m \in BOOLEAN /\ from <= at /\ q = Touch(rs, id, m, at)
          /\ \A k \in DOMAIN rs : from <= rs[k].first /\ rs[k].first <= rs[k].last /\ rs[k].last <= at
      BY <2>2, <2>4, <2>5, <2>6, <2>7, <3>2, <3>3
    <3>5. IdsOf(q) = IdsOf(rs) \cup {id} /\ CoversIn(q, id, at) /\ q[Back(q, id)].last = at
      BY <3>1, <3>4, TouchFacts
    <3>6. \A x \in Nat : \A v : CoversIn(rs, v, x) => CoversIn(q, v, x)
      BY <3>1, <3>4, TouchFacts
    <3>7. \A v \in IdsOf(rs) \ {id} : q[Back(q, v)].last = rs[Back(rs, v)].last
      BY <3>1, <3>4, TouchFacts
    <3>8. ~m /\ id \in IdsOf(rs) => \A x \in (rs[Back(rs, id)].last)..at : CoversIn(q, id, x)
      BY <3>1, <3>4, TouchFacts
    <3> QED BY <3>3, <3>5, <3>6, <3>7, <3>8
  <2> QED BY <2>4, <2>5, <2>6, <2>8
<1>5. \A i, v : Seen(i, v)' <=> Seen(i, v) \/ (i = at /\ v = id)
  <2>1. \A v : Tried(at, operand, v) <=> v = id
    BY <1>2 DEF Tried
  <2> QED BY <2>1, SeenNext
<1>6. \A c \in Blocks : c # b => at \notin Instructions(c)
  BY <1>1, <1>b, BlockFacts
<1> HIDE DEF marked, rt
<1>7. \A c \in Blocks : old(c) \in Seq(RangeType) /\ \A k \in DOMAIN old(c) :
        First(c) <= old(c)[k].first /\ old(c)[k].first <= old(c)[k].last /\ old(c)[k].last <= at /\ old(c)[k].last <= Final(c)
  BY <1>1, <1>2, <1>15
<1>8. ASSUME NEW c \in Blocks, NEW v
      PROVE  /\ IdsOf(ranges'[c]) = IdsOf(old(c))
             /\ v \in IdsOf(old(c)) => ranges'[c][Back(ranges'[c], v)].last = old(c)[Back(old(c), v)].last
             /\ \A i : CoversIn(ranges'[c], v, i) <=> CoversIn(old(c), v, i)
  <2>1. old(c) \in Seq(RangeType) /\ ranges'[c] \in Seq(RangeType) /\ SameSpans(old(c), ranges'[c])
    BY <1>2, <1>7
  <2> HIDE DEF old
  <2> QED BY <2>1, SpansFacts
<1>9. ASSUME NEW c \in Blocks, NEW k \in DOMAIN ranges'[c]
      PROVE  /\ First(c) <= ranges'[c][k].first /\ ranges'[c][k].first <= ranges'[c][k].last
             /\ ranges'[c][k].last <= at /\ ranges'[c][k].last <= Final(c)
  <2>1. old(c) \in Seq(RangeType) /\ ranges'[c] \in Seq(RangeType)
    BY <1>2, <1>7
  <2> HIDE DEF old
  <2>2. k \in DOMAIN old(c) /\ ranges'[c][k].first = old(c)[k].first /\ ranges'[c][k].last = old(c)[k].last
    BY <1>2, <2>1 DEF SameSpans
  <2> QED BY <1>7, <2>2
<1>10. ASSUME NEW c \in Blocks, NEW v, c # b \/ v # id, v \in IdsOf(ranges'[c])
       PROVE  v \in IdsOf(ranges[c]) /\ ranges'[c][Back(ranges'[c], v)].last = ranges[c][Back(ranges[c], v)].last
  <2>1. CASE c = b
    BY <1>2, <1>4, <1>8, <1>10, <2>1
  <2>2. CASE c # b
    BY <1>8, <1>10, <2>2
  <2> QED BY <2>1, <2>2
<1>11. ASSUME NEW c \in Blocks, NEW v \in Ids, c # b \/ v # id
       PROVE  Named(c, v)'
  <2>1. \A i \in Instructions(c) : Seen(i, v)' <=> Seen(i, v)
    BY <1>5, <1>6, <1>11
  <2>2. ranges[c] \in Seq(RangeType) /\ ranges'[c] \in Seq(RangeType)
    BY <1>1, <1>2
  <2>3. v \in IdsOf(ranges[c]) => v \in IdsOf(ranges'[c])
    BY <1>4, <1>8, <1>11
  <2>4. v \in IdsOf(ranges[c]) => ranges[c][Back(ranges[c], v)].last \in Nat
    <3> SUFFICES ASSUME v \in IdsOf(ranges[c]) PROVE ranges[c][Back(ranges[c], v)].last \in Nat
      OBVIOUS
    <3>1. PICK rs \in Seq(RangeType) : rs = ranges[c]
      BY <2>2
    <3>2. rs[Back(rs, v)] \in RangeType
      BY <3>1, BackFacts
    <3> QED BY <3>1, <3>2, RangeFields
  <2>5. \A i \in Nat : CoversIn(ranges[c], v, i) => CoversIn(ranges'[c], v, i)
    BY <1>4, <1>8, <1>11
  <2>6. v \in IdsOf(ranges[c]) => ranges[c][Back(ranges[c], v)].last <= ranges'[c][Back(ranges'[c], v)].last
    BY <1>10, <1>11, <2>3, <2>4
  <2>7. Keeps(ranges[c], ranges'[c], v, Instructions(c))
    BY <1>10, <1>11, <2>3, <2>5, <2>6 DEF Keeps
  <2> QED BY <1>1, <2>1, <2>2, <2>7, NamedKept
<1>12. Named(b, id)'
  <2>1. id \in IdsOf(ranges'[b]) /\ CoversIn(ranges'[b], id, at) /\ ranges'[b][Back(ranges'[b], id)].last = at
    BY <1>2, <1>4, <1>8
  <2>2. \A x \in Nat : CoversIn(ranges[b], id, x) => CoversIn(ranges'[b], id, x)
    BY <1>2, <1>4, <1>8
  <2>3. OperandsAt(at)[operand].role \notin Marked /\ id \in IdsOf(ranges[b]) =>
          \A x \in (ranges[b][Back(ranges[b], id)].last)..at : CoversIn(ranges'[b], id, x)
    BY <1>2, <1>4, <1>8 DEF marked
  <2>4. ranges'[b] \in Seq(RangeType) /\ id = OperandsAt(at)[operand].id /\ b = BlockForInstruction(at)
    BY <1>2, <1>a, <1>b
  <2> QED BY <1>2, <2>1, <2>2, <2>3, <2>4, TriedNamed
<1>13. ASSUME NEW c \in Blocks, NEW v \in IdsOf(ranges'[c])
       PROVE  \E i : i = ranges'[c][Back(ranges'[c], v)].last /\ Seen(i, v)'
  <2>1. CASE c = b /\ v = id
    BY <1>2, <1>4, <1>5, <1>8, <2>1
  <2>2. CASE c # b \/ v # id
    BY <1>1, <1>5, <1>10, <2>2
  <2> QED BY <2>1, <2>2
<1>14. \A c \in Blocks : \A v \in Ids : Named(c, v)'
  BY <1>11, <1>12
<1> QED BY <1>2, <1>9, <1>13, <1>14 DEF Bounded

\* What of the types a step has to show.
LEMMA TypeKept ==
  ASSUME IInv, fn' = fn, blocks' = blocks,
         pc' \in {"ranges", "connect", "visit", "fill", "propagate", "done"},
         at' \in 1..(Len(code) + 1),
         operand' \in 1..(IF at' \in DOMAIN code THEN Len(OperandsAt(at)') + 1 ELSE 1),
         ranges' \in [Blocks -> Seq(RangeType)], Bounded(ranges'),
         conns' \in [Blocks -> Seq(Blocks)],
         pending' \in Seq(Blocks), visited' \subseteq Blocks,
         paths' \in Seq(Seq(Blocks)), visited2' \subseteq Blocks
  PROVE  TypeOK'
<1>1. fn \in Functions /\ blocks \in Seq([first : Nat, last : Nat])
  BY DEF IInv, TypeOK
<1>2. code' = code /\ Blocks' = Blocks /\ \A b : First(b)' = First(b) /\ Final(b)' = Final(b)
  BY Stable
<1> QED BY <1>1, <1>2 DEF TypeOK, Bounded

LEMMA SameOperands ==
  ASSUME IInv, fn' = fn, at' = at, operand' = operand
  PROVE  /\ at' \in 1..(Len(code) + 1)
         /\ operand' \in 1..(IF at' \in DOMAIN code THEN Len(OperandsAt(at)') + 1 ELSE 1)
<1>1. OperandsAt(at)' = OperandsAt(at)
  BY DEF OperandsAt, code
<1> QED BY <1>1 DEF IInv, TypeOK

LEMMA TryRegisterInv == IInv /\ TryRegister => IInv'
<1> SUFFICES ASSUME IInv, TryRegister PROVE IInv'
  OBVIOUS
<1>1. /\ fn' = fn /\ blocks' = blocks /\ pc = "ranges" /\ pc' = "ranges" /\ at' = at /\ operand' = operand + 1
      /\ UNCHANGED <<conns, pending, visited, paths, visited2>>
      /\ at \in DOMAIN code /\ operand \in DOMAIN OperandsAt(at) /\ fn \in Functions /\ Partition
      /\ ranges \in [Blocks -> Seq(RangeType)] /\ PathsInv
      /\ conns \in [Blocks -> Seq(Blocks)] /\ pending \in Seq(Blocks) /\ visited \subseteq Blocks
      /\ paths \in Seq(Seq(Blocks)) /\ visited2 \subseteq Blocks
  BY DEF IInv, TypeOK, TryRegister
<1>2. code' = code /\ Blocks' = Blocks /\ Partition' /\ \A b : First(b)' = First(b) /\ Final(b)' = Final(b)
  BY <1>1, Stable
<1>3. /\ ranges' \in [Blocks -> Seq(RangeType)] /\ Bounded(ranges')
      /\ \A c \in Blocks : \A k \in DOMAIN ranges'[c] : ranges'[c][k].last <= at
      /\ \A c \in Blocks : \A v \in Ids : Named(c, v)'
      /\ \A c \in Blocks : \A v \in IdsOf(ranges'[c]) :
           \E i : i = ranges'[c][Back(ranges'[c], v)].last /\ Seen(i, v)'
  <2>1. CASE ~Passed(OperandsAt(at), operand)
    BY <2>1, TriedRanges
  <2>2. CASE Passed(OperandsAt(at), operand)
    <3>1. ranges' = ranges
      BY <2>2 DEF TryRegister
    <3>2. \A i, v : Seen(i, v)' <=> Seen(i, v)
      BY <2>2, SeenNext DEF Tried
    <3>3. NamedInv'
      BY <1>1, <3>1, <3>2, SameRanges
    <3> QED BY <1>1, <1>2, <3>1, <3>2, <3>3 DEF NamedInv, IInv, TypeOK, TryInv, Bounded
  <2> QED BY <2>1, <2>2
<1>5. TypeOK'
  <2>1. at \in 1..(Len(code) + 1) /\ OperandsAt(at)' = OperandsAt(at)
    BY <1>1 DEF OperandsAt, code, IInv, TypeOK
  <2>2. operand + 1 \in 1..(Len(OperandsAt(at)) + 1)
    BY <1>1, OperandsType
  <2> QED BY <1>1, <1>3, <2>1, <2>2, TypeKept
<1>6. NamedInv'
  BY <1>2, <1>3 DEF NamedInv
<1>7. TryInv'
  BY <1>1, <1>2, <1>3 DEF TryInv
<1> QED BY <1>1, <1>2, <1>5, <1>6, <1>7 DEF IInv, PathsInv, ConnectInv, ConnectedInv, PropagateInv

LEMMA NextInstructionInv == IInv /\ NextInstruction => IInv'
<1> SUFFICES ASSUME IInv, NextInstruction PROVE IInv'
  OBVIOUS
<1>1. /\ fn' = fn /\ blocks' = blocks /\ pc = "ranges" /\ pc' = "ranges" /\ at' = at + 1 /\ operand' = 1
      /\ UNCHANGED <<ranges, conns, pending, visited, paths, visited2>>
      /\ at \in DOMAIN code /\ operand \notin DOMAIN OperandsAt(at) /\ fn \in Functions /\ Partition
      /\ operand \in 1..(Len(OperandsAt(at)) + 1)
      /\ ranges \in [Blocks -> Seq(RangeType)] /\ PathsInv
      /\ conns \in [Blocks -> Seq(Blocks)] /\ pending \in Seq(Blocks) /\ visited \subseteq Blocks
      /\ paths \in Seq(Seq(Blocks)) /\ visited2 \subseteq Blocks
      /\ Bounded(ranges)
  BY DEF IInv, TypeOK, NextInstruction, Bounded
<1>2. code' = code /\ Blocks' = Blocks /\ Partition'
  BY <1>1, Stable
<1>3. PICK n \in Nat : n = Len(code)
  BY <1>1, CodeFacts
<1>4. PICK a \in Nat : a = at
  BY <1>1, CodeFacts
<1>5. a \in 1..n /\ DOMAIN code = 1..n
  BY <1>1, <1>3, <1>4, CodeFacts
<1>6. ASSUME NEW i, NEW k, NEW id, Tried(i, k, id)
      PROVE  Past(i, k)' <=> Past(i, k)
  <2>1. i \in DOMAIN code /\ k \in DOMAIN OperandsAt(i)
    BY <1>6 DEF Tried
  <2>2. PICK l \in Nat : l = Len(OperandsAt(i))
    BY <1>1, <2>1, OperandsType
  <2>3. k \in 1..l /\ i \in Nat
    BY <1>5, <1>1, <2>1, <2>2, OperandsType
  <2>4. i < a + 1 \/ (i = a + 1 /\ k < 1) <=> i < a \/ i = a
    BY <2>3
  <2>5. i = a => k < operand
    <3> SUFFICES ASSUME i = a PROVE k < operand
      OBVIOUS
    <3>1. operand \in 1..(l + 1) /\ operand \notin 1..l
      BY <1>1, <1>4, <2>2, OperandsType
    <3> QED BY <2>3, <3>1
  <2> QED BY <1>1, <1>4, <2>4, <2>5 DEF Past
<1>7. \A i, id : Seen(i, id)' <=> Seen(i, id)
  BY <1>1, <1>6, SeenStable
<1>8. NamedInv'
  BY <1>1, <1>7, SameRanges
<1>9. TypeOK'
  <2>1. at' \in 1..(Len(code) + 1)
    BY <1>1, <1>3, <1>4, <1>5
  <2>2. operand' \in 1..(IF at' \in DOMAIN code THEN Len(OperandsAt(at)') + 1 ELSE 1)
    <3> SUFFICES ASSUME at' \in DOMAIN code PROVE 1 \in 1..(Len(OperandsAt(at)') + 1)
      BY <1>1
    <3>1. PICK i \in DOMAIN code : i = a + 1
      BY <1>1, <1>4
    <3>2. Len(OperandsAt(i)) \in Nat
      BY <1>1, OperandsType
    <3>3. OperandsAt(at)' = OperandsAt(i)
      BY <1>1, <1>4, <3>1 DEF OperandsAt, code
    <3> QED BY <3>2, <3>3
  <2> QED BY <1>1, <2>1, <2>2, TypeKept
<1>10. TryInv'
  <2>1. ASSUME NEW b \in Blocks, NEW k \in DOMAIN ranges[b]
        PROVE  ranges[b][k].last <= at + 1
    <3>1. PICK r \in RangeType : r = ranges[b][k]
      BY <1>1
    <3>2. PICK x \in Nat : x = r.last
      BY RangeFields
    <3>3. x <= a
      BY <1>1, <1>4, <3>1, <3>2 DEF IInv, TryInv
    <3>4. x <= a + 1
      BY <3>3
    <3> QED BY <1>4, <3>1, <3>2, <3>4
  <2>2. \A b \in Blocks : \A id \in IdsOf(ranges[b]) :
          \E i : i = ranges[b][Back(ranges[b], id)].last /\ Seen(i, id)'
    BY <1>1, <1>7 DEF IInv, TryInv
  <2> QED BY <1>1, <1>2, <2>1, <2>2 DEF TryInv
<1> QED BY <1>1, <1>2, <1>8, <1>9, <1>10 DEF IInv, PathsInv, ConnectInv, ConnectedInv, PropagateInv

-----------------------------------------------------------------------------
\* When all operands were tried, what is seen does not change.
LEMMA SeenLater ==
  ASSUME fn' = fn, blocks' = blocks, pc # "ranges", pc' # "ranges"
  PROVE  \A i, id : Seen(i, id)' <=> Seen(i, id)
<1>1. \A i, k, id : Tried(i, k, id) => (Past(i, k)' <=> Past(i, k))
  BY DEF Past
<1> QED BY <1>1, SeenStable

\* A recursion begins with the first block.
LEMMA BeginFacts ==
  ASSUME IInv, NEW to \in {"connect", "visit", "propagate"}, Begin(to)
  PROVE  /\ fn' = fn /\ blocks' = blocks /\ at' = at /\ operand' = operand /\ ranges' = ranges /\ conns' = conns
         /\ pc' = to /\ visited' = {} /\ Partition' /\ TypeOK' /\ PathsInv' /\ TryInv' /\ Walks'
<1>1. /\ fn \in Functions /\ Partition /\ PathsInv
      /\ ranges \in [Blocks -> Seq(RangeType)] /\ Bounded(ranges) /\ conns \in [Blocks -> Seq(Blocks)]
      /\ paths \in Seq(Seq(Blocks)) /\ visited2 \subseteq Blocks
  BY DEF IInv, TypeOK, Bounded
<1>2. /\ fn' = fn /\ blocks' = blocks /\ at' = at /\ operand' = operand /\ ranges' = ranges /\ conns' = conns
      /\ pc' = to /\ visited' = {} /\ pending' = <<1>> /\ paths' = paths /\ visited2' = visited2
  BY DEF Begin
<1>3. 1 \in Blocks
  BY <1>1 DEF Partition
<1>4. <<1>> \in Seq(Blocks)
  BY <1>3
<1>5. TypeOK'
  <2>1. /\ at' \in 1..(Len(code) + 1)
        /\ operand' \in 1..(IF at' \in DOMAIN code THEN Len(OperandsAt(at)') + 1 ELSE 1)
    BY <1>2, SameOperands
  <2> QED BY <1>1, <1>2, <1>4, <2>1, TypeKept
<1>6. Walks'
  BY <1>2 DEF Walks, Due, Seqs!ToSet
<1> QED BY <1>1, <1>2, <1>5, <1>6, Stable DEF PathsInv, TryInv

LEMMA StartConnectInv == IInv /\ StartConnect => IInv'
<1> SUFFICES ASSUME IInv, StartConnect PROVE IInv'
  OBVIOUS
<1>1. pc = "ranges" /\ at \notin DOMAIN code /\ Begin("connect") /\ fn \in Functions /\ at \in 1..(Len(code) + 1)
  BY DEF StartConnect, IInv, TypeOK
<1>2. /\ fn' = fn /\ blocks' = blocks /\ ranges' = ranges /\ conns' = conns
      /\ pc' = "connect" /\ visited' = {} /\ Partition' /\ TypeOK' /\ PathsInv' /\ TryInv' /\ Walks'
  BY <1>1, BeginFacts
<1>3. PICK n \in Nat : n = Len(code)
  BY <1>1, CodeFacts
<1>4. at = n + 1 /\ DOMAIN code = 1..n
  BY <1>1, <1>3, CodeFacts
<1>5. \A i, k, id : Tried(i, k, id) => (Past(i, k)' <=> Past(i, k))
  BY <1>1, <1>2, <1>4 DEF Tried, Past
<1>6. \A i, id : Seen(i, id)' <=> Seen(i, id)
  BY <1>2, <1>5, SeenStable
<1>7. NamedInv'
  BY <1>2, <1>6, SameRanges
<1> QED BY <1>2, <1>7 DEF IInv, ConnectInv, ConnectedInv, PropagateInv

\* The connections stay.
LEMMA ConnectedKept ==
  ASSUME fn' = fn, blocks' = blocks, conns' = conns, NEW C \in SUBSET Blocks, Connected(C)
  PROVE  ConnectedInv'
<1>1. Blocks' = Blocks /\ \A b : Successors(b)' = Successors(b)
  BY Stable
<1>2. Connected(C)'
  BY <1>1 DEF Connected
<1> QED BY <1>1, <1>2 DEF ConnectedInv

LEMMA StartVisitInv == IInv /\ StartVisit => IInv'
<1> SUFFICES ASSUME IInv, StartVisit PROVE IInv'
  OBVIOUS
<1>1. pc = "connect" /\ pending = <<>> /\ Begin("visit") /\ visited \subseteq Blocks
  BY DEF StartVisit, IInv, TypeOK
<1>2. /\ fn' = fn /\ blocks' = blocks /\ ranges' = ranges /\ conns' = conns
      /\ pc' = "visit" /\ Partition' /\ TypeOK' /\ PathsInv' /\ TryInv'
  BY <1>1, BeginFacts
<1>3. NamedInv'
  BY <1>1, <1>2, SeenLater, SameRanges
<1>4. Connected(visited)
  <2>1. Due = visited
    BY <1>1 DEF Due, Seqs!ToSet
  <2> QED BY <1>1, <2>1 DEF Connected, IInv, ConnectInv, Walks
<1>5. ConnectedInv'
  BY <1>1, <1>2, <1>4, ConnectedKept
<1> QED BY <1>2, <1>3, <1>5 DEF IInv, ConnectInv, PropagateInv

LEMMA StartPropagateInv == IInv /\ StartPropagate => IInv'
<1> SUFFICES ASSUME IInv, StartPropagate PROVE IInv'
  OBVIOUS
<1>1. pc = "visit" /\ Begin("propagate")
  BY DEF StartPropagate
<1>2. /\ fn' = fn /\ blocks' = blocks /\ ranges' = ranges /\ conns' = conns
      /\ pc' = "propagate" /\ visited' = {} /\ Partition' /\ TypeOK' /\ PathsInv' /\ TryInv' /\ Walks'
  BY <1>1, BeginFacts
<1>3. NamedInv'
  BY <1>1, <1>2, SeenLater, SameRanges
<1>4. ConnectedInv'
  BY <1>1, <1>2, ConnectedKept DEF IInv, ConnectedInv
<1> QED BY <1>2, <1>3, <1>4 DEF IInv, ConnectInv, PropagateInv

LEMMA PendingFacts ==
  ASSUME NEW s \in Seq(Blocks), s # <<>>, NEW next \in Seq(Blocks)
  PROVE  /\ Tail(s) \in Seq(Blocks) /\ Head(s) \in Blocks
         /\ Seqs!ToSet(s) = {Head(s)} \cup Seqs!ToSet(Tail(s))
         /\ next \o Tail(s) \in Seq(Blocks)
         /\ Seqs!ToSet(next \o Tail(s)) = Seqs!ToSet(next) \cup Seqs!ToSet(Tail(s))
<1>1. PICK n \in Nat : n = Len(s)
  OBVIOUS
<1>2. n >= 1 /\ DOMAIN s = 1..n /\ Head(s) = s[1] /\ s[1] \in Blocks
  BY <1>1
<1>3. PICK t \in Seq(Blocks) : t = Tail(s)
  <2>1. Tail(s) \in Seq(Blocks)
    OBVIOUS
  <2> QED BY <2>1
<1>4. Len(t) = n - 1 /\ DOMAIN t = 1..(n - 1) /\ \A k \in 1..(n - 1) : t[k] = s[k + 1]
  BY <1>1, <1>2, <1>3
<1>5. Seqs!ToSet(s) = {s[1]} \cup Seqs!ToSet(t)
  <2>1. ASSUME NEW k \in 1..n PROVE s[k] \in {s[1]} \cup Seqs!ToSet(t)
    <3>1. CASE k = 1
      BY <3>1
    <3>2. CASE k # 1
      <4>1. k - 1 \in 1..(n - 1) /\ (k - 1) + 1 = k
        BY <3>2
      <4> QED BY <1>4, <4>1 DEF Seqs!ToSet
    <3> QED BY <3>1, <3>2
  <2>2. ASSUME NEW k \in 1..(n - 1) PROVE t[k] \in Seqs!ToSet(s)
    <3>1. k + 1 \in 1..n
      OBVIOUS
    <3> QED BY <1>2, <1>4, <3>1 DEF Seqs!ToSet
  <2>3. Seqs!ToSet(s) = {s[k] : k \in 1..n} /\ Seqs!ToSet(t) = {t[k] : k \in 1..(n - 1)}
    BY <1>2, <1>4 DEF Seqs!ToSet
  <2>4. s[1] \in Seqs!ToSet(s)
    BY <1>2, <2>3
  <2> QED BY <2>1, <2>2, <2>3, <2>4
<1>6. PICK m \in Nat : m = Len(next)
  OBVIOUS
<1>7. PICK q \in Seq(Blocks) : q = next \o t
  <2>1. next \o t \in Seq(Blocks)
    BY <1>3
  <2> QED BY <2>1
<1>8. /\ DOMAIN next = 1..m /\ DOMAIN q = 1..(m + (n - 1))
      /\ \A k \in 1..(m + (n - 1)) : q[k] = IF k <= m THEN next[k] ELSE t[k - m]
  BY <1>3, <1>4, <1>6, <1>7, ConcatFacts
<1>9. Seqs!ToSet(q) = Seqs!ToSet(next) \cup Seqs!ToSet(t)
  <2>1. ASSUME NEW k \in DOMAIN q PROVE q[k] \in Seqs!ToSet(next) \cup Seqs!ToSet(t)
    <3>1. CASE k <= m
      <4>1. k \in 1..m
        BY <1>8, <3>1
      <4> QED BY <1>8, <3>1, <4>1 DEF Seqs!ToSet
    <3>2. CASE ~(k <= m)
      <4>1. k - m \in 1..(n - 1)
        BY <1>8, <3>2
      <4> QED BY <1>4, <1>8, <3>2, <4>1 DEF Seqs!ToSet
    <3> QED BY <3>1, <3>2
  <2>2. ASSUME NEW k \in 1..m PROVE next[k] \in Seqs!ToSet(q)
    <3>1. k \in 1..(m + (n - 1)) /\ k <= m
      BY <1>2
    <3> QED BY <1>8, <3>1 DEF Seqs!ToSet
  <2>3. ASSUME NEW k \in 1..(n - 1) PROVE t[k] \in Seqs!ToSet(q)
    <3>1. k + m \in 1..(m + (n - 1)) /\ ~(k + m <= m) /\ (k + m) - m = k
      OBVIOUS
    <3>2. q[k + m] = t[k]
      BY <1>8, <3>1
    <3> QED BY <1>8, <3>1, <3>2 DEF Seqs!ToSet
  <2>4. /\ Seqs!ToSet(next) = {next[k] : k \in 1..m} /\ Seqs!ToSet(t) = {t[k] : k \in 1..(n - 1)}
        /\ Seqs!ToSet(q) = {q[k] : k \in DOMAIN q}
    BY <1>4, <1>8 DEF Seqs!ToSet
  <2> QED BY <2>1, <2>2, <2>3, <2>4
<1> QED BY <1>2, <1>3, <1>5, <1>7, <1>9

\* A call of a recursion for a block that it did not come to before.
LEMMA EnterFacts ==
  ASSUME IInv, NEW b \in Blocks, NEW next \in Seq(Blocks), Enter(b, next)
  PROVE  /\ pending' \in Seq(Blocks) /\ visited' \subseteq Blocks /\ visited' = visited \cup {b} /\ b \notin visited
         /\ Due' = Due \cup Seqs!ToSet(next)
<1>1. /\ pending \in Seq(Blocks) /\ pending # <<>> /\ Head(pending) = b /\ b \notin visited /\ visited \subseteq Blocks
      /\ visited' = visited \cup {b} /\ pending' = next \o Tail(pending)
  BY DEF IInv, TypeOK, Enter
<1>2. /\ Seqs!ToSet(pending) = {b} \cup Seqs!ToSet(Tail(pending))
      /\ next \o Tail(pending) \in Seq(Blocks)
      /\ Seqs!ToSet(next \o Tail(pending)) = Seqs!ToSet(next) \cup Seqs!ToSet(Tail(pending))
  BY <1>1, PendingFacts
<1>3. Due' = visited' \cup Seqs!ToSet(pending')
  BY DEF Due, Seqs!ToSet
<1> QED BY <1>1, <1>2, <1>3 DEF Due

LEMMA SkipInv == IInv /\ Skip => IInv'
<1> SUFFICES ASSUME IInv, Skip PROVE IInv'
  OBVIOUS
<1>1. /\ pc \in {"connect", "visit", "propagate"} /\ pending # <<>> /\ Head(pending) \in visited
      /\ pending' = Tail(pending) /\ fn' = fn /\ blocks' = blocks /\ pc' = pc /\ at' = at /\ operand' = operand
      /\ ranges' = ranges /\ conns' = conns /\ visited' = visited /\ paths' = paths /\ visited2' = visited2
      /\ fn \in Functions /\ Partition /\ PathsInv
      /\ ranges \in [Blocks -> Seq(RangeType)] /\ Bounded(ranges) /\ conns \in [Blocks -> Seq(Blocks)]
      /\ pending \in Seq(Blocks) /\ visited \subseteq Blocks
      /\ paths \in Seq(Seq(Blocks)) /\ visited2 \subseteq Blocks
  BY DEF Skip, IInv, TypeOK, Bounded
<1>2. Seqs!ToSet(pending) = {Head(pending)} \cup Seqs!ToSet(Tail(pending)) /\ Tail(pending) \in Seq(Blocks)
  <2>1. <<>> \in Seq(Blocks)
    OBVIOUS
  <2> QED BY <1>1, <2>1, PendingFacts
<1>3. Due' = Due
  <2>1. Due' = visited' \cup Seqs!ToSet(pending')
    BY DEF Due, Seqs!ToSet
  <2> QED BY <1>1, <1>2, <2>1 DEF Due
<1>4. TypeOK'
  <2>1. /\ at' \in 1..(Len(code) + 1)
        /\ operand' \in 1..(IF at' \in DOMAIN code THEN Len(OperandsAt(at)') + 1 ELSE 1)
    BY <1>1, SameOperands
  <2> QED BY <1>1, <1>2, <2>1, TypeKept
<1>5. NamedInv'
  BY <1>1, SeenLater, SameRanges
<1>6. Blocks' = Blocks /\ Partition' /\ \A b : First(b)' = First(b) /\ Final(b)' = Final(b) /\ Successors(b)' = Successors(b)
  BY <1>1, Stable
<1>7. Walks' <=> Walks
  BY <1>1, <1>3 DEF Walks, Seqs!ToSet
<1>8. ConnectInv'
  BY <1>1, <1>6, <1>7 DEF IInv, ConnectInv
<1>9. ConnectedInv'
  <2>1. CASE pc = "connect"
    BY <1>1, <2>1 DEF ConnectedInv
  <2>2. CASE pc # "connect"
    BY <1>1, <2>2, ConnectedKept DEF IInv, ConnectedInv
  <2> QED BY <2>1, <2>2
<1>10. PropagateInv'
  <2>1. \A b, c : Shared(b, c)' = Shared(b, c)
    BY <1>1 DEF Shared, IdsOf
  <2>2. \A b, c, id : Met(b, c, id)' <=> Met(b, c, id)
    BY <1>1, <1>6 DEF Met, Back
  <2>3. \A b : Seqs!ToSet(conns[b])' = Seqs!ToSet(conns[b])
    BY <1>1 DEF Seqs!ToSet
  <2> QED BY <1>1, <1>7, <2>1, <2>2, <2>3 DEF IInv, PropagateInv
<1> QED BY <1>1, <1>4, <1>5, <1>6, <1>8, <1>9, <1>10 DEF IInv, PathsInv, TryInv

LEMMA ConnectStepInv == IInv /\ Connect => IInv'
<1> SUFFICES ASSUME IInv, Connect PROVE IInv'
  OBVIOUS
<1>1. PICK b \in Blocks : Enter(b, Successors(b)) /\ conns' = [conns EXCEPT ![b] = Successors(b)]
  BY DEF Connect
<1>2. /\ pc = "connect" /\ fn' = fn /\ blocks' = blocks /\ pc' = pc /\ at' = at /\ operand' = operand
      /\ ranges' = ranges /\ paths' = paths /\ visited2' = visited2
      /\ fn \in Functions /\ Partition /\ PathsInv
      /\ ranges \in [Blocks -> Seq(RangeType)] /\ Bounded(ranges) /\ conns \in [Blocks -> Seq(Blocks)]
      /\ paths \in Seq(Seq(Blocks)) /\ visited2 \subseteq Blocks
  BY DEF Connect, IInv, TypeOK, Bounded
<1>3. Successors(b) \in Seq(Blocks)
  BY <1>2, SuccessorFacts
<1>4. /\ pending' \in Seq(Blocks) /\ visited' \subseteq Blocks /\ visited' = visited \cup {b} /\ b \notin visited
      /\ Due' = Due \cup Seqs!ToSet(Successors(b))
  BY <1>1, <1>3, EnterFacts
<1>5. conns' \in [Blocks -> Seq(Blocks)] /\ \A c \in Blocks : conns'[c] = IF c = b THEN Successors(b) ELSE conns[c]
  BY <1>1, <1>2, <1>3
<1>6. TypeOK'
  <2>1. /\ at' \in 1..(Len(code) + 1)
        /\ operand' \in 1..(IF at' \in DOMAIN code THEN Len(OperandsAt(at)') + 1 ELSE 1)
    BY <1>2, SameOperands
  <2> QED BY <1>2, <1>4, <1>5, <2>1, TypeKept
<1>7. NamedInv'
  BY <1>2, SeenLater, SameRanges
<1>8. Partition' /\ \A c : Successors(c)' = Successors(c)
  BY <1>2, Stable
<1>9. ConnectInv'
  <2>1. Walks /\ \A c \in visited : conns[c] = Successors(c)
    BY <1>2 DEF IInv, ConnectInv
  <2>2. visited \subseteq Blocks
    BY DEF IInv, TypeOK
  <2>3. ASSUME NEW c \in visited'
        PROVE  conns'[c] = Successors(c) /\ Seqs!ToSet(conns'[c]) \subseteq Due'
    <3>1. CASE c = b
      BY <1>4, <1>5, <3>1
    <3>2. CASE c # b
      BY <1>4, <1>5, <2>1, <2>2, <2>3, <3>2 DEF Walks
    <3> QED BY <3>1, <3>2
  <2>4. 1 \in Due'
    BY <1>4, <2>1 DEF Walks
  <2> QED BY <1>8, <2>3, <2>4 DEF ConnectInv, Walks, Seqs!ToSet
<1>10. TryInv' /\ ConnectedInv' /\ PropagateInv' /\ PathsInv'
  <2>1. pc' = "connect"
    BY <1>2
  <2>2. PathsInv'
    BY <1>2, Stable DEF PathsInv
  <2> QED BY <2>1, <2>2 DEF TryInv, ConnectedInv, PropagateInv
<1> QED BY <1>6, <1>7, <1>8, <1>9, <1>10 DEF IInv

\* What holds after any step that leaves the ranges and the connections alone.
LEMMA UnchangedFacts ==
  ASSUME IInv, fn' = fn, blocks' = blocks, at' = at, operand' = operand, ranges' = ranges, conns' = conns,
         pc \in {"visit", "fill", "propagate", "done"}, pc' \in {"visit", "fill", "propagate", "done"},
         pending' \in Seq(Blocks), visited' \subseteq Blocks,
         paths' \in Seq(Seq(Blocks) \ {<<>>}), visited2' \subseteq Blocks
  PROVE  Partition' /\ TypeOK' /\ PathsInv' /\ NamedInv' /\ TryInv' /\ ConnectInv' /\ ConnectedInv'
<1>1. /\ fn \in Functions /\ Partition
      /\ ranges \in [Blocks -> Seq(RangeType)] /\ Bounded(ranges) /\ conns \in [Blocks -> Seq(Blocks)]
  BY DEF IInv, TypeOK, Bounded
<1>2. TypeOK'
  <2>1. /\ at' \in 1..(Len(code) + 1)
        /\ operand' \in 1..(IF at' \in DOMAIN code THEN Len(OperandsAt(at)') + 1 ELSE 1)
    BY SameOperands
  <2>2. paths' \in Seq(Seq(Blocks))
    <3> DEFINE T == Seq(Blocks) \ {<<>>}
               U == Seq(Blocks)
    <3>1. T \subseteq U /\ paths' \in Seq(T)
      OBVIOUS
    <3> HIDE DEF T, U
    <3>2. paths' \in Seq(U)
      BY <3>1, SeqSubset
    <3> QED BY <3>2 DEF U
  <2> QED BY <1>1, <2>1, <2>2, TypeKept
<1>3. NamedInv'
  BY SeenLater, SameRanges
<1>4. ConnectedInv'
  BY ConnectedKept DEF IInv, ConnectedInv
<1>5. Partition' /\ Blocks' = Blocks
  BY <1>1, Stable
<1> QED BY <1>2, <1>3, <1>4, <1>5 DEF PathsInv, TryInv, ConnectInv

LEMMA VisitInv == IInv /\ Visit => IInv'
<1> SUFFICES ASSUME IInv, Visit PROVE IInv'
  OBVIOUS
<1>1. PICK b \in Blocks : Enter(b, conns[b]) /\ paths' = <<<<b>>>> /\ visited2' = {}
  BY DEF Visit
<1>2. /\ pc = "visit" /\ pc' = "fill" /\ fn' = fn /\ blocks' = blocks /\ at' = at /\ operand' = operand
      /\ ranges' = ranges /\ conns' = conns /\ conns \in [Blocks -> Seq(Blocks)]
  BY DEF Visit, IInv, TypeOK
<1>3. pending' \in Seq(Blocks) /\ visited' \subseteq Blocks
  BY <1>1, <1>2, EnterFacts
<1>4. paths' \in Seq(Seq(Blocks) \ {<<>>})
  <2>1. <<b>> \in Seq(Blocks) \ {<<>>}
    OBVIOUS
  <2> HIDE DEF Blocks
  <2> QED BY <1>1, <2>1
<1>5. Partition' /\ TypeOK' /\ PathsInv' /\ NamedInv' /\ TryInv' /\ ConnectInv' /\ ConnectedInv'
  BY <1>1, <1>2, <1>3, <1>4, UnchangedFacts
<1> QED BY <1>2, <1>5 DEF IInv, PropagateInv

LEMMA EndFillInv == IInv /\ EndFill => IInv'
<1> SUFFICES ASSUME IInv, EndFill PROVE IInv'
  OBVIOUS
<1>1. /\ pc = "fill" /\ pc' = "visit" /\ fn' = fn /\ blocks' = blocks /\ at' = at /\ operand' = operand
      /\ ranges' = ranges /\ conns' = conns /\ pending' = pending /\ visited' = visited /\ paths' = paths
      /\ visited2' = visited2 /\ pending \in Seq(Blocks) /\ visited \subseteq Blocks
      /\ paths \in Seq(Seq(Blocks) \ {<<>>}) /\ visited2 \subseteq Blocks
  BY DEF EndFill, IInv, TypeOK, PathsInv
<1>2. Partition' /\ TypeOK' /\ PathsInv' /\ NamedInv' /\ TryInv' /\ ConnectInv' /\ ConnectedInv'
  BY <1>1, UnchangedFacts
<1> QED BY <1>1, <1>2 DEF IInv, PropagateInv

LEMMA FinishInv == IInv /\ Finish => IInv'
<1> SUFFICES ASSUME IInv, Finish PROVE IInv'
  OBVIOUS
<1>1. /\ pc = "propagate" /\ pending = <<>> /\ pc' = "done" /\ fn' = fn /\ blocks' = blocks
      /\ at' = at /\ operand' = operand
      /\ ranges' = ranges /\ conns' = conns /\ pending' = pending /\ visited' = visited /\ paths' = paths
      /\ visited2' = visited2 /\ pending \in Seq(Blocks) /\ visited \subseteq Blocks
      /\ paths \in Seq(Seq(Blocks) \ {<<>>}) /\ visited2 \subseteq Blocks
  BY DEF Finish, IInv, TypeOK, PathsInv
<1>2. Partition' /\ TypeOK' /\ PathsInv' /\ NamedInv' /\ TryInv' /\ ConnectInv' /\ ConnectedInv'
  BY <1>1, UnchangedFacts
<1>3. PropagateInv'
  <2>1. \A b : First(b)' = First(b) /\ Final(b)' = Final(b)
    BY <1>1, Stable
  <2>2. \A b, c : Shared(b, c)' = Shared(b, c)
    BY <1>1 DEF Shared, IdsOf
  <2>3. \A b, c, id : Met(b, c, id)' <=> Met(b, c, id)
    BY <1>1, <2>1 DEF Met, Back
  <2>4. \A b : Seqs!ToSet(conns[b])' = Seqs!ToSet(conns[b])
    BY <1>1 DEF Seqs!ToSet
  <2>5. Due' = Due
    BY <1>1 DEF Due, Seqs!ToSet
  <2>6. Walks' <=> Walks
    BY <1>1, <2>5 DEF Walks, Seqs!ToSet
  <2> QED BY <1>1, <2>2, <2>3, <2>4, <2>6 DEF IInv, PropagateInv
<1> QED BY <1>2, <1>3 DEF IInv

-----------------------------------------------------------------------------
\* Ranges that become longer keep what is known of them.
LEMMA LongerKeeps ==
  ASSUME fn \in Functions, Partition, NEW b \in Blocks, NEW id,
         NEW rs \in Seq(RangeType), NEW rt \in Seq(RangeType), Longer(rs, rt, First(b), Final(b))
  PROVE  Keeps(rs, rt, id, Instructions(b))
<1>1. PICK from \in Nat : from = First(b)
  BY BlockTypes
<1>2. PICK to \in Nat : to = Final(b)
  BY BlockTypes
<1>3. /\ id \in IdsOf(rs) => id \in IdsOf(rt) /\ rs[Back(rs, id)].last <= rt[Back(rt, id)].last
      /\ \A i \in Nat : CoversIn(rs, id, i) => CoversIn(rt, id, i)
      /\ id \in IdsOf(rt) \ IdsOf(rs) => \A i \in from..to : CoversIn(rt, id, i)
  BY <1>1, <1>2, LongerFacts
<1> QED BY <1>1, <1>2, <1>3 DEF Keeps, Instructions

\* Copies are for ids that the block had no range for, and fill it.
LEMMA CopiesFacts ==
  ASSUME IInv, NEW b \in Blocks, NEW path \in Seq(Blocks), path # <<>>
  PROVE  /\ Copies(b, path) \in Seq(RangeType)
         /\ \A k \in DOMAIN Copies(b, path) :
              /\ Copies(b, path)[k].id \notin IdsOf(ranges[b])
              /\ Copies(b, path)[k].first = First(b) /\ Copies(b, path)[k].last = Final(b)
<1> DEFINE source == ranges[path[1]]
           S == {k \in DOMAIN source : Wanted(source[k], path[Len(path)]) /\ Missing(b, source[k].id)}
           from == Kept(source, S)
           e(k) == [from[k] EXCEPT !.first = First(b), !.last = Final(b)]
           v == [k \in DOMAIN from |-> e(k)]
<1>1. /\ path[1] \in Blocks /\ source \in Seq(RangeType) /\ First(b) \in Nat /\ Final(b) \in Nat
  <2>1. fn \in Functions /\ Partition /\ ranges \in [Blocks -> Seq(RangeType)]
    BY DEF IInv, TypeOK
  <2>2. path[1] \in Blocks
    OBVIOUS
  <2> QED BY <2>1, <2>2, BlockTypes
<1>2. S \in SUBSET DOMAIN source /\ \A k \in S : source[k].id \notin IdsOf(ranges[b])
  BY DEF Missing
<1>3. Copies(b, path) = v
  BY DEF Copies
<1> HIDE DEF source, S
<1>4. /\ Cardinality(S) \in Nat /\ from \in Seq(RangeType) /\ DOMAIN from = 1..Cardinality(S)
      /\ \A k \in 1..Cardinality(S) : Nth(S, k) \in S /\ from[k] = source[Nth(S, k)]
  <2> HIDE DEF from
  <2>1. /\ Cardinality(S) \in Nat
        /\ Kept(source, S) \in Seq(RangeType)
        /\ DOMAIN Kept(source, S) = 1..Cardinality(S)
        /\ \A k \in 1..Cardinality(S) : Nth(S, k) \in S /\ Kept(source, S)[k] = source[Nth(S, k)]
    BY <1>1, <1>2, KeptFacts
  <2> QED BY <2>1 DEF from
<1>5. \A k \in DOMAIN from : from[k] \in RangeType /\ from[k].id \notin IdsOf(ranges[b])
  <2> HIDE DEF from
  <2> QED BY <1>2, <1>4
<1>6. \A k \in DOMAIN from : e(k) \in RangeType /\ e(k).id = from[k].id /\ e(k).first = First(b) /\ e(k).last = Final(b)
  <2> SUFFICES ASSUME NEW k \in DOMAIN from
               PROVE  e(k) \in RangeType /\ e(k).id = from[k].id /\ e(k).first = First(b) /\ e(k).last = Final(b)
    OBVIOUS
  <2>1. PICK r \in RangeType : r = from[k]
    BY <1>5
  <2>2. PICK x \in Nat : x = First(b)
    BY <1>1
  <2>3. PICK y \in Nat : y = Final(b)
    BY <1>1
  <2>4. e(k) = [r EXCEPT !.first = x, !.last = y]
    BY <2>1, <2>2, <2>3, Zenon
  <2>5. LET q == [r EXCEPT !.first = x, !.last = y]
        IN  q \in RangeType /\ q.id = r.id /\ q.first = x /\ q.last = y
    BY DEF RangeType
  <2> HIDE DEF e
  <2> QED BY <2>1, <2>2, <2>3, <2>4, <2>5
<1> HIDE DEF from, e
<1>7. v \in Seq(RangeType) /\ DOMAIN v = DOMAIN from /\ \A k \in DOMAIN from : v[k] = e(k)
  BY <1>4, <1>6
<1> HIDE DEF v
<1> QED BY <1>3, <1>5, <1>6, <1>7

LEMMA FilledFacts ==
  ASSUME IInv, NEW b \in Blocks, NEW path \in Seq(Blocks), path # <<>>,
         NEW rs, rs = ranges[b], NEW rt, rt = ranges[b] \o Copies(b, path)
  PROVE  /\ rt \in Seq(RangeType) /\ Longer(rs, rt, First(b), Final(b))
         /\ \A k \in DOMAIN rt : First(b) <= rt[k].first /\ rt[k].first <= rt[k].last /\ rt[k].last <= Final(b)
<1>1. /\ fn \in Functions /\ Partition /\ rs \in Seq(RangeType)
      /\ \A k \in DOMAIN rs : First(b) <= rs[k].first /\ rs[k].first <= rs[k].last /\ rs[k].last <= Final(b)
  BY DEF IInv, TypeOK
<1>2. First(b) \in Nat /\ Final(b) \in Nat /\ First(b) <= Final(b)
  BY <1>1, BlockTypes DEF Partition
<1>3. PICK q \in Seq(RangeType) : q = Copies(b, path)
  BY CopiesFacts
<1>4. \A k \in DOMAIN q : q[k].id \notin IdsOf(rs) /\ q[k].first = First(b) /\ q[k].last = Final(b)
  BY <1>3, CopiesFacts
<1>5. PICK n \in Nat : n = Len(rs)
  BY <1>1
<1>6. PICK m \in Nat : m = Len(q)
  OBVIOUS
<1>7. /\ rt \in Seq(RangeType) /\ Len(rt) = n + m /\ DOMAIN rt = 1..(n + m) /\ DOMAIN rs = 1..n /\ DOMAIN q = 1..m
      /\ \A k \in 1..(n + m) : rt[k] = IF k <= n THEN rs[k] ELSE q[k - n]
  BY <1>1, <1>3, <1>5, <1>6, ConcatFacts
<1>8. \A k \in 1..n : k \in 1..(n + m) /\ k <= n /\ rt[k] = rs[k]
  BY <1>7
<1>9. \A k \in 1..(n + m) : k \notin 1..n => k - n \in 1..m /\ rt[k] = q[k - n]
  <2>1. \A k \in 1..(n + m) : k \notin 1..n => ~(k <= n) /\ k - n \in 1..m
    OBVIOUS
  <2> QED BY <1>7, <2>1
<1>10. \A k \in 1..n : rs[k].first \in Nat /\ rs[k].last \in Nat
  BY <1>1, <1>7, RangeFields
<1>11. Longer(rs, rt, First(b), Final(b))
  <2>1. \A k \in DOMAIN rs : rt[k].id = rs[k].id /\ rt[k].first <= rs[k].first /\ rs[k].last <= rt[k].last
    BY <1>7, <1>8, <1>10
  <2>2. \A k \in DOMAIN rt : k \notin DOMAIN rs =>
          rt[k].id \notin IdsOf(rs) /\ rt[k].first = First(b) /\ rt[k].last = Final(b)
    <3> SUFFICES ASSUME NEW k \in 1..(n + m), k \notin 1..n
                 PROVE  rt[k].id \notin IdsOf(rs) /\ rt[k].first = First(b) /\ rt[k].last = Final(b)
      BY <1>7
    <3>1. PICK l \in 1..m : l = k - n
      BY <1>9
    <3>2. rt[k] = q[l] /\ l \in DOMAIN q
      BY <1>7, <1>9, <3>1
    <3> QED BY <1>4, <3>2
  <2> QED BY <1>5, <1>7, <2>1, <2>2 DEF Longer
<1>12. ASSUME NEW k \in DOMAIN rt
       PROVE  First(b) <= rt[k].first /\ rt[k].first <= rt[k].last /\ rt[k].last <= Final(b)
  <2>1. CASE k \in 1..n
    BY <1>1, <1>7, <1>8, <2>1
  <2>2. CASE k \notin 1..n
    <3>1. PICK l \in DOMAIN q : rt[k] = q[l]
      BY <1>7, <1>9, <2>2
    <3>2. rt[k].first = First(b) /\ rt[k].last = Final(b)
      BY <1>4, <3>1
    <3> QED BY <1>2, <3>2
  <2> QED BY <2>1, <2>2
<1> QED BY <1>7, <1>11, <1>12

\* A step that makes ranges longer.
LEMMA LongerStep ==
  ASSUME IInv, fn' = fn, blocks' = blocks, at' = at, operand' = operand, conns' = conns,
         pc \in {"visit", "fill", "propagate", "done"}, pc' \in {"visit", "fill", "propagate", "done"},
         ranges' \in [Blocks -> Seq(RangeType)], Bounded(ranges'),
         \A b \in Blocks : Longer(ranges[b], ranges'[b], First(b), Final(b)),
         pending' \in Seq(Blocks), visited' \subseteq Blocks,
         paths' \in Seq(Seq(Blocks) \ {<<>>}), visited2' \subseteq Blocks
  PROVE  Partition' /\ TypeOK' /\ PathsInv' /\ NamedInv' /\ TryInv' /\ ConnectInv' /\ ConnectedInv'
<1>1. /\ fn \in Functions /\ Partition
      /\ ranges \in [Blocks -> Seq(RangeType)] /\ conns \in [Blocks -> Seq(Blocks)]
  BY DEF IInv, TypeOK
<1>2. TypeOK'
  <2>1. /\ at' \in 1..(Len(code) + 1)
        /\ operand' \in 1..(IF at' \in DOMAIN code THEN Len(OperandsAt(at)') + 1 ELSE 1)
    BY SameOperands
  <2>2. paths' \in Seq(Seq(Blocks))
    <3> DEFINE T == Seq(Blocks) \ {<<>>}
               U == Seq(Blocks)
    <3>1. T \subseteq U /\ paths' \in Seq(T)
      OBVIOUS
    <3> HIDE DEF T, U
    <3>2. paths' \in Seq(U)
      BY <3>1, SeqSubset
    <3> QED BY <3>2 DEF U
  <2> QED BY <1>1, <2>1, <2>2, TypeKept
<1>3. ASSUME NEW b \in Blocks, NEW id \in Ids PROVE Named(b, id)'
  <2>1. ranges[b] \in Seq(RangeType) /\ ranges'[b] \in Seq(RangeType)
    BY <1>1
  <2>2. Keeps(ranges[b], ranges'[b], id, Instructions(b))
    BY <1>1, <2>1, LongerKeeps
  <2>3. Named(b, id) /\ \A i \in Instructions(b) : Seen(i, id)' <=> Seen(i, id)
    BY SeenLater DEF IInv, NamedInv
  <2> QED BY <1>1, <2>1, <2>2, <2>3, NamedKept
<1>4. ConnectedInv'
  BY ConnectedKept DEF IInv, ConnectedInv
<1>5. Partition' /\ Blocks' = Blocks
  BY <1>1, Stable
<1>6. NamedInv'
  BY <1>3, <1>5 DEF NamedInv
<1> QED BY <1>2, <1>4, <1>5, <1>6 DEF PathsInv, TryInv, ConnectInv

LEMMA SameLonger ==
  ASSUME NEW rs \in Seq(RangeType), NEW from, NEW to
  PROVE  Longer(rs, rs, from, to)
<1>1. \A k \in DOMAIN rs : rs[k] \in RangeType
  OBVIOUS
<1>2. \A k \in DOMAIN rs : rs[k].first \in Nat /\ rs[k].last \in Nat
  BY <1>1, RangeFields
<1>3. Len(rs) \in Nat
  OBVIOUS
<1> QED BY <1>2, <1>3 DEF Longer

LEMMA FillHolesInv == IInv /\ FillHoles => IInv'
<1> SUFFICES ASSUME IInv, FillHoles PROVE IInv'
  OBVIOUS
<1> DEFINE path == Head(paths)
           current == path[Len(path)]
           calls == [k \in DOMAIN conns[current] |-> Append(path, conns[current][k])]
           T == Seq(Blocks) \ {<<>>}
<1>1. /\ pc = "fill" /\ pc' = pc /\ paths # <<>> /\ fn' = fn /\ blocks' = blocks /\ at' = at /\ operand' = operand
      /\ conns' = conns /\ pending' = pending /\ visited' = visited
      /\ ranges' = [b \in Blocks |-> IF b \in Interior(path) THEN ranges[b] \o Copies(b, path) ELSE ranges[b]]
      /\ visited2' = visited2 \cup {current}
      /\ paths' = IF current \in visited2 THEN Tail(paths) ELSE calls \o Tail(paths)
      /\ fn \in Functions /\ Partition /\ paths \in Seq(T)
      /\ ranges \in [Blocks -> Seq(RangeType)] /\ Bounded(ranges) /\ conns \in [Blocks -> Seq(Blocks)]
      /\ pending \in Seq(Blocks) /\ visited \subseteq Blocks /\ visited2 \subseteq Blocks
  BY DEF FillHoles, IInv, TypeOK, Bounded, PathsInv
<1>2. path \in T /\ Tail(paths) \in Seq(T)
  <2>1. paths \in Seq(T) /\ paths # <<>>
    BY <1>1
  <2> HIDE DEF T
  <2> QED BY <2>1
<1>3. path \in Seq(Blocks) /\ path # <<>> /\ current \in Blocks
  <2>1. path \in Seq(Blocks) /\ path # <<>>
    BY <1>2
  <2> HIDE DEF path
  <2>2. Len(path) \in DOMAIN path
    BY <2>1
  <2> QED BY <2>1, <2>2
<1>4. paths' \in Seq(T)
  <2>1. PICK p \in Seq(Blocks) : p = path
    BY <1>3
  <2>2. PICK s \in Seq(Blocks) : s = conns[current]
    BY <1>1, <1>3
  <2>3. \A k \in DOMAIN s : Append(p, s[k]) \in T
    <3> SUFFICES ASSUME NEW k \in DOMAIN s PROVE Append(p, s[k]) \in T
      OBVIOUS
    <3>1. s[k] \in Blocks
      OBVIOUS
    <3>2. Append(p, s[k]) \in Seq(Blocks) /\ Len(Append(p, s[k])) = Len(p) + 1 /\ Len(p) \in Nat
      BY <3>1, AppendFacts
    <3> QED BY <3>2
  <2> DEFINE c == [k \in DOMAIN s |-> Append(p, s[k])]
  <2>4. PICK n \in Nat : n = Len(s)
    OBVIOUS
  <2>5. DOMAIN s = 1..n
    BY <2>4
  <2> HIDE DEF T
  <2>6. c \in [1..n -> T]
    BY <2>3, <2>5
  <2>7. c = calls
    BY <2>1, <2>2, Zenon
  <2> HIDE DEF c, calls, path, current
  <2>8. c \in Seq(T)
    BY <2>6
  <2>9. PICK u \in Seq(T) : u = Tail(paths)
    BY <1>2
  <2>10. c \o u \in Seq(T)
    BY <2>8, ConcatFacts
  <2> QED BY <1>1, <2>7, <2>9, <2>10
<1>5. ASSUME NEW b \in Blocks
      PROVE  /\ ranges'[b] \in Seq(RangeType) /\ Longer(ranges[b], ranges'[b], First(b), Final(b))
             /\ \A k \in DOMAIN ranges'[b] :
                  First(b) <= ranges'[b][k].first /\ ranges'[b][k].first <= ranges'[b][k].last /\ ranges'[b][k].last <= Final(b)
  <2>1. CASE b \in Interior(path)
    <3>1. ranges'[b] = ranges[b] \o Copies(b, path)
      BY <1>1, <2>1
    <3> HIDE DEF path
    <3> QED BY <1>3, <3>1, FilledFacts
  <2>2. CASE b \notin Interior(path)
    <3>1. ranges'[b] = ranges[b]
      BY <1>1, <2>2
    <3> QED BY <1>1, <3>1, SameLonger DEF Bounded
  <2> QED BY <2>1, <2>2
<1>6. ranges' \in [Blocks -> Seq(RangeType)] /\ Bounded(ranges')
  BY <1>1, <1>5 DEF Bounded
<1>7. visited2' \subseteq Blocks
  BY <1>1, <1>3
<1> HIDE DEF path, current, calls
<1>8. Partition' /\ TypeOK' /\ PathsInv' /\ NamedInv' /\ TryInv' /\ ConnectInv' /\ ConnectedInv'
  BY <1>1, <1>4, <1>5, <1>6, <1>7, LongerStep
<1> QED BY <1>1, <1>8 DEF IInv, PropagateInv

\* What an edge does to the ranges at its ends.
Outgoing(b) == UNION {Shared(b, c) : c \in Seqs!ToSet(conns[b])}
MeetsAt(b, c, k) ==
  c \in Seqs!ToSet(conns[b]) /\ ranges[c][k].id \in Shared(b, c) /\ k = Back(ranges[c], ranges[c][k].id)

LEMMA ExtendedFacts ==
  ASSUME IInv, NEW b \in Blocks, NEW R, R = Extended(b)
  PROVE  /\ R \in [Blocks -> Seq(RangeType)] /\ Bounded(R)
         /\ \A c \in Blocks : Longer(ranges[c], R[c], First(c), Final(c))
         /\ \A c \in Blocks : DOMAIN R[c] = DOMAIN ranges[c] /\ \A k \in DOMAIN ranges[c] :
              /\ R[c][k].id = ranges[c][k].id
              /\ R[c][k].first = IF MeetsAt(b, c, k) THEN First(c) ELSE ranges[c][k].first
              /\ R[c][k].last = IF c = b /\ ranges[c][k].id \in Outgoing(b) THEN Final(b) ELSE ranges[c][k].last
<1> DEFINE Start(c, k) == IF MeetsAt(b, c, k) THEN First(c) ELSE ranges[c][k].first
           End(c, k) == IF c = b /\ ranges[c][k].id \in Outgoing(b) THEN Final(b) ELSE ranges[c][k].last
           e(c, k) == [ranges[c][k] EXCEPT !.first = Start(c, k), !.last = End(c, k)]
           v(c) == [k \in DOMAIN ranges[c] |-> e(c, k)]
<1>1. R = [c \in Blocks |-> v(c)]
  BY DEF Extended, MeetsAt, Outgoing
<1>2. fn \in Functions /\ Partition /\ ranges \in [Blocks -> Seq(RangeType)] /\ Bounded(ranges)
  BY DEF IInv, TypeOK, Bounded
<1>3. ASSUME NEW c \in Blocks, NEW k \in DOMAIN ranges[c]
      PROVE  /\ e(c, k) \in RangeType
             /\ e(c, k).id = ranges[c][k].id /\ e(c, k).first = Start(c, k) /\ e(c, k).last = End(c, k)
             /\ First(c) <= Start(c, k) /\ Start(c, k) <= ranges[c][k].first
             /\ ranges[c][k].last <= End(c, k) /\ End(c, k) <= Final(c) /\ Start(c, k) <= End(c, k)
  <2>1. ranges[c] \in Seq(RangeType)
    BY <1>2
  <2>2. PICK r \in RangeType : r = ranges[c][k]
    BY <2>1
  <2>3. PICK x \in Nat : x = First(c)
    BY <1>2, BlockTypes
  <2>4. PICK y \in Nat : y = Final(c)
    BY <1>2, BlockTypes
  <2>5. PICK f \in Nat : f = r.first
    BY RangeFields
  <2>6. PICK l \in Nat : l = r.last
    BY RangeFields
  <2>7. x <= f /\ f <= l /\ l <= y
    BY <1>2, <2>2, <2>3, <2>4, <2>5, <2>6 DEF Bounded
  <2>8. PICK s \in Nat : s = Start(c, k) /\ (s = x \/ s = f)
    BY <2>2, <2>3, <2>5
  <2>9. PICK t \in Nat : t = End(c, k) /\ (t = y \/ t = l)
    BY <2>2, <2>4, <2>6
  <2> HIDE DEF Start, End
  <2>10. e(c, k) = [r EXCEPT !.first = s, !.last = t]
    BY <2>2, <2>8, <2>9, Zenon
  <2>11. LET q == [r EXCEPT !.first = s, !.last = t]
         IN  q \in RangeType /\ q.id = r.id /\ q.first = s /\ q.last = t
    BY DEF RangeType
  <2> HIDE DEF e
  <2>12. x <= s /\ s <= f /\ l <= t /\ t <= y /\ s <= t
    BY <2>7, <2>8, <2>9
  <2>13. e(c, k) \in RangeType /\ e(c, k).id = r.id /\ e(c, k).first = s /\ e(c, k).last = t
    BY <2>10, <2>11
  <2> QED BY <2>2, <2>3, <2>4, <2>5, <2>6, <2>8, <2>9, <2>12, <2>13
<1> HIDE DEF e, Start, End
<1>4. ASSUME NEW c \in Blocks
      PROVE  /\ v(c) \in Seq(RangeType) /\ DOMAIN v(c) = DOMAIN ranges[c] /\ Len(v(c)) = Len(ranges[c])
             /\ \A k \in DOMAIN ranges[c] : v(c)[k] = e(c, k)
  <2>1. PICK rs \in Seq(RangeType) : rs = ranges[c]
    BY <1>2
  <2>2. PICK n \in Nat : n = Len(rs)
    OBVIOUS
  <2>3. DOMAIN rs = 1..n /\ \A k \in 1..n : e(c, k) \in RangeType
    BY <1>3, <2>1, <2>2
  <2> DEFINE u == [k \in 1..n |-> e(c, k)]
  <2>4. u = v(c)
    BY <2>1, <2>3
  <2>5. u \in Seq(RangeType) /\ DOMAIN u = 1..n /\ Len(u) = n /\ \A k \in 1..n : u[k] = e(c, k)
    BY <2>3
  <2> HIDE DEF u, v
  <2> QED BY <2>1, <2>2, <2>3, <2>4, <2>5
<1> HIDE DEF v
<1>5. \A c \in Blocks : R[c] = v(c) /\ DOMAIN R = Blocks
  BY <1>1
<1>6. R \in [Blocks -> Seq(RangeType)]
  BY <1>1, <1>4
<1>7. Bounded(R)
  BY <1>3, <1>4, <1>5 DEF Bounded
<1>8. ASSUME NEW c \in Blocks
      PROVE  Longer(ranges[c], R[c], First(c), Final(c))
  <2>1. Len(ranges[c]) \in Nat
    BY <1>2
  <2> QED BY <1>3, <1>4, <1>5, <2>1 DEF Longer
<1>9. \A c \in Blocks : DOMAIN R[c] = DOMAIN ranges[c] /\ \A k \in DOMAIN ranges[c] :
        R[c][k].id = ranges[c][k].id /\ R[c][k].first = Start(c, k) /\ R[c][k].last = End(c, k)
  BY <1>3, <1>4, <1>5
<1> QED BY <1>6, <1>7, <1>8, <1>9 DEF Start, End

LEMMA PropagateStepInv == IInv /\ Propagate => IInv'
<1> SUFFICES ASSUME IInv, Propagate PROVE IInv'
  OBVIOUS
<1>1. PICK b \in Blocks : Enter(b, conns[b]) /\ ranges' = Extended(b)
  BY DEF Propagate
<1>2. /\ pc = "propagate" /\ pc' = pc /\ fn' = fn /\ blocks' = blocks /\ at' = at /\ operand' = operand
      /\ conns' = conns /\ paths' = paths /\ visited2' = visited2
      /\ fn \in Functions /\ Partition /\ paths \in Seq(Seq(Blocks) \ {<<>>}) /\ visited2 \subseteq Blocks
      /\ ranges \in [Blocks -> Seq(RangeType)] /\ conns \in [Blocks -> Seq(Blocks)]
      /\ visited \subseteq Blocks
      /\ Walks /\ \A d \in visited : \A c \in Seqs!ToSet(conns[d]) : \A id \in Shared(d, c) : Met(d, c, id)
  BY DEF Propagate, IInv, TypeOK, PathsInv, PropagateInv
<1>3. conns[b] \in Seq(Blocks) /\ \A d \in Blocks : Seqs!ToSet(conns[d]) \subseteq Blocks
  BY <1>2 DEF Seqs!ToSet
<1>4. /\ pending' \in Seq(Blocks) /\ visited' \subseteq Blocks /\ visited' = visited \cup {b} /\ b \notin visited
      /\ Due' = Due \cup Seqs!ToSet(conns[b])
  BY <1>1, <1>3, EnterFacts
<1>5. PICK R : R = ranges'
  OBVIOUS
<1>6. /\ R \in [Blocks -> Seq(RangeType)] /\ Bounded(R)
      /\ \A c \in Blocks : Longer(ranges[c], R[c], First(c), Final(c))
      /\ \A c \in Blocks : DOMAIN R[c] = DOMAIN ranges[c] /\ \A k \in DOMAIN ranges[c] :
           /\ R[c][k].id = ranges[c][k].id
           /\ R[c][k].first = IF MeetsAt(b, c, k) THEN First(c) ELSE ranges[c][k].first
           /\ R[c][k].last = IF c = b /\ ranges[c][k].id \in Outgoing(b) THEN Final(b) ELSE ranges[c][k].last
  BY <1>1, <1>5, ExtendedFacts
<1>7. Partition' /\ TypeOK' /\ PathsInv' /\ NamedInv' /\ TryInv' /\ ConnectInv' /\ ConnectedInv'
  <2>1. paths' \in Seq(Seq(Blocks) \ {<<>>}) /\ visited2' \subseteq Blocks
    BY <1>2
  <2> QED BY <1>2, <1>4, <1>5, <1>6, <2>1, LongerStep
<1>8. ASSUME NEW c \in Blocks
      PROVE  /\ IdsOf(R[c]) = IdsOf(ranges[c])
             /\ \A id \in IdsOf(ranges[c]) :
                  /\ Back(R[c], id) = Back(ranges[c], id) /\ Back(ranges[c], id) \in DOMAIN ranges[c]
                  /\ ranges[c][Back(ranges[c], id)].id = id
  <2>1. IdsOf(R[c]) = IdsOf(ranges[c])
    <3>1. DOMAIN R[c] = DOMAIN ranges[c] /\ \A k \in DOMAIN ranges[c] : R[c][k].id = ranges[c][k].id
      BY <1>6
    <3> QED BY <3>1 DEF IdsOf
  <2>2. ranges[c] \in Seq(RangeType) /\ R[c] \in Seq(RangeType)
    BY <1>2, <1>6
  <2>3. ASSUME NEW id \in IdsOf(ranges[c])
        PROVE  /\ Back(R[c], id) = Back(ranges[c], id) /\ Back(ranges[c], id) \in DOMAIN ranges[c]
               /\ ranges[c][Back(ranges[c], id)].id = id
    <3>1. /\ Back(ranges[c], id) \in DOMAIN ranges[c] /\ ranges[c][Back(ranges[c], id)].id = id
          /\ \A l \in DOMAIN ranges[c] : ranges[c][l].id = id => l <= Back(ranges[c], id)
      BY <2>2, BackFacts
    <3>2. /\ Back(ranges[c], id) \in DOMAIN R[c] /\ R[c][Back(ranges[c], id)].id = id
          /\ \A l \in DOMAIN R[c] : R[c][l].id = id => l <= Back(ranges[c], id)
      BY <1>6, <3>1
    <3>3. Back(R[c], id) = Back(ranges[c], id)
      BY <2>2, <3>2, BackFacts
    <3> QED BY <3>1, <3>3
  <2> QED BY <2>1, <2>3
<1>9. ASSUME NEW d \in visited', NEW c \in Seqs!ToSet(conns[d]), NEW id \in Shared(d, c)
      PROVE  /\ R[c][Back(R[c], id)].first = First(c)
             /\ \A k \in DOMAIN R[d] : R[d][k].id = id => R[d][k].last = Final(d)
  <2>1. d \in Blocks /\ c \in Blocks /\ id \in IdsOf(ranges[d]) /\ id \in IdsOf(ranges[c])
    BY <1>3, <1>4 DEF Shared
  <2>2. /\ Back(R[c], id) = Back(ranges[c], id) /\ Back(ranges[c], id) \in DOMAIN ranges[c]
        /\ ranges[c][Back(ranges[c], id)].id = id
    BY <1>8, <2>1
  <2>3. CASE d = b
    <3>1. MeetsAt(b, c, Back(ranges[c], id)) /\ id \in Outgoing(b)
      BY <2>2, <2>3 DEF MeetsAt, Outgoing
    <3> QED BY <1>6, <2>1, <2>2, <2>3, <3>1
  <2>4. CASE d # b
    <3>1. Met(d, c, id)
      BY <1>2, <1>4, <2>4
    <3> QED BY <1>6, <2>1, <2>2, <2>4, <3>1 DEF Met
  <2> QED BY <2>3, <2>4
<1>10. Walks'
  <2>1. \A d \in visited' : Seqs!ToSet(conns[d]) \subseteq Due'
    BY <1>2, <1>4 DEF Walks
  <2>2. \A d : Seqs!ToSet(conns[d])' = Seqs!ToSet(conns[d])
    BY <1>2 DEF Seqs!ToSet
  <2>3. 1 \in Due'
    BY <1>2, <1>4 DEF Walks
  <2> QED BY <2>1, <2>2, <2>3 DEF Walks
<1>11. PropagateInv'
  <2>1. \A d : Seqs!ToSet(conns[d])' = Seqs!ToSet(conns[d])
    BY <1>2 DEF Seqs!ToSet
  <2>2. \A d : First(d)' = First(d) /\ Final(d)' = Final(d)
    BY <1>2, Stable
  <2>3. ASSUME NEW d \in visited', NEW c \in Seqs!ToSet(conns[d]), NEW id \in Shared(d, c)'
        PROVE  Met(d, c, id)'
    <3>1. d \in Blocks /\ c \in Blocks
      BY <1>3, <1>4
    <3>2. Shared(d, c)' = IdsOf(R[d]) \cap IdsOf(R[c])
      BY <1>5 DEF Shared, IdsOf
    <3>3. id \in Shared(d, c)
      BY <1>8, <3>1, <3>2 DEF Shared
    <3>4. /\ R[c][Back(R[c], id)].first = First(c)
          /\ \A k \in DOMAIN R[d] : R[d][k].id = id => R[d][k].last = Final(d)
      BY <1>9, <3>3
    <3>5. Back(ranges[c], id)' = Back(R[c], id)
      BY <1>5 DEF Back
    <3> QED BY <1>5, <2>2, <3>4, <3>5 DEF Met
  <2> QED BY <1>2, <1>10, <2>1, <2>3 DEF PropagateInv
<1> QED BY <1>7, <1>11 DEF IInv

LEMMA StutterInv == IInv /\ UNCHANGED vars => IInv'
<1> SUFFICES ASSUME IInv, UNCHANGED vars PROVE IInv'
  OBVIOUS
<1>1. /\ fn' = fn /\ pc' = pc /\ blocks' = blocks /\ at' = at /\ operand' = operand /\ ranges' = ranges
      /\ conns' = conns /\ pending' = pending /\ visited' = visited /\ paths' = paths /\ visited2' = visited2
  BY DEF vars
<1>2. /\ code' = code /\ Blocks' = Blocks /\ Partition'
      /\ \A b : First(b)' = First(b) /\ Final(b)' = Final(b) /\ Successors(b)' = Successors(b)
  BY <1>1, Stable DEF IInv
<1>3. \A i, id : Seen(i, id)' <=> Seen(i, id)
  BY <1>1, SeenStable DEF Past
<1>4. NamedInv'
  BY <1>1, <1>3, SameRanges
<1>5. TypeOK'
  <2>1. /\ at' \in 1..(Len(code) + 1)
        /\ operand' \in 1..(IF at' \in DOMAIN code THEN Len(OperandsAt(at)') + 1 ELSE 1)
    BY <1>1, SameOperands
  <2> QED BY <1>1, <2>1, TypeKept DEF IInv, TypeOK, Bounded
<1>6. TryInv'
  <2>1. pc = "ranges" => \A b \in Blocks : \A id \in IdsOf(ranges[b]) :
          \E i : i = ranges[b][Back(ranges[b], id)].last /\ Seen(i, id)'
    BY <1>3 DEF IInv, TryInv
  <2>2. pc = "ranges" => \A b \in Blocks : \A k \in DOMAIN ranges[b] : ranges[b][k].last <= at
    BY DEF IInv, TryInv
  <2> QED BY <1>1, <1>2, <2>1, <2>2 DEF TryInv
<1>7. \A d : Seqs!ToSet(conns[d])' = Seqs!ToSet(conns[d])
  BY <1>1 DEF Seqs!ToSet
<1>8. Due' = Due
  BY <1>1 DEF Due, Seqs!ToSet
<1>9. Walks' <=> Walks
  BY <1>1, <1>7, <1>8 DEF Walks
<1>10. ConnectInv'
  BY <1>1, <1>2, <1>9 DEF IInv, ConnectInv
<1>11. ConnectedInv'
  <2>1. CASE pc \in {"visit", "fill", "propagate", "done"}
    BY <1>1, <2>1, ConnectedKept DEF IInv, ConnectedInv
  <2>2. CASE pc \notin {"visit", "fill", "propagate", "done"}
    BY <1>1, <2>2 DEF ConnectedInv
  <2> QED BY <2>1, <2>2
<1>12. PropagateInv'
  <2>1. \A b, c : Shared(b, c)' = Shared(b, c)
    BY <1>1 DEF Shared, IdsOf
  <2>2. \A b, c, id : Met(b, c, id)' <=> Met(b, c, id)
    BY <1>1, <1>2 DEF Met, Back
  <2> QED BY <1>1, <1>7, <1>9, <2>1, <2>2 DEF IInv, PropagateInv
<1> QED BY <1>1, <1>2, <1>4, <1>5, <1>6, <1>10, <1>11, <1>12 DEF IInv, PathsInv

LEMMA NextInv == IInv /\ [Next]_vars => IInv'
<1> SUFFICES ASSUME IInv, [Next]_vars PROVE IInv'
  OBVIOUS
<1>1. CASE TryRegister
  BY <1>1, TryRegisterInv
<1>2. CASE NextInstruction
  BY <1>2, NextInstructionInv
<1>3. CASE StartConnect
  BY <1>3, StartConnectInv
<1>4. CASE Connect
  BY <1>4, ConnectStepInv
<1>5. CASE StartVisit
  BY <1>5, StartVisitInv
<1>6. CASE Visit
  BY <1>6, VisitInv
<1>7. CASE FillHoles
  BY <1>7, FillHolesInv
<1>8. CASE EndFill
  BY <1>8, EndFillInv
<1>9. CASE StartPropagate
  BY <1>9, StartPropagateInv
<1>10. CASE Propagate
  BY <1>10, PropagateStepInv
<1>11. CASE Skip
  BY <1>11, SkipInv
<1>12. CASE Finish
  BY <1>12, FinishInv
<1>13. CASE Done \/ UNCHANGED vars
  BY <1>13, StutterInv DEF Done
<1> QED BY <1>1, <1>2, <1>3, <1>4, <1>5, <1>6, <1>7, <1>8, <1>9, <1>10, <1>11, <1>12, <1>13 DEF Next

THEOREM Invariance == Spec => []IInv
BY InitInv, NextInv, PTL DEF Spec

\* Every range lies within its block, from when it is made to when the allocator takes
\* it (liveness_propagator.cpp:84-191).
THEOREM TypeCorrect == Spec => []TypeOK
<1>1. IInv => TypeOK
  BY DEF IInv
<1> QED BY <1>1, Invariance, PTL

-----------------------------------------------------------------------------
\* Where the propagator ends: the invariant and the conditions of LiveCovered.
Settled(id) ==
  /\ IInv /\ pc = "done" /\ id \in Tracked
  /\ AtOnce(id) /\ AlwaysTried(id) /\ Initialised(id) /\ HolesFilled(id)

LEMMA SettledFacts ==
  ASSUME NEW id, Settled(id)
  PROVE  fn \in Functions /\ Partition /\ id \in Ids /\ \A b \in Blocks : ranges[b] \in Seq(RangeType) /\ Named(b, id)
BY DEF Settled, IInv, TypeOK, NamedInv, Tracked

\* Every operand with the id was tried.
LEMMA SeenOccurs ==
  ASSUME NEW id, Settled(id), NEW i \in DOMAIN code
  PROVE  Seen(i, id) <=> Occurs(i, id)
<1>1. fn \in Functions /\ pc # "ranges" /\ AlwaysTried(id)
  BY SettledFacts DEF Settled
<1>2. PICK p \in Nat : p = Len(Entry(i))
  BY <1>1, OperandsType
<1>3. PICK q \in Nat : q = Len(code[i].operands)
  BY <1>1, OperandsType
<1>4. /\ DOMAIN OperandsAt(i) = 1..(p + q) /\ DOMAIN code[i].operands = 1..q
      /\ \A k \in 1..(p + q) : OperandsAt(i)[k] = IF k <= p THEN Entry(i)[k] ELSE code[i].operands[k - p]
  BY <1>1, <1>2, <1>3, OperandsType
<1>5. Seen(i, id) <=> \E k \in 1..(p + q) : OperandsAt(i)[k].id = id
  BY <1>1, <1>4 DEF Seen, Tried, Past, AlwaysTried
<1>6. PICK r \in Nat : r = Len(fn.params)
  BY <1>1, CodeFacts
<1>7. DOMAIN fn.params = 1..r
  BY <1>1, <1>6, CodeFacts
<1>8. i = 1 => p = r /\ \A k \in 1..r : Entry(i)[k].id = fn.params[k]
  BY <1>1, <1>2, <1>6, EntryFacts
<1>9. i # 1 => p = 0
  BY <1>2 DEF Entry
<1>10. (i = 1 /\ id \in Seqs!ToSet(fn.params)) <=> \E k \in 1..p : Entry(i)[k].id = id
  BY <1>7, <1>8, <1>9 DEF Seqs!ToSet
<1>11. Does(i, id, Role) <=> \E k \in 1..q : code[i].operands[k].id = id
  <2> DEFINE Q == [id : Ids, role : Role]
  <2>1. code[i].operands \in Seq(Q)
    BY <1>1, CodeFacts
  <2> HIDE DEF Q
  <2>2. \A k \in 1..q : code[i].operands[k] \in Q
    BY <1>4, <2>1
  <2>3. \A k \in 1..q : code[i].operands[k].role \in Role
    BY <2>2 DEF Q
  <2> QED BY <1>4, <2>3 DEF Does
<1>12. (\E k \in 1..(p + q) : OperandsAt(i)[k].id = id)
         <=> (\E k \in 1..p : Entry(i)[k].id = id) \/ (\E k \in 1..q : code[i].operands[k].id = id)
  <2>1. ASSUME NEW k \in 1..(p + q), OperandsAt(i)[k].id = id
        PROVE  (\E l \in 1..p : Entry(i)[l].id = id) \/ (\E l \in 1..q : code[i].operands[l].id = id)
    <3>1. CASE k <= p
      <4>1. k \in 1..p
        BY <3>1
      <4> QED BY <1>4, <2>1, <3>1, <4>1
    <3>2. CASE ~(k <= p)
      <4>1. k - p \in 1..q
        BY <3>2
      <4> QED BY <1>4, <2>1, <3>2, <4>1
    <3> QED BY <3>1, <3>2
  <2>2. ASSUME NEW l \in 1..p, Entry(i)[l].id = id
        PROVE  \E k \in 1..(p + q) : OperandsAt(i)[k].id = id
    <3>1. l \in 1..(p + q) /\ l <= p
      OBVIOUS
    <3> QED BY <1>4, <2>2, <3>1
  <2>3. ASSUME NEW l \in 1..q, code[i].operands[l].id = id
        PROVE  \E k \in 1..(p + q) : OperandsAt(i)[k].id = id
    <3>1. l + p \in 1..(p + q) /\ ~(l + p <= p) /\ (l + p) - p = l
      OBVIOUS
    <3>2. OperandsAt(i)[l + p] = code[i].operands[l]
      BY <1>4, <3>1
    <3> QED BY <2>3, <3>1, <3>2
  <2> QED BY <2>1, <2>2, <2>3
<1> QED BY <1>5, <1>10, <1>11, <1>12 DEF Occurs

\* Where control comes, the block was visited with its connections and begun at its
\* first instruction, and it has not returned before.
LEMMA TakenFacts ==
  ASSUME IInv, pc = "done", NEW i \in Reached
  PROVE  LET b == BlockForInstruction(i)
         IN  /\ i \in DOMAIN code /\ b \in Blocks /\ i \in Instructions(b)
             /\ b \in visited /\ conns[b] = Successors(b) /\ First(b) \in Reached
             /\ \A j \in Instructions(b) : j < i => code[j].kind # "return"
<1>1. fn \in Functions /\ Partition /\ PropagateInv /\ ConnectedInv /\ visited \subseteq Blocks
  BY DEF IInv, TypeOK
<1>2. PICK C \in SUBSET Blocks : Connected(C)
  BY <1>1 DEF ConnectedInv
<1>3. 1 \in visited /\ \A b \in visited : Seqs!ToSet(conns[b]) \subseteq visited
  <2>1. Walks /\ pending = <<>>
    BY <1>1 DEF PropagateInv
  <2>2. Due = visited
    BY <2>1 DEF Due, Seqs!ToSet
  <2> QED BY <2>1, <2>2 DEF Walks
<1>4. Reached \in SUBSET DOMAIN code /\ 1 \in Reached /\ \A j \in Reached : Follows(j) \subseteq Reached
  BY <1>1, ReachedFacts
<1>5. ASSUME NEW b \in Blocks
      PROVE  First(b) \in DOMAIN code /\ First(b) \in Instructions(b) /\ BlockForInstruction(First(b)) = b
             /\ \A j \in Instructions(b) : ~(j < First(b))
  <2>1. First(b) \in Nat /\ Final(b) \in Nat /\ First(b) <= Final(b) /\ First(b) \in DOMAIN code
    BY <1>1, BlockTypes DEF Partition
  <2>2. First(b) \in Instructions(b) /\ \A j \in Instructions(b) : ~(j < First(b))
    BY <2>1 DEF Instructions
  <2> QED BY <1>1, <2>1, <2>2, BlockFacts
<1> DEFINE Good(x) == /\ BlockForInstruction(x) \in C \cap visited
                      /\ First(BlockForInstruction(x)) \in Reached
                      /\ \A j \in Instructions(BlockForInstruction(x)) : j < x => code[j].kind # "return"
           S == {x \in Reached : Good(x)}
<1>6. 1 \in S
  <2>1. 1 \in Blocks /\ First(1) = 1 /\ 1 \in C
    BY <1>1, <1>2 DEF Partition, Connected
  <2> QED BY <1>3, <1>4, <1>5, <2>1
<1>7. ASSUME NEW x \in S, NEW f \in Follows(x)
      PROVE  f \in S
  <2>1. PICK b \in Blocks : b = BlockForInstruction(x) /\ x \in Instructions(b)
    BY <1>1, <1>4, BlockFacts
  <2>2. f \in Reached /\ f \in DOMAIN code
    BY <1>4
  <2>3. code[x].kind # "return"
    BY DEF Follows
  <2>4. b \in C \cap visited /\ First(b) \in Reached /\ \A j \in Instructions(b) : j < x => code[j].kind # "return"
    BY <2>1
  <2>5. First(b) \in Nat /\ Final(b) \in Nat
    BY <1>1, BlockTypes
  <2>6. x \in Nat /\ \A j \in Instructions(b) : j \in Nat
    BY <2>1, <2>5 DEF Instructions
  <2>7. CASE x # Final(b)
    <3>1. f = x + 1 /\ x + 1 \in Instructions(b)
      BY <1>1, <2>1, <2>3, <2>7, InsideFacts
    <3>2. BlockForInstruction(f) = b
      BY <1>1, <2>2, <3>1, BlockFacts
    <3>3. \A j \in Instructions(b) : j < f => code[j].kind # "return"
      <4>1. \A j \in Instructions(b) : j < x + 1 => j < x \/ j = x
        BY <2>6
      <4> QED BY <2>3, <2>4, <3>1, <4>1
    <3> QED BY <2>2, <2>4, <3>2, <3>3
  <2>8. CASE x = Final(b)
    <3>1. \A j \in Instructions(b) : j < x \/ j = x
      BY <2>5, <2>8 DEF Instructions
    <3>2. ~Returning(b)
      BY <2>3, <2>4, <3>1 DEF Returning
    <3>3. PICK c \in Seqs!ToSet(Successors(b)) : f = First(c)
      BY <1>1, <2>8, <3>2, SuccessorFacts
    <3>4. c \in C \cap visited /\ c \in Blocks
      BY <1>1, <1>2, <1>3, <2>4, <3>3 DEF Connected
    <3> QED BY <1>5, <2>2, <3>3, <3>4
  <2> QED BY <2>7, <2>8
<1>8. Reached \subseteq S
  <2>1. S \in SUBSET DOMAIN code /\ \A x \in S : Follows(x) \subseteq S
    BY <1>4, <1>7
  <2> HIDE DEF S
  <2> QED BY <1>1, <1>6, <2>1, ReachedFacts
<1>9. i \in DOMAIN code /\ BlockForInstruction(i) \in Blocks /\ i \in Instructions(BlockForInstruction(i))
  BY <1>1, <1>4, BlockFacts
<1>10. Good(i)
  BY <1>8
<1> QED BY <1>2, <1>9, <1>10 DEF Connected

\* What an instruction that does not name the id does to it: nothing.
LEMMA IdleFacts ==
  ASSUME fn \in Functions, NEW id, NEW i \in DOMAIN code, ~Occurs(i, id)
  PROVE  i \in LiveIn(id) <=> Follows(i) \cap LiveIn(id) # {}
<1>1. ~Does(i, id, Reads) /\ ~Does(i, id, Writes)
  BY DEF Occurs, Does, Role, Reads, Writes
<1> QED BY <1>1, LiveFacts

\* A value that is needed behind i is handed on to m when nothing between names it.
LEMMA Forward ==
  ASSUME fn \in Functions, Partition, NEW id, NEW b \in Blocks,
         NEW i \in Instructions(b), NEW m \in Instructions(b), i <= m,
         Follows(i) \cap LiveIn(id) # {},
         \A x \in Instructions(b) : i < x /\ x <= m => ~Occurs(x, id)
  PROVE  \A x \in Instructions(b) : i <= x /\ x <= m =>
           /\ Follows(x) \cap LiveIn(id) # {} /\ code[x].kind # "return"
           /\ i # x => x \in LiveIn(id)
           /\ i \in Reached => x \in Reached
<1> DEFINE Good(x) == /\ Follows(x) \cap LiveIn(id) # {} /\ code[x].kind # "return"
                      /\ i # x => x \in LiveIn(id)
                      /\ i \in Reached => x \in Reached
           Bad == {x \in Instructions(b) : i <= x /\ x <= m /\ ~Good(x)}
<1>1. First(b) \in Nat /\ Final(b) \in Nat
  BY BlockTypes
<1>2. \A x \in Instructions(b) : x \in Nat /\ First(b) <= x /\ x <= Final(b)
  BY <1>1 DEF Instructions
<1>3. \A x \in DOMAIN code : Follows(x) \cap LiveIn(id) # {} => code[x].kind # "return"
  BY DEF Follows
<1>4. \A x \in Instructions(b) : x \in DOMAIN code
  <2> SUFFICES ASSUME NEW x \in Instructions(b) PROVE x \in DOMAIN code
    OBVIOUS
  <2>1. First(b) \in 1..Len(code) /\ Final(b) \in 1..Len(code) /\ DOMAIN code = 1..Len(code) /\ Len(code) \in Nat
    BY CodeFacts, BlockTypes
  <2> QED BY <1>2, <2>1
<1> SUFFICES ASSUME Bad # {} PROVE FALSE
  OBVIOUS
<1>5. PICK x \in Bad : \A y \in Bad : x <= y
  <2>1. Bad \in SUBSET Nat
    BY <1>2
  <2> HIDE DEF Bad
  <2> QED BY <2>1, LeastNatural
<1>6. x \in Instructions(b) /\ i <= x /\ x <= m /\ ~Good(x)
  BY <1>5
<1>7. Good(i)
  BY <1>3, <1>4
<1>8. x # i
  BY <1>6, <1>7
<1>9. x - 1 \in Instructions(b) /\ i <= x - 1 /\ x - 1 <= m /\ x - 1 # Final(b) /\ (x - 1) + 1 = x /\ ~(x <= x - 1)
  <2>1. x \in Nat /\ i \in Nat /\ m \in Nat /\ i < x
    BY <1>2, <1>6, <1>8
  <2>2. x - 1 \in Nat /\ i <= x - 1 /\ x - 1 <= m /\ (x - 1) + 1 = x /\ ~(x <= x - 1)
    BY <1>6, <2>1
  <2>3. First(b) <= i /\ x <= Final(b)
    BY <1>2, <1>6
  <2>4. x - 1 \in Instructions(b) /\ x - 1 # Final(b)
    BY <1>1, <2>1, <2>2, <2>3 DEF Instructions
  <2> QED BY <2>2, <2>4
<1>10. Good(x - 1)
  <2>1. x - 1 \notin Bad
    BY <1>5, <1>9
  <2> QED BY <1>9, <2>1
<1>11. Follows(x - 1) = {x}
  BY <1>9, <1>10, InsideFacts
<1>12. x \in LiveIn(id)
  BY <1>10, <1>11
<1>13. ~Occurs(x, id)
  BY <1>2, <1>6, <1>8
<1>14. i \in Reached => x \in Reached
  BY <1>10, <1>11, ReachedFacts
<1>15. Good(x)
  BY <1>3, <1>4, <1>6, <1>12, <1>13, <1>14, IdleFacts
<1> QED BY <1>6, <1>15

\* A value that is needed at i is needed from m on when nothing between names it.
LEMMA Backward ==
  ASSUME fn \in Functions, Partition, NEW id, NEW b \in Blocks,
         NEW i \in Instructions(b), NEW m \in Instructions(b), m <= i,
         i \in LiveIn(id),
         \A x \in Instructions(b) : x < i => code[x].kind # "return",
         \A x \in Instructions(b) : m <= x /\ x < i => ~Occurs(x, id)
  PROVE  \A x \in Instructions(b) : m <= x /\ x <= i => x \in LiveIn(id)
<1> DEFINE Bad == {x \in Instructions(b) : m <= x /\ x <= i /\ x \notin LiveIn(id)}
<1>1. First(b) \in Nat /\ Final(b) \in Nat
  BY BlockTypes
<1>2. \A x \in Instructions(b) : x \in Nat /\ First(b) <= x /\ x <= Final(b)
  BY <1>1 DEF Instructions
<1>3. \A x \in Instructions(b) : x \in DOMAIN code /\ x \in 1..Len(code)
  <2> SUFFICES ASSUME NEW x \in Instructions(b) PROVE x \in DOMAIN code /\ x \in 1..Len(code)
    OBVIOUS
  <2>1. First(b) \in 1..Len(code) /\ Final(b) \in 1..Len(code) /\ DOMAIN code = 1..Len(code) /\ Len(code) \in Nat
    BY CodeFacts, BlockTypes
  <2> QED BY <1>2, <2>1
<1> SUFFICES ASSUME Bad # {} PROVE FALSE
  OBVIOUS
<1>4. PICK x \in Bad : \A y \in Bad : y <= x
  <2>1. Bad \in SUBSET (1..Len(code)) /\ Len(code) \in Nat
    BY <1>3, CodeFacts
  <2> HIDE DEF Bad
  <2> QED BY <2>1, GreatestNatural
<1>5. x \in Instructions(b) /\ m <= x /\ x <= i /\ x \notin LiveIn(id) /\ x # i
  BY <1>4
<1>6. x \in Nat /\ i \in Nat /\ m \in Nat /\ x < i /\ x # Final(b)
  <2>1. x \in Nat /\ i \in Nat /\ m \in Nat /\ i <= Final(b)
    BY <1>2, <1>5
  <2> QED BY <1>1, <1>5, <2>1
<1>7. x + 1 \in Instructions(b) /\ Follows(x) = {x + 1}
  BY <1>5, <1>6, InsideFacts
<1>8. x + 1 \in LiveIn(id)
  <2>1. m <= x + 1 /\ x + 1 <= i /\ ~(x + 1 <= x)
    BY <1>5, <1>6
  <2> QED BY <1>4, <1>7, <2>1
<1>9. ~Occurs(x, id)
  BY <1>5, <1>6
<1> QED BY <1>3, <1>5, <1>7, <1>8, <1>9, IdleFacts

\* The first instruction of a block is reached from the end of another one.
LEMMA EntryEdge ==
  ASSUME IInv, pc = "done", NEW b \in Blocks, First(b) \in Reached, First(b) # 1
  PROVE  \E d \in visited : /\ d \in Blocks /\ Final(d) \in Reached /\ First(b) \in Follows(Final(d))
                            /\ b \in Seqs!ToSet(conns[d])
<1>1. fn \in Functions /\ Partition
  BY DEF IInv, TypeOK
<1>2. PICK j \in Reached : First(b) \in Follows(j)
  BY <1>1, ReachedFacts
<1>3. PICK d \in Blocks : d = BlockForInstruction(j)
  BY TakenFacts
<1>4. /\ j \in DOMAIN code /\ j \in Instructions(d) /\ d \in visited /\ conns[d] = Successors(d) /\ First(d) \in Reached
      /\ \A k \in Instructions(d) : k < j => code[k].kind # "return"
  BY <1>3, TakenFacts
<1>5. \A c \in Blocks : First(c) \in DOMAIN code /\ First(c) \in Instructions(c) /\ First(c) \in Nat /\ Final(c) \in Nat
  <2> SUFFICES ASSUME NEW c \in Blocks
               PROVE First(c) \in DOMAIN code /\ First(c) \in Instructions(c) /\ First(c) \in Nat /\ Final(c) \in Nat
    OBVIOUS
  <2>1. First(c) \in DOMAIN code /\ First(c) \in Nat /\ Final(c) \in Nat /\ First(c) <= Final(c)
    BY <1>1, BlockTypes DEF Partition
  <2> QED BY <2>1 DEF Instructions
<1>6. \A c \in Blocks : First(b) \in Instructions(c) => c = b
  BY <1>1, <1>5, BlockFacts
<1>7. code[j].kind # "return"
  BY <1>2 DEF Follows
<1>8. j = Final(d)
  <2> SUFFICES ASSUME j # Final(d) PROVE FALSE
    OBVIOUS
  <2>1. First(b) = j + 1 /\ j + 1 \in Instructions(d) /\ j + 1 # First(d)
    BY <1>1, <1>2, <1>4, <1>7, InsideFacts
  <2> QED BY <1>6, <2>1
<1>9. ~Returning(d)
  <2>1. \A k \in Instructions(d) : k < j \/ k = j
    BY <1>5, <1>8 DEF Instructions
  <2> QED BY <1>4, <1>7, <2>1 DEF Returning
<1>10. PICK c \in Seqs!ToSet(Successors(d)) : First(b) = First(c)
  BY <1>1, <1>2, <1>8, <1>9, SuccessorFacts
<1>11. c \in Blocks
  <2>1. Successors(d) \in Seq(Blocks)
    BY <1>1, SuccessorFacts
  <2> QED BY <2>1 DEF Seqs!ToSet
<1>12. c = b
  BY <1>5, <1>6, <1>10, <1>11
<1> QED BY <1>2, <1>4, <1>8, <1>10, <1>12

LEMMA InstructionFacts ==
  ASSUME fn \in Functions, Partition, NEW b \in Blocks
  PROVE  /\ First(b) \in Instructions(b) /\ Final(b) \in Instructions(b)
         /\ \A x \in Instructions(b) : x \in Nat /\ x \in DOMAIN code /\ First(b) <= x /\ x <= Final(b)
         /\ \A x \in Instructions(b) : BlockForInstruction(x) = b
<1>1. /\ First(b) \in 1..Len(code) /\ Final(b) \in 1..Len(code) /\ DOMAIN code = 1..Len(code) /\ Len(code) \in Nat
      /\ First(b) \in Nat /\ Final(b) \in Nat /\ First(b) <= Final(b)
  BY CodeFacts, BlockTypes DEF Partition
<1>2. First(b) \in Instructions(b) /\ Final(b) \in Instructions(b)
  BY <1>1 DEF Instructions
<1>3. \A x \in Instructions(b) : x \in Nat /\ x \in DOMAIN code /\ First(b) <= x /\ x <= Final(b)
  BY <1>1 DEF Instructions
<1>4. \A x \in Instructions(b) : BlockForInstruction(x) = b
  BY <1>3, BlockFacts
<1> QED BY <1>2, <1>3, <1>4

\* A block that names the id, or that its value only passes through, has a range for it.
LEMMA HasRange ==
  ASSUME NEW id, Settled(id), NEW b \in Blocks, First(b) \in Reached,
         OccursIn(b, id) \/ Instructions(b) \subseteq LiveIn(id)
  PROVE  id \in IdsOf(ranges[b])
<1>1. fn \in Functions /\ Partition /\ Named(b, id)
  BY SettledFacts
<1>2. CASE OccursIn(b, id)
  <2>1. PICK i \in Instructions(b) : Occurs(i, id)
    BY <1>2 DEF OccursIn, Instructions
  <2>2. Seen(i, id)
    BY <1>1, <2>1, InstructionFacts, SeenOccurs
  <2> QED BY <1>1, <2>2 DEF Named, SeenIn
<1>3. CASE ~OccursIn(b, id) /\ Instructions(b) \subseteq LiveIn(id)
  BY <1>3 DEF Settled, HolesFilled, Through, Instructions
<1> QED BY <1>2, <1>3

LEMMA LiveInto ==
  ASSUME NEW id, Settled(id), NEW b \in Blocks, First(b) \in Reached, First(b) \in LiveIn(id)
  PROVE  id \in IdsOf(ranges[b])
<1>1. fn \in Functions /\ Partition
  BY SettledFacts
<1>2. /\ First(b) \in Instructions(b) /\ Final(b) \in Instructions(b)
      /\ \A x \in Instructions(b) : x \in DOMAIN code /\ First(b) <= x /\ x <= Final(b)
  BY <1>1, InstructionFacts
<1>3. ASSUME ~OccursIn(b, id) PROVE Instructions(b) \subseteq LiveIn(id)
  <2>1. \A x \in Instructions(b) : ~Occurs(x, id)
    BY <1>3 DEF OccursIn, Instructions
  <2>2. Follows(First(b)) \cap LiveIn(id) # {}
    BY <1>1, <1>2, <2>1, IdleFacts
  <2>3. \A x \in Instructions(b) : First(b) # x => x \in LiveIn(id)
    BY <1>1, <1>2, <2>1, <2>2, Forward
  <2> QED BY <2>3
<1> QED BY <1>3, HasRange

LEMMA LiveOut ==
  ASSUME NEW id, Settled(id), NEW b \in Blocks, First(b) \in Reached,
         \A x \in Instructions(b) : code[x].kind # "return",
         Follows(Final(b)) \cap LiveIn(id) # {}
  PROVE  id \in IdsOf(ranges[b])
<1>1. fn \in Functions /\ Partition
  BY SettledFacts
<1>2. /\ First(b) \in Instructions(b) /\ Final(b) \in Instructions(b)
      /\ \A x \in Instructions(b) : x \in DOMAIN code /\ First(b) <= x /\ x <= Final(b)
  BY <1>1, InstructionFacts
<1>3. ASSUME ~OccursIn(b, id) PROVE Instructions(b) \subseteq LiveIn(id)
  <2>1. \A x \in Instructions(b) : ~Occurs(x, id)
    BY <1>3 DEF OccursIn, Instructions
  <2>2. Final(b) \in LiveIn(id)
    BY <1>1, <1>2, <2>1, IdleFacts
  <2>3. \A x \in Instructions(b) : x \in LiveIn(id)
    BY <1>1, <1>2, <2>1, <2>2, Backward
  <2> QED BY <2>3
<1> QED BY <1>3, HasRange

\* A value that comes into a block is covered from the block's first instruction.
LEMMA CoveredFromEntry ==
  ASSUME NEW id, Settled(id), NEW b \in Blocks, First(b) \in Reached, First(b) \in LiveIn(id),
         ~Occurs(First(b), id)
  PROVE  id \in IdsOf(ranges[b]) /\ ranges[b][Back(ranges[b], id)].first = First(b)
<1>1. fn \in Functions /\ Partition /\ IInv /\ pc = "done" /\ PropagateInv
  BY SettledFacts DEF Settled, IInv
<1>2. id \in IdsOf(ranges[b])
  BY LiveInto
<1>3. First(b) # 1
  BY DEF Settled, Initialised, Occurs
<1>4. PICK d \in visited : /\ d \in Blocks /\ Final(d) \in Reached /\ First(b) \in Follows(Final(d))
                           /\ b \in Seqs!ToSet(conns[d])
  BY <1>1, <1>3, EntryEdge
<1>5. /\ Final(d) \in Instructions(d) /\ BlockForInstruction(Final(d)) = d /\ First(d) \in Nat /\ Final(d) \in Nat
      /\ \A x \in Instructions(d) : x \in Nat /\ x <= Final(d)
  BY <1>1, <1>4, InstructionFacts, BlockTypes
<1>6. First(d) \in Reached /\ \A j \in Instructions(d) : j < Final(d) => code[j].kind # "return"
  BY <1>1, <1>4, <1>5, TakenFacts
<1>7. code[Final(d)].kind # "return"
  BY <1>4 DEF Follows
<1>8. \A x \in Instructions(d) : code[x].kind # "return"
  BY <1>5, <1>6, <1>7
<1>9. id \in IdsOf(ranges[d])
  BY <1>4, <1>6, <1>8, LiveOut
<1>10. Met(d, b, id)
  BY <1>1, <1>2, <1>4, <1>9 DEF PropagateInv, Shared
<1> QED BY <1>2, <1>10 DEF Met

\* A value that leaves a block is covered to its last instruction.
LEMMA CoveredToEnd ==
  ASSUME NEW id, Settled(id), NEW b \in Blocks, b \in visited, conns[b] = Successors(b), Final(b) \in Reached,
         \A x \in Instructions(b) : code[x].kind # "return",
         Follows(Final(b)) \cap LiveIn(id) # {},
         NEW k \in DOMAIN ranges[b], ranges[b][k].id = id
  PROVE  ranges[b][k].last = Final(b)
<1>1. fn \in Functions /\ Partition /\ IInv /\ pc = "done" /\ PropagateInv
  BY SettledFacts DEF Settled, IInv
<1>2. PICK f \in Follows(Final(b)) : f \in LiveIn(id)
  OBVIOUS
<1>3. ~Returning(b)
  BY DEF Returning
<1>4. PICK c \in Seqs!ToSet(conns[b]) : f = First(c)
  BY <1>1, <1>2, <1>3, SuccessorFacts
<1>5. c \in Blocks
  <2>1. Successors(b) \in Seq(Blocks)
    BY <1>1, SuccessorFacts
  <2> QED BY <1>4, <2>1 DEF Seqs!ToSet
<1>6. First(c) \in Reached
  BY <1>1, <1>2, <1>4, ReachedFacts
<1>7. id \in IdsOf(ranges[c])
  BY <1>2, <1>4, <1>5, <1>6, LiveInto
<1>8. Met(b, c, id)
  BY <1>1, <1>4, <1>7 DEF PropagateInv, Shared, IdsOf
<1> QED BY <1>8 DEF Met

\* Between two instructions that name the id.
LEMMA BetweenCovered ==
  ASSUME NEW id, Settled(id), NEW b \in Blocks,
         NEW j \in Instructions(b), NEW m \in Instructions(b), NEW i \in Instructions(b),
         j < i, i < m, Occurs(j, id), Occurs(m, id),
         \A x \in Instructions(b) : j < x /\ x < m => ~Occurs(x, id),
         i \in LiveIn(id)
  PROVE  CoversIn(ranges[b], id, i)
<1>1. fn \in Functions /\ Partition /\ Named(b, id) /\ AtOnce(id)
  BY SettledFacts DEF Settled
<1>2. /\ First(b) \in Instructions(b) /\ First(b) \in Nat /\ Final(b) \in Nat
      /\ \A x \in Instructions(b) : x \in Nat /\ x \in DOMAIN code /\ First(b) <= x /\ x <= Final(b)
      /\ \A x \in Instructions(b) : BlockForInstruction(x) = b
  BY <1>1, InstructionFacts, BlockTypes
<1>3. m - 1 \in Instructions(b) /\ (m - 1) + 1 = m /\ i <= m - 1 /\ m - 1 # Final(b) /\ j < m - 1
  <2>1. j \in Nat /\ i \in Nat /\ m \in Nat /\ First(b) <= j /\ m <= Final(b)
    BY <1>2
  <2>2. m - 1 \in Nat /\ (m - 1) + 1 = m /\ i <= m - 1 /\ m - 1 # Final(b) /\ j < m - 1
    BY <1>2, <2>1
  <2>3. m - 1 \in Instructions(b)
    BY <1>2, <2>1, <2>2 DEF Instructions
  <2> QED BY <2>2, <2>3
<1>4. \A x \in Instructions(b) : i < x /\ x <= m - 1 => ~Occurs(x, id)
  <2> SUFFICES ASSUME NEW x \in Instructions(b), i < x, x <= m - 1 PROVE ~Occurs(x, id)
    OBVIOUS
  <2>1. x \in Nat /\ i \in Nat /\ j \in Nat /\ m \in Nat
    BY <1>2
  <2>2. j < x /\ x < m
    BY <2>1
  <2> QED BY <2>2
<1>5. Follows(i) \cap LiveIn(id) # {}
  BY <1>1, <1>2, IdleFacts
<1>6. Follows(m - 1) \cap LiveIn(id) # {} /\ code[m - 1].kind # "return"
  <2>1. i <= m - 1 /\ m - 1 <= m - 1
    BY <1>2, <1>3
  <2> QED BY <1>1, <1>3, <1>4, <1>5, <2>1, Forward
<1>7. m \in LiveIn(id)
  BY <1>1, <1>3, <1>6, InsideFacts
<1>8. ~Does(m, id, Marked)
  <2> SUFFICES ASSUME Does(m, id, Marked) PROVE FALSE
    OBVIOUS
  <2>1. Does(m, id, Reads) \/ ~Does(m, id, Writes)
    BY <1>1, <1>7, LiveFacts
  <2>2. Does(m, id, Reads)
    BY <2>1 DEF Does, Marked, Reads, Writes
  <2>3. j \in First(b)..(m - 1)
    BY <1>2, <1>3
  <2>4. Occurs(m - 1, id)
    BY <1>1, <1>2, <2>2, <2>3 DEF AtOnce
  <2>5. m - 1 < m
    BY <1>2
  <2> QED BY <1>3, <2>4, <2>5
<1>9. Seen(j, id) /\ Seen(m, id)
  BY <1>2, SeenOccurs
<1>10. \A x \in (j + 1)..(m - 1) : ~Seen(x, id)
  <2> SUFFICES ASSUME NEW x \in (j + 1)..(m - 1) PROVE ~Seen(x, id)
    OBVIOUS
  <2>1. j \in Nat /\ m \in Nat /\ First(b) <= j /\ m <= Final(b)
    BY <1>2
  <2>2. x \in Nat /\ j < x /\ x < m /\ First(b) <= x /\ x <= Final(b)
    BY <1>2, <2>1
  <2>3. x \in Instructions(b)
    BY <1>2, <2>2 DEF Instructions
  <2> QED BY <1>2, <2>2, <2>3, SeenOccurs
<1>11. j < m /\ i \in j..m
  <2>1. j \in Nat /\ i \in Nat /\ m \in Nat
    BY <1>2
  <2> QED BY <2>1
<1> QED BY <1>1, <1>8, <1>9, <1>10, <1>11 DEF Named

LEMMA CoveredAt ==
  ASSUME NEW id, Settled(id), NEW i \in Reached, i \in LiveAt(id)
  PROVE  Covers(BlockForInstruction(i), id, i)
<1>1. fn \in Functions /\ Partition /\ IInv /\ pc = "done"
  BY SettledFacts DEF Settled
<1>2. PICK b \in Blocks : b = BlockForInstruction(i)
  BY <1>1, TakenFacts
<1>3. /\ i \in DOMAIN code /\ i \in Instructions(b) /\ b \in visited /\ conns[b] = Successors(b) /\ First(b) \in Reached
      /\ \A j \in Instructions(b) : j < i => code[j].kind # "return"
  BY <1>1, <1>2, TakenFacts
<1>4. /\ First(b) \in Instructions(b) /\ Final(b) \in Instructions(b) /\ First(b) \in Nat /\ Final(b) \in Nat
      /\ \A x \in Instructions(b) : x \in Nat /\ x \in DOMAIN code /\ First(b) <= x /\ x <= Final(b)
  BY <1>1, InstructionFacts, BlockTypes
<1>5. Named(b, id) /\ ranges[b] \in Seq(RangeType)
  BY SettledFacts
<1>6. \A x \in Instructions(b) : Seen(x, id) <=> Occurs(x, id)
  BY <1>4, SeenOccurs
<1>7. CASE Occurs(i, id)
  BY <1>2, <1>3, <1>5, <1>6, <1>7 DEF Named, CoversIn, Covers
<1>8. CASE ~Occurs(i, id)
  <2> DEFINE Before == {x \in Instructions(b) : x < i /\ Occurs(x, id)}
             After == {x \in Instructions(b) : i < x /\ Occurs(x, id)}
  <2>1. i \in LiveIn(id) /\ Follows(i) \cap LiveIn(id) # {}
    BY <1>1, <1>3, <1>8, IdleFacts DEF LiveAt
  <2>2. \A x \in Instructions(b) : x < i \/ x = i \/ i < x
    BY <1>3, <1>4
  <2>3. ASSUME After = {}
        PROVE  /\ \A x \in Instructions(b) : i <= x => /\ Follows(x) \cap LiveIn(id) # {} /\ code[x].kind # "return"
                                                       /\ x \in LiveIn(id) /\ x \in Reached
               /\ \A x \in Instructions(b) : code[x].kind # "return"
    <3>1. \A x \in Instructions(b) : i < x /\ x <= Final(b) => ~Occurs(x, id)
      BY <2>3
    <3>2. \A x \in Instructions(b) : i <= x => /\ Follows(x) \cap LiveIn(id) # {} /\ code[x].kind # "return"
                                               /\ x \in LiveIn(id) /\ x \in Reached
      BY <1>1, <1>3, <1>4, <2>1, <3>1, Forward
    <3>3. \A x \in Instructions(b) : x < i \/ i <= x
      BY <1>3, <1>4
    <3> QED BY <1>3, <3>2, <3>3
  <2>4. ASSUME Before = {}
        PROVE  /\ \A x \in Instructions(b) : x <= i => x \in LiveIn(id)
               /\ ~Occurs(First(b), id)
    <3>1. \A x \in Instructions(b) : First(b) <= x /\ x < i => ~Occurs(x, id)
      BY <2>4
    <3>2. \A x \in Instructions(b) : x <= i => x \in LiveIn(id)
      BY <1>1, <1>3, <1>4, <2>1, <3>1, Backward
    <3>3. First(b) < i \/ First(b) = i
      BY <1>3, <1>4
    <3> QED BY <1>4, <1>8, <3>1, <3>2, <3>3
  <2>5. CASE Before # {} /\ After # {}
    <3>1. PICK j \in Before : \A x \in Before : x <= j
      <4>1. Before \in SUBSET (1..Len(code)) /\ Len(code) \in Nat
        BY <1>1, <1>4, CodeFacts
      <4> HIDE DEF Before
      <4> QED BY <2>5, <4>1, GreatestNatural
    <3>2. PICK m \in After : \A x \in After : m <= x
      <4>1. After \in SUBSET Nat
        BY <1>4
      <4> HIDE DEF After
      <4> QED BY <2>5, <4>1, LeastNatural
    <3>3. j \in Instructions(b) /\ j < i /\ Occurs(j, id) /\ m \in Instructions(b) /\ i < m /\ Occurs(m, id)
      BY <3>1, <3>2
    <3>4. \A x \in Instructions(b) : j < x /\ x < m => ~Occurs(x, id)
      <4> SUFFICES ASSUME NEW x \in Instructions(b), j < x, x < m, Occurs(x, id) PROVE FALSE
        OBVIOUS
      <4>1. j \in Nat /\ m \in Nat /\ x \in Nat /\ i \in Nat
        BY <1>3, <1>4, <3>3
      <4>2. CASE x < i
        <5>1. x <= j
          BY <3>1, <4>2
        <5> QED BY <4>1, <5>1
      <4>3. CASE i < x
        <5>1. m <= x
          BY <3>2, <4>3
        <5> QED BY <4>1, <5>1
      <4> QED BY <1>8, <2>2, <4>2, <4>3
    <3>5. CoversIn(ranges[b], id, i)
      BY <1>3, <2>1, <3>3, <3>4, BetweenCovered
    <3> QED BY <1>2, <3>5 DEF CoversIn, Covers
  <2>6. CASE Before = {} /\ After # {}
    <3>1. PICK m \in Instructions(b) : i < m /\ Occurs(m, id)
      BY <2>6
    <3>2. First(b) \in LiveIn(id) /\ ~Occurs(First(b), id)
      BY <1>3, <1>4, <2>4, <2>6
    <3>3. PICK rs \in Seq(RangeType) : rs = ranges[b]
      BY <1>5
    <3>4. id \in IdsOf(rs) /\ rs[Back(rs, id)].first = First(b)
      BY <1>3, <3>2, <3>3, CoveredFromEntry
    <3>5. m <= rs[Back(rs, id)].last
      BY <1>5, <1>6, <3>1, <3>3 DEF Named
    <3>6. Back(rs, id) \in DOMAIN rs /\ rs[Back(rs, id)].id = id
      BY <3>4, BackFacts
    <3>7. PICK r \in RangeType : r = rs[Back(rs, id)]
      BY <3>6
    <3>8. PICK l \in Nat : l = r.last
      BY RangeFields
    <3>9. i \in Nat /\ m \in Nat /\ First(b) <= i /\ m <= l
      BY <1>3, <1>4, <3>5, <3>7, <3>8
    <3>10. i <= l
      BY <3>1, <3>9
    <3> QED BY <1>2, <3>3, <3>4, <3>6, <3>7, <3>8, <3>9, <3>10 DEF Covers
  <2>7. CASE Before # {} /\ After = {}
    <3>1. PICK j \in Instructions(b) : j < i /\ Occurs(j, id)
      BY <2>7
    <3>2. CoversIn(ranges[b], id, j)
      BY <1>5, <1>6, <3>1 DEF Named
    <3>3. PICK k \in DOMAIN ranges[b] : ranges[b][k].id = id /\ ranges[b][k].first <= j /\ j <= ranges[b][k].last
      BY <3>2 DEF CoversIn
    <3>4. Final(b) \in Reached /\ Follows(Final(b)) \cap LiveIn(id) # {} /\ \A x \in Instructions(b) : code[x].kind # "return"
      BY <1>3, <1>4, <2>3, <2>7
    <3>5. ranges[b][k].last = Final(b)
      BY <1>3, <3>3, <3>4, CoveredToEnd
    <3>6. PICK r \in RangeType : r = ranges[b][k]
      BY <1>5
    <3>7. PICK f \in Nat : f = r.first
      BY RangeFields
    <3>8. f <= j /\ j \in Nat /\ i \in Nat /\ i <= Final(b)
      BY <1>3, <1>4, <3>1, <3>3, <3>6, <3>7
    <3>9. f <= i
      BY <3>1, <3>8
    <3> QED BY <1>2, <3>3, <3>5, <3>6, <3>7, <3>8, <3>9 DEF Covers
  <2>8. CASE Before = {} /\ After = {}
    <3>1. \A x \in Instructions(b) : ~Occurs(x, id)
      BY <1>8, <2>2, <2>8
    <3>2. \A x \in Instructions(b) : x <= i \/ i <= x
      BY <1>3, <1>4
    <3>3. Instructions(b) \subseteq LiveIn(id)
      BY <2>3, <2>4, <2>8, <3>2
    <3>4. id \in IdsOf(ranges[b])
      BY <1>3, <3>3, HasRange
    <3>5. ~SeenIn(b, id)
      BY <1>6, <3>1 DEF SeenIn
    <3> QED BY <1>2, <1>3, <1>5, <3>4, <3>5 DEF Named, CoversIn, Covers
  <2> QED BY <2>5, <2>6, <2>7, <2>8
<1> QED BY <1>7, <1>8

\* A value is covered by ranges of its id from where it is computed to where it is read
\* last, on every path and around every loop, when the blocks that do not name it are
\* filled (liveness_propagator.cpp:84-191).
THEOREM LiveAreCovered == Spec => []LiveCovered
<1>1. IInv => LiveCovered
  BY CoveredAt DEF LiveCovered, Settled
<1> QED BY <1>1, Invariance, PTL
=============================================================================
